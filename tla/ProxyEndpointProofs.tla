------------------------- MODULE ProxyEndpointProofs -------------------------
(***************************************************************************)
(* The failure window of a native proxy endpoint counts its requests       *)
(* exactly, admits one probe, is never orphaned and commits a cooldown     *)
(* only on evidence, for every number of requests and all durations.       *)
(*                                                                         *)
(* The counters are enough: once they are known to count the requests of   *)
(* the epoch, what a window may do is a matter of the endpoint's record    *)
(* alone.                                                                  *)
(***************************************************************************)
EXTENDS ProxyEndpoint, FiniteSetTheorems, SequenceTheorems, TLAPS

Cause == {"none", "transport", "degradation"}

\* The endpoint's record without the bounds of its epoch and of its counters.
State(c) ==
    [epoch : Nat, failures : Nat, retryIn : 0..(CooldownMax + DegradedMax),
     probing : BOOLEAN, pending : BOOLEAN, h3InFlight : Nat, fallbackPending : Nat,
     fallbackReady : BOOLEAN, pendingCause : Cause, cooldownCause : Cause, strikes : 0..8,
     strikeLeft : 0..StrikeWindow, active : BOOLEAN, degRetryIn : {Off} \cup 0..CooldownBase,
     canaryLeft : 0..CanaryInterval, canaryToken : 0..c]

Failures(n) == IF n = 0 THEN {<<>>} ELSE [1..n -> Failure]

Req(e) ==
    [pc : {"loop", "dial", "return", "done"}, index : 1..2,
     ctx : {"live", "canceled", "transport"}, token : 0..e, managed : BOOLEAN, pending : 0..e,
     joined : 0..e, reachable : BOOLEAN,
     failures : {<<>>} \cup [1..1 -> Failure] \cup [1..2 -> Failure], tunnel : BOOLEAN]

\* HTTP/3 first, HTTP/2 to fall back to
Falls(r) == Protocols[r] = <<"h3", "h2">>

\* Where a request is in its plan: the token of an admitted attempt is held during
\* the dial and by no other dial, and the request reports for one window at most.
Place(r, q) ==
    /\ q.index <= Len(Protocols[r])
    /\ q.token # 0 <=> q.pc = "dial" /\ q.index = 1 /\ Falls(r)
    /\ q.pc \in {"loop", "dial"} /\ q.index = 1 => q.pending = 0 /\ q.joined = 0
    /\ q.pc \in {"loop", "dial"} => q.failures \in Failures(q.index - 1)
    /\ q.pending = 0 \/ q.joined = 0

\* What a window may look like: without a cooldown behind it nothing probes, with
\* one the probe is all that is in flight.
Admission(s) ==
    /\ s.epoch = 0 => s = NoState
    /\ s.failures = 0 => ~s.probing
    /\ s.failures > 0 => s.h3InFlight = IF s.probing THEN 1 ELSE 0

Attended(s) ==
    /\ s.pending => s.h3InFlight > 0 \/ s.fallbackPending > 0 \/ s.pendingCause = "degradation"
    /\ s.fallbackReady => s.h3InFlight > 0

Window(s) == Admission(s) /\ Attended(s)

AttemptsIn(rq, e) == {r \in Request : rq[r].pc = "dial" /\ rq[r].token = e}
WaitingIn(rq, e) == {r \in Request : rq[r].pc # "done" /\ e \in {rq[r].pending, rq[r].joined}}

Exact(s, rq) ==
    s.epoch # 0 => /\ s.h3InFlight = Cardinality(AttemptsIn(rq, s.epoch))
                   /\ s.fallbackPending = Cardinality(WaitingIn(rq, s.epoch))

ReqOK(e, rq) ==
    /\ rq \in [Request -> Req(e)]
    /\ \A r \in Request : Place(r, rq[r])

StateOK(e, c, s) == s \in State(c) /\ s.epoch \in 0..e /\ Window(s)

\* Who claimed the canary, and who holds it.
CanaryOK(c, s, pb) ==
    /\ pb \in [Selector -> -1..c]
    /\ c = Cardinality({x \in Selector : pb[x] # -1})
    /\ s.canaryToken # 0 => \E x \in Selector : pb[x] = s.canaryToken

EvidenceOK(e, s, ev) ==
    /\ ev \subseteq 0..e
    /\ s.fallbackReady => s.epoch \in ev

Inv(n, c, d, s, rq, pb, ev) ==
    /\ n \in Nat /\ c \in Nat /\ d \in 0..MaxDegradations
    /\ StateOK(n, c, s)
    /\ ReqOK(n, rq)
    /\ Exact(s, rq)
    /\ CanaryOK(c, s, pb)
    /\ EvidenceOK(n, s, ev)

\* The inductive invariant.
IInv == Inv(h3Epoch, canary, degraded, h3, req, probe, evidence)

-----------------------------------------------------------------------------
(* The constants and the sets of requests. *)

LEMMA EndpointConstants ==
    /\ CooldownBase \in Nat \ {0} /\ CooldownMax \in Nat \ {0} /\ DegradedBase \in Nat \ {0}
    /\ DegradedMax \in Nat \ {0} /\ StrikeWindow \in Nat \ {0} /\ CanaryInterval \in Nat \ {0}
    /\ MaxDegradations \in Nat
BY EndpointAssumption

\* A plan has one or two protocols; only HTTP/3 followed by HTTP/2 uses the cooldown.
LEMMA Plans ==
    ASSUME NEW r \in Request
    PROVE  /\ Len(Protocols[r]) \in 1..2
           /\ Falls(r) => /\ Len(Protocols[r]) = 2
                          /\ Protocols[r][1] = "h3" /\ Protocols[r][2] = "h2"
           /\ ~Falls(r) => ~(Len(Protocols[r]) = 2 /\ Protocols[r][1] = "h3" /\ Protocols[r][2] = "h2")
<1>1. Protocols[r] \in {<<"h3", "h2">>, <<"h2", "h3">>, <<"h3">>, <<"h2">>}
  BY EndpointAssumption
<1>2. CASE Protocols[r] = <<"h3", "h2">>
  BY <1>2 DEF Falls
<1>3. CASE Protocols[r] = <<"h2", "h3">>
  BY <1>3 DEF Falls
<1>4. CASE Protocols[r] = <<"h3">>
  BY <1>4 DEF Falls
<1>5. CASE Protocols[r] = <<"h2">>
  BY <1>5 DEF Falls
<1> QED
  BY <1>1, <1>2, <1>3, <1>4, <1>5

LEMMA CooldownUsed ==
    ASSUME NEW r \in Request, req[r].index \in 1..2
    PROVE  UseCooldown(r) <=> req[r].index = 1 /\ Falls(r)
<1>1. CASE req[r].index = 1
  <2>1. UseCooldown(r) <=> Len(Protocols[r]) = 2 /\ Protocols[r][1] = "h3" /\ Protocols[r][2] = "h2"
    BY <1>1, Plans DEF UseCooldown, Protocol, Plan
  <2> QED
    BY <1>1, <2>1, Plans
<1>2. CASE req[r].index = 2
  BY <1>2, Plans DEF UseCooldown, Protocol, Plan
<1> QED
  BY <1>1, <1>2

-----------------------------------------------------------------------------
(* Counting the requests of an epoch. *)

OneMoves(H, K, before, after) ==
    /\ (before <=> after) => K = H
    /\ after /\ ~before => Cardinality(K) = Cardinality(H) + 1
    /\ before /\ ~after => Cardinality(K) = Cardinality(H) - 1 /\ Cardinality(H) > 0

LEMMA OneElement ==
    ASSUME NEW H, NEW K, IsFiniteSet(H), NEW x, NEW before \in BOOLEAN, NEW after \in BOOLEAN,
           before <=> x \in H, K = IF after THEN H \cup {x} ELSE H \ {x}
    PROVE  OneMoves(H, K, before, after)
<1>1. Cardinality(H) \in Nat
  BY FS_CardinalityType
<1>2. (before <=> after) => K = H
  OBVIOUS
<1>3. after /\ ~before => Cardinality(K) = Cardinality(H) + 1
  BY FS_AddElement
<1>4. before /\ ~after => Cardinality(K) = Cardinality(H) - 1 /\ Cardinality(H) > 0
  <2> SUFFICES ASSUME before, ~after
               PROVE  Cardinality(K) = Cardinality(H) - 1 /\ Cardinality(H) > 0
    OBVIOUS
  <2>1. Cardinality(K) = Cardinality(H) - 1 /\ IsFiniteSet(K)
    BY FS_RemoveElement
  <2>2. Cardinality(K) \in Nat
    BY <2>1, FS_CardinalityType
  <2> QED
    BY <1>1, <2>1, <2>2
<1> QED
  BY <1>2, <1>3, <1>4 DEF OneMoves

LEMMA RequestsFinite ==
    ASSUME NEW S \in SUBSET Request
    PROVE  IsFiniteSet(S) /\ Cardinality(S) \in 0..Cardinality(Request)
<1>1. IsFiniteSet(Request)
  BY EndpointAssumption
<1>2. IsFiniteSet(S) /\ Cardinality(S) <= Cardinality(Request)
  BY <1>1, FS_Subset
<1> QED
  BY <1>1, <1>2, FS_CardinalityType

Dials(q, e) == q.pc = "dial" /\ q.token = e
Waits(q, e) == q.pc # "done" /\ e \in {q.pending, q.joined}

\* What becomes of both counts when one request changes.
LEMMA RequestCounts ==
    ASSUME NEW rq, DOMAIN rq = Request, NEW r \in Request, NEW q, NEW e,
           rq = [x \in Request |-> rq[x]]
    PROVE  LET rq2 == [rq EXCEPT ![r] = q] IN
           /\ OneMoves(AttemptsIn(rq, e), AttemptsIn(rq2, e), Dials(rq[r], e), Dials(q, e))
           /\ OneMoves(WaitingIn(rq, e), WaitingIn(rq2, e), Waits(rq[r], e), Waits(q, e))
<1> DEFINE rq2 == [rq EXCEPT ![r] = q]
           H == AttemptsIn(rq, e)
           K == AttemptsIn(rq2, e)
           G == WaitingIn(rq, e)
           L == WaitingIn(rq2, e)
<1>1. rq2[r] = q /\ \A x \in Request : x # r => rq2[x] = rq[x]
  OBVIOUS
<1> HIDE DEF rq2
<1>2. IsFiniteSet(H) /\ IsFiniteSet(G)
  BY RequestsFinite DEF AttemptsIn, WaitingIn
<1>3. (Dials(rq[r], e) <=> r \in H) /\ (Waits(rq[r], e) <=> r \in G)
  BY DEF Dials, Waits, AttemptsIn, WaitingIn
<1>4. K = IF Dials(q, e) THEN H \cup {r} ELSE H \ {r}
  BY <1>1 DEF Dials, AttemptsIn
<1>5. L = IF Waits(q, e) THEN G \cup {r} ELSE G \ {r}
  BY <1>1 DEF Waits, WaitingIn
<1>6. Dials(q, e) \in BOOLEAN /\ Waits(q, e) \in BOOLEAN
      /\ Dials(rq[r], e) \in BOOLEAN /\ Waits(rq[r], e) \in BOOLEAN
  BY DEF Dials, Waits
<1>7. OneMoves(H, K, Dials(rq[r], e), Dials(q, e))
  BY <1>2, <1>3, <1>4, <1>6, OneElement
<1>8. OneMoves(G, L, Waits(rq[r], e), Waits(q, e))
  BY <1>2, <1>3, <1>5, <1>6, OneElement
<1> QED
  BY <1>7, <1>8 DEF rq2

\* Nobody is in an epoch that has not been given out yet.
LEMMA NewEpochEmpty ==
    ASSUME NEW n \in Nat, NEW rq \in [Request -> Req(n)]
    PROVE  AttemptsIn(rq, n + 1) = {} /\ WaitingIn(rq, n + 1) = {}
<1>1. \A r \in Request : rq[r].token \in 0..n /\ rq[r].pending \in 0..n /\ rq[r].joined \in 0..n
  BY DEF Req
<1> QED
  BY <1>1 DEF AttemptsIn, WaitingIn

\* How the counters of the endpoint follow the request that takes a step: within
\* the epoch, or in a new epoch that only this request can have entered.
One(b) == IF b THEN 1 ELSE 0
Follows(n, s, t, q, p) ==
    \/ /\ t.epoch = s.epoch
       /\ s.epoch # 0 =>
            /\ t.h3InFlight = s.h3InFlight - One(Dials(q, s.epoch)) + One(Dials(p, s.epoch))
            /\ t.fallbackPending = s.fallbackPending - One(Waits(q, s.epoch)) + One(Waits(p, s.epoch))
    \/ /\ t.epoch = n + 1
       /\ t.h3InFlight = One(Dials(p, n + 1)) /\ t.fallbackPending = One(Waits(p, n + 1))

LEMMA CountMoves ==
    ASSUME NEW H, NEW K, NEW before \in BOOLEAN, NEW after \in BOOLEAN,
           OneMoves(H, K, before, after), Cardinality(H) \in Nat
    PROVE  Cardinality(K) = Cardinality(H) - One(before) + One(after)
<1>1. CASE before /\ after
  BY <1>1 DEF OneMoves, One
<1>2. CASE before /\ ~after
  BY <1>2 DEF OneMoves, One
<1>3. CASE ~before /\ after
  BY <1>3 DEF OneMoves, One
<1>4. CASE ~before /\ ~after
  BY <1>4 DEF OneMoves, One
<1> QED
  BY <1>1, <1>2, <1>3, <1>4

LEMMA ExactFollows ==
    ASSUME NEW n \in Nat, NEW rq \in [Request -> Req(n)], NEW r \in Request, NEW p,
           NEW s, NEW t, Exact(s, rq), Follows(n, s, t, rq[r], p)
    PROVE  Exact(t, [rq EXCEPT ![r] = p])
<1> DEFINE q == rq[r]
           rq2 == [rq EXCEPT ![r] = p]
<1>1. \A e : /\ OneMoves(AttemptsIn(rq, e), AttemptsIn(rq2, e), Dials(q, e), Dials(p, e))
             /\ OneMoves(WaitingIn(rq, e), WaitingIn(rq2, e), Waits(q, e), Waits(p, e))
  BY RequestCounts
<1>2. \A e : Cardinality(AttemptsIn(rq, e)) \in Nat /\ Cardinality(WaitingIn(rq, e)) \in Nat
  BY RequestsFinite DEF AttemptsIn, WaitingIn
<1>3. \A e : Dials(q, e) \in BOOLEAN /\ Dials(p, e) \in BOOLEAN /\ Waits(q, e) \in BOOLEAN
             /\ Waits(p, e) \in BOOLEAN
  BY DEF Dials, Waits
<1>4. \A e : /\ Cardinality(AttemptsIn(rq2, e)) =
                  Cardinality(AttemptsIn(rq, e)) - One(Dials(q, e)) + One(Dials(p, e))
             /\ Cardinality(WaitingIn(rq2, e)) =
                  Cardinality(WaitingIn(rq, e)) - One(Waits(q, e)) + One(Waits(p, e))
  BY <1>1, <1>2, <1>3, CountMoves
<1>5. Cardinality(AttemptsIn(rq, n + 1)) = 0 /\ Cardinality(WaitingIn(rq, n + 1)) = 0
      /\ ~Dials(q, n + 1) /\ ~Waits(q, n + 1)
  <2>1. AttemptsIn(rq, n + 1) = {} /\ WaitingIn(rq, n + 1) = {}
    BY NewEpochEmpty
  <2> QED
    BY <2>1, FS_EmptySet DEF AttemptsIn, WaitingIn, Dials, Waits
<1> SUFFICES Exact(t, rq2)
  OBVIOUS
<1>q. Follows(n, s, t, q, p)
  OBVIOUS
<1> HIDE DEF q, rq2
<1>6. CASE t.epoch = s.epoch
           /\ (s.epoch # 0 =>
            /\ t.h3InFlight = s.h3InFlight - One(Dials(q, s.epoch)) + One(Dials(p, s.epoch))
            /\ t.fallbackPending = s.fallbackPending - One(Waits(q, s.epoch)) + One(Waits(p, s.epoch)))
  BY <1>4, <1>6 DEF Exact
<1>7. CASE t.epoch = n + 1
           /\ t.h3InFlight = One(Dials(p, n + 1)) /\ t.fallbackPending = One(Waits(p, n + 1))
  <2>1. Cardinality(AttemptsIn(rq2, n + 1)) = 0 - 0 + One(Dials(p, n + 1))
        /\ Cardinality(WaitingIn(rq2, n + 1)) = 0 - 0 + One(Waits(p, n + 1))
    BY <1>4, <1>5 DEF One
  <2>2. One(Dials(p, n + 1)) \in Nat /\ One(Waits(p, n + 1)) \in Nat
    BY DEF One
  <2> QED
    BY <1>7, <2>1, <2>2 DEF Exact
<1> QED
  BY <1>6, <1>7, <1>q DEF Follows

-----------------------------------------------------------------------------
(* The operators of the endpoint's record. *)

LEMMA CooldownTyped ==
    ASSUME NEW cause, NEW n \in Nat
    PROVE  Cooldown(cause, n) \in 0..(CooldownMax + DegradedMax)
<1>1. \A base, maximum \in Nat \ {0} : Doubled(base, maximum, n) \in 0..maximum
  BY DEF Doubled
<1>2. /\ Doubled(DegradedBase, DegradedMax, n) \in 0..DegradedMax
      /\ Doubled(CooldownBase, CooldownMax, n) \in 0..CooldownMax
  BY <1>1, EndpointConstants
<1> QED
  BY <1>2, EndpointConstants DEF Cooldown

LEMMA StateFields ==
    ASSUME NEW c \in Nat, NEW s \in State(c)
    PROVE  /\ s.epoch \in Nat /\ s.failures \in Nat /\ s.retryIn \in 0..(CooldownMax + DegradedMax)
           /\ s.probing \in BOOLEAN /\ s.pending \in BOOLEAN /\ s.h3InFlight \in Nat
           /\ s.fallbackPending \in Nat /\ s.fallbackReady \in BOOLEAN
           /\ s.pendingCause \in Cause /\ s.cooldownCause \in Cause /\ s.strikes \in 0..8
           /\ s.strikeLeft \in 0..StrikeWindow /\ s.active \in BOOLEAN
           /\ s.degRetryIn \in {Off} \cup 0..CooldownBase
           /\ s.canaryLeft \in 0..CanaryInterval /\ s.canaryToken \in 0..c
BY DEF State

LEMMA NoStateFacts ==
    ASSUME NEW c \in Nat
    PROVE  /\ NoState \in State(c)
           /\ NoState.epoch = 0 /\ NoState.failures = 0 /\ NoState.retryIn = 0
           /\ ~NoState.probing /\ ~NoState.pending /\ NoState.h3InFlight = 0
           /\ NoState.fallbackPending = 0 /\ ~NoState.fallbackReady
           /\ NoState.strikes = 0 /\ NoState.strikeLeft = 0 /\ ~NoState.active
           /\ NoState.degRetryIn = Off /\ NoState.canaryLeft = 0 /\ NoState.canaryToken = 0
<1>1. NoState \in State(c)
  BY EndpointConstants DEF NoState, State, Cause, Off
<1> QED
  BY <1>1 DEF NoState

\* A window that closes: its counters are zero and its epoch is new.
Closed(t) ==
    /\ t.epoch = h3Epoch + 1 /\ t.h3InFlight = 0 /\ t.fallbackPending = 0
    /\ ~t.probing /\ ~t.fallbackReady

LEMMA CloseFacts ==
    ASSUME h3Epoch \in Nat, NEW c \in Nat, NEW s \in State(c)
    PROVE  LET t == CloseWindow(s) IN
           /\ t \in State(c) /\ Closed(t) /\ ~t.pending
           /\ t.failures = s.failures /\ t.canaryToken = s.canaryToken
<1> DEFINE k == h3Epoch + 1
           t == [s EXCEPT !.pending = FALSE, !.probing = FALSE, !.h3InFlight = 0,
                          !.fallbackPending = 0, !.fallbackReady = FALSE,
                          !.pendingCause = "none", !.epoch = k]
<1>1. CloseWindow(s) = t /\ k \in Nat /\ 0 \in Nat /\ "none" \in Cause
  BY DEF CloseWindow, Cause
<1>2. Closed(t) <=> /\ t.epoch = k /\ t.h3InFlight = 0 /\ t.fallbackPending = 0
                    /\ ~t.probing /\ ~t.fallbackReady
  BY DEF Closed
<1> SUFFICES t \in State(c) /\ Closed(t) /\ ~t.pending /\ t.failures = s.failures
             /\ t.canaryToken = s.canaryToken
  BY <1>1
<1> HIDE DEF k
<1>3. t \in State(c)
  BY <1>1 DEF State
<1> QED
  BY <1>2, <1>3 DEF State

LEMMA CommitFacts ==
    ASSUME h3Epoch \in Nat, NEW c \in Nat, NEW s \in State(c)
    PROVE  LET t == Commit(s) IN
           /\ t \in State(c) /\ Closed(t) /\ ~t.pending
           /\ t.failures = s.failures + 1 /\ t.canaryToken = s.canaryToken
<1> DEFINE cause == CHOOSE x \in {"transport", "degradation"} :
                    \/ x = s.pendingCause
                    \/ s.pendingCause = "none" /\ x = s.cooldownCause
                    \/ s.pendingCause = "none" /\ s.cooldownCause = "none" /\ x = "transport"
           d == CloseWindow(s)
           f == s.failures + 1
           k == Cooldown(cause, f)
           t == [d EXCEPT !.cooldownCause = cause, !.degRetryIn = Off, !.failures = f, !.retryIn = k]
<1>1. d \in State(c) /\ Closed(d) /\ ~d.pending /\ d.canaryToken = s.canaryToken
  BY CloseFacts
<1>2. cause \in Cause
  <2>1. s.pendingCause \in Cause /\ s.cooldownCause \in Cause
    BY DEF State
  <2>2. \E x \in {"transport", "degradation"} :
                    \/ x = s.pendingCause
                    \/ s.pendingCause = "none" /\ x = s.cooldownCause
                    \/ s.pendingCause = "none" /\ s.cooldownCause = "none" /\ x = "transport"
    BY <2>1 DEF Cause
  <2>3. cause \in {"transport", "degradation"}
    BY <2>2
  <2> QED
    BY <2>3 DEF Cause
<1>3. f \in Nat
  BY DEF State
<1>4. k \in 0..(CooldownMax + DegradedMax)
  BY <1>3, CooldownTyped
<1>5. Commit(s) = t
  BY DEF Commit
<1> SUFFICES t \in State(c) /\ Closed(t) /\ ~t.pending /\ t.failures = f
             /\ t.canaryToken = s.canaryToken
  BY <1>5
<1> HIDE DEF cause, d, f, k
<1>6. t \in State(c)
  BY <1>1, <1>2, <1>3, <1>4 DEF State
<1> QED
  BY <1>1, <1>6 DEF State, Closed

LEMMA ExpireFacts ==
    ASSUME h3Epoch \in Nat, NEW c \in Nat, NEW s \in State(c)
    PROVE  LET t == Expire(s) IN
           /\ t \in State(c) /\ Closed(t) /\ ~t.pending
           /\ t.failures = s.failures /\ t.canaryToken = s.canaryToken
<1> DEFINE d == CloseWindow(s)
           k == IF s.pendingCause = "degradation" THEN CooldownBase ELSE s.degRetryIn
           t == [d EXCEPT !.degRetryIn = k]
<1>1. d \in State(c) /\ Closed(d) /\ ~d.pending /\ d.failures = s.failures
      /\ d.canaryToken = s.canaryToken
  BY CloseFacts
<1>2. k \in {Off} \cup 0..CooldownBase
  BY EndpointConstants DEF State
<1> SUFFICES t \in State(c) /\ Closed(t) /\ ~t.pending /\ t.failures = s.failures
             /\ t.canaryToken = s.canaryToken
  BY DEF Expire
<1> HIDE DEF d, k
<1>3. t \in State(c)
  BY <1>1, <1>2 DEF State
<1> QED
  BY <1>1, <1>3 DEF State, Closed

LEMMA ResetFacts ==
    ASSUME h3Epoch \in Nat, NEW c \in Nat, NEW s \in State(c), NEW all \in BOOLEAN
    PROVE  LET t == Reset(s, all) IN
           /\ t \in State(c) /\ Closed(t) /\ ~t.pending /\ t.failures = 0
           /\ t.canaryToken \in {0, s.canaryToken}
<1> DEFINE d == CloseWindow(s)
           u == [d EXCEPT !.failures = 0, !.cooldownCause = "none", !.retryIn = 0]
           v == [u EXCEPT !.strikes = 0, !.strikeLeft = 0, !.active = FALSE, !.degRetryIn = Off,
                          !.canaryLeft = 0, !.canaryToken = 0]
<1>1. d \in State(c) /\ Closed(d) /\ ~d.pending /\ d.canaryToken = s.canaryToken
  BY CloseFacts
<1> SUFFICES /\ u \in State(c) /\ Closed(u) /\ ~u.pending /\ u.failures = 0
                /\ u.canaryToken = s.canaryToken
             /\ v \in State(c) /\ Closed(v) /\ ~v.pending /\ v.failures = 0 /\ v.canaryToken = 0
  BY DEF Reset
<1>0. /\ 0 \in Nat /\ "none" \in Cause /\ 0 \in 0..(CooldownMax + DegradedMax) /\ 0 \in 0..8
      /\ 0 \in 0..StrikeWindow /\ 0 \in 0..CanaryInterval /\ 0 \in 0..c
      /\ Off \in {Off} \cup 0..CooldownBase
  BY EndpointConstants DEF Cause
<1> HIDE DEF d
<1>2. u \in State(c)
  BY <1>0, <1>1 DEF State
<1>3. Closed(u) /\ ~u.pending /\ u.failures = 0 /\ u.canaryToken = s.canaryToken
  BY <1>1, <1>2 DEF State, Closed
<1> HIDE DEF u
<1>4. v \in State(c)
  BY <1>0, <1>2 DEF State
<1>5. Closed(v) /\ ~v.pending /\ v.failures = 0 /\ v.canaryToken = 0
  BY <1>2, <1>3, <1>4 DEF State, Closed
<1> QED
  BY <1>2, <1>3, <1>4, <1>5

LEMMA StartFacts ==
    ASSUME h3Epoch \in Nat, NEW c \in Nat, NEW s \in State(c)
    PROVE  LET t == StartDegradationFallback(s) IN
           /\ t \in State(c) /\ Closed(t) /\ t.pending /\ t.pendingCause = "degradation"
           /\ t.failures = s.failures /\ t.canaryToken = s.canaryToken
<1> DEFINE d == CloseWindow(s)
           t == [d EXCEPT !.pending = TRUE, !.pendingCause = "degradation", !.degRetryIn = Off]
<1>1. d \in State(c) /\ Closed(d) /\ d.failures = s.failures /\ d.canaryToken = s.canaryToken
  BY CloseFacts
<1> SUFFICES t \in State(c) /\ Closed(t) /\ t.pending /\ t.pendingCause = "degradation"
             /\ t.failures = s.failures /\ t.canaryToken = s.canaryToken
  BY DEF StartDegradationFallback
<1> HIDE DEF d
<1>2. t \in State(c)
  BY <1>1 DEF State, Cause
<1> QED
  BY <1>1, <1>2 DEF State, Closed

\* A closed window may look as it does.
LEMMA ClosedWindow ==
    ASSUME h3Epoch \in Nat, NEW t, Closed(t), t.pending => t.pendingCause = "degradation"
    PROVE  Window(t)
BY DEF Closed, Window, Admission, Attended

\* How one operation changes the endpoint: within the epoch the counters move by a
\* and w, in a new epoch they are x and y; ready tells whether the window has seen
\* a reachable fallback when it is resolved.
Changes(c, s, t, a, w, x, y, ready) ==
    /\ t \in State(c) /\ Window(t) /\ t.canaryToken \in {0, s.canaryToken}
    /\ \/ /\ t.epoch = s.epoch
          /\ t.h3InFlight = s.h3InFlight + a /\ t.fallbackPending = s.fallbackPending + w
          /\ t.fallbackReady => ready
       \/ /\ t.epoch = h3Epoch + 1
          /\ t.h3InFlight = x /\ t.fallbackPending = y /\ ~t.fallbackReady
    /\ t.failures > s.failures => ready /\ s.h3InFlight + a = 0

\* resolveHTTP3FailureWindowLocked leaves no window unattended.
LEMMA ResolveFacts ==
    ASSUME h3Epoch \in Nat, NEW c \in Nat, NEW s \in State(c), Admission(s), s.epoch # 0
    PROVE  LET t == Resolve(s) IN
           /\ t \in State(c) /\ Window(t) /\ t.canaryToken = s.canaryToken
           /\ t = s \/ (Closed(t) /\ ~t.pending)
           /\ t.failures > s.failures => s.fallbackReady /\ s.h3InFlight = 0
<1>0. s.h3InFlight \in Nat /\ s.fallbackPending \in Nat /\ s.failures \in Nat
      /\ s.fallbackReady \in BOOLEAN
  BY DEF State
<1>1. CASE s.h3InFlight > 0
  <2>1. Resolve(s) = s
    BY <1>1 DEF Resolve
  <2>2. Window(s)
    BY <1>1 DEF Window, Attended
  <2> QED
    BY <1>0, <2>1, <2>2
<1>2. CASE ~(s.h3InFlight > 0) /\ s.fallbackReady
  <2>1. Resolve(s) = Commit(s)
    BY <1>2 DEF Resolve
  <2>2. Commit(s) \in State(c) /\ Closed(Commit(s)) /\ ~Commit(s).pending
        /\ Commit(s).canaryToken = s.canaryToken
    BY CommitFacts
  <2> QED
    BY <1>0, <1>2, <2>1, <2>2, ClosedWindow
<1>3. CASE ~(s.h3InFlight > 0) /\ ~s.fallbackReady /\ s.fallbackPending > 0
  <2>1. Resolve(s) = s
    BY <1>3 DEF Resolve
  <2>2. Window(s)
    BY <1>3 DEF Window, Attended
  <2> QED
    BY <1>0, <2>1, <2>2
<1>4. CASE ~(s.h3InFlight > 0) /\ ~s.fallbackReady /\ ~(s.fallbackPending > 0)
  <2>1. Resolve(s) = Expire(s)
    BY <1>4 DEF Resolve
  <2>2. Expire(s) \in State(c) /\ Closed(Expire(s)) /\ ~Expire(s).pending
        /\ Expire(s).canaryToken = s.canaryToken /\ Expire(s).failures = s.failures
    BY ExpireFacts
  <2> QED
    BY <1>0, <2>1, <2>2, ClosedWindow
<1> QED
  BY <1>0, <1>1, <1>2, <1>3, <1>4

\* An operation that moves the counters and then resolves the window.
LEMMA ResolveChanges ==
    ASSUME h3Epoch \in Nat, NEW c \in Nat, NEW s \in State(c), NEW u \in State(c), Admission(u),
           u.epoch = s.epoch, s.epoch # 0, u.failures = s.failures, u.canaryToken = s.canaryToken,
           NEW a \in Int, NEW w \in Int,
           u.h3InFlight = s.h3InFlight + a, u.fallbackPending = s.fallbackPending + w
    PROVE  Changes(c, s, Resolve(u), a, w, 0, 0, u.fallbackReady)
<1> DEFINE t == Resolve(u)
<1>1. /\ t \in State(c) /\ Window(t) /\ t.canaryToken = u.canaryToken
      /\ t = u \/ (Closed(t) /\ ~t.pending)
      /\ t.failures > u.failures => u.fallbackReady /\ u.h3InFlight = 0
  BY ResolveFacts
<1> HIDE DEF t
<1>2. Changes(c, s, t, a, w, 0, 0, u.fallbackReady)
  BY <1>1 DEF Changes, Closed
<1> QED
  BY <1>2 DEF t

LEMMA MarkFacts ==
    ASSUME h3Epoch \in Nat, NEW c \in Nat, NEW s \in State(c), Window(s), s.epoch # 0, s.h3InFlight > 0
    PROVE  Changes(c, s, MarkFailurePending(s, s.epoch), -1, 1, 0, 0, s.fallbackReady)
<1> DEFINE i == s.h3InFlight - 1
           j == s.fallbackPending + 1
           k == IF s.probing /\ s.cooldownCause # "none" THEN s.cooldownCause
                ELSE IF s.pendingCause = "none" THEN "transport" ELSE s.pendingCause
           u == [s EXCEPT !.h3InFlight = i, !.fallbackPending = j, !.pending = TRUE,
                          !.probing = FALSE, !.pendingCause = k]
<1>1. i \in Nat /\ j \in Nat /\ k \in Cause /\ i = s.h3InFlight + (-1) /\ s.failures \in Nat
      /\ s.h3InFlight \in Nat
  BY DEF State, Cause
<1>2. MarkFailurePending(s, s.epoch) = Resolve(u)
  BY <1>1 DEF MarkFailurePending
<1>3. s.failures > 0 => i = 0
  BY <1>1 DEF Window, Admission
<1>4. j = s.fallbackPending + 1
  OBVIOUS
<1> HIDE DEF i, j, k
<1>5. u \in State(c)
  BY <1>1 DEF State
<1>6. /\ u.epoch = s.epoch /\ u.failures = s.failures /\ u.canaryToken = s.canaryToken
      /\ u.h3InFlight = i /\ u.fallbackPending = j /\ u.fallbackReady = s.fallbackReady
      /\ ~u.probing
  BY DEF State
<1> HIDE DEF u
<1>7. Admission(u)
  BY <1>1, <1>3, <1>6 DEF Admission
<1>8. Changes(c, s, Resolve(u), -1, 1, 0, 0, u.fallbackReady)
  BY <1>1, <1>4, <1>5, <1>6, <1>7, ResolveChanges
<1> QED
  BY <1>2, <1>6, <1>8

LEMMA AbandonFacts ==
    ASSUME h3Epoch \in Nat, NEW c \in Nat, NEW s \in State(c), Window(s), s.epoch # 0, s.h3InFlight > 0
    PROVE  Changes(c, s, AbandonAttempt(s, s.epoch), -1, 0, 0, 0, s.fallbackReady)
<1>0. s.h3InFlight \in Nat /\ s.failures \in Nat /\ s.fallbackPending \in Nat
  BY DEF State
<1>1. CASE s.probing
  <2>1. AbandonAttempt(s, s.epoch) = CloseWindow(s)
    BY <1>0, <1>1 DEF AbandonAttempt
  <2> DEFINE t == CloseWindow(s)
  <2>2. t \in State(c) /\ Closed(t) /\ ~t.pending /\ t.failures = s.failures
        /\ t.canaryToken = s.canaryToken
    BY CloseFacts
  <2>3. Window(t)
    BY <2>2, ClosedWindow
  <2> HIDE DEF t
  <2>4. Changes(c, s, t, -1, 0, 0, 0, s.fallbackReady)
    BY <1>0, <2>2, <2>3 DEF Changes, Closed
  <2> QED
    BY <2>1, <2>4 DEF t
<1>2. CASE ~s.probing
  <2> DEFINE i == s.h3InFlight - 1
             u == [s EXCEPT !.h3InFlight = i]
  <2>1. AbandonAttempt(s, s.epoch) = Resolve(u)
    BY <1>0, <1>2 DEF AbandonAttempt
  <2>2. i \in Nat /\ i = s.h3InFlight + (-1) /\ s.fallbackPending = s.fallbackPending + 0
    BY <1>0
  <2>3. s.failures = 0
    BY <1>0, <1>2 DEF Window, Admission
  <2> HIDE DEF i
  <2>4. u \in State(c)
    BY <2>2 DEF State
  <2>5. /\ u.epoch = s.epoch /\ u.failures = s.failures /\ u.canaryToken = s.canaryToken
        /\ u.h3InFlight = i /\ u.fallbackPending = s.fallbackPending
        /\ u.fallbackReady = s.fallbackReady /\ u.probing = s.probing
    BY DEF State
  <2> HIDE DEF u
  <2>6. Admission(u)
    BY <1>2, <2>3, <2>5 DEF Admission
  <2>7. Changes(c, s, Resolve(u), -1, 0, 0, 0, u.fallbackReady)
    BY <2>2, <2>4, <2>5, <2>6, ResolveChanges
  <2> QED
    BY <2>1, <2>5, <2>7
<1> QED
  BY <1>1, <1>2 DEF State

LEMMA ObserveFacts ==
    ASSUME h3Epoch \in Nat, NEW c \in Nat, NEW s \in State(c), Window(s), s.epoch # 0,
           s.fallbackPending > 0, NEW live \in BOOLEAN, NEW reachable \in BOOLEAN
    PROVE  Changes(c, s, ObserveFallback(s, s.epoch, live, reachable), 0, -1, 0, 0,
                   s.fallbackReady \/ (live /\ reachable))
<1> DEFINE j == s.fallbackPending - 1
           b == s.fallbackReady \/ (live /\ reachable)
           u == [s EXCEPT !.fallbackPending = j, !.fallbackReady = b]
<1>0. s.h3InFlight \in Nat /\ s.failures \in Nat /\ s.fallbackPending \in Nat
      /\ s.fallbackReady \in BOOLEAN
  BY DEF State
<1>1. ObserveFallback(s, s.epoch, live, reachable) = Resolve(u)
  BY <1>0 DEF ObserveFallback
<1>2. j \in Nat /\ j = s.fallbackPending + (-1) /\ s.h3InFlight = s.h3InFlight + 0 /\ b \in BOOLEAN
  BY <1>0
<1> SUFFICES Changes(c, s, Resolve(u), 0, -1, 0, 0, b)
  BY <1>1
<1> HIDE DEF j, b
<1>3. u \in State(c)
  BY <1>2 DEF State
<1>4. /\ u.epoch = s.epoch /\ u.failures = s.failures /\ u.canaryToken = s.canaryToken
      /\ u.h3InFlight = s.h3InFlight /\ u.fallbackPending = j
      /\ u.fallbackReady = b /\ u.probing = s.probing
  BY DEF State
<1> HIDE DEF u
<1>5. Admission(u)
  BY <1>4 DEF Window, Admission
<1>6. Changes(c, s, Resolve(u), 0, -1, 0, 0, u.fallbackReady)
  BY <1>2, <1>3, <1>4, <1>5, ResolveChanges
<1> QED
  BY <1>4, <1>6

LEMMA NoChange ==
    ASSUME NEW c \in Nat, NEW s \in State(c), Window(s)
    PROVE  Changes(c, s, s, 0, 0, 0, 0, s.fallbackReady)
<1>1. s.h3InFlight \in Nat /\ s.fallbackPending \in Nat /\ s.failures \in Nat
  BY DEF State
<1> QED
  BY <1>1 DEF Changes

LEMMA ResetChanges ==
    ASSUME h3Epoch \in Nat, NEW c \in Nat, NEW s \in State(c), NEW all \in BOOLEAN
    PROVE  Changes(c, s, Reset(s, all), -1, 0, 0, 0, s.fallbackReady)
<1> DEFINE t == Reset(s, all)
<1>1. t \in State(c) /\ Closed(t) /\ ~t.pending /\ t.failures = 0
      /\ t.canaryToken \in {0, s.canaryToken} /\ s.failures \in Nat
  BY ResetFacts DEF State
<1>2. Window(t)
  BY <1>1, ClosedWindow
<1> HIDE DEF t
<1>3. Changes(c, s, t, -1, 0, 0, 0, s.fallbackReady)
  BY <1>1, <1>2 DEF Changes, Closed
<1> QED
  BY <1>3 DEF t

\* A request is admitted to HTTP/3, joins the window, or is turned away.
Admitted(c, s, x) ==
    /\ x.allowed /\ x.managed \in BOOLEAN /\ x.token = x.state.epoch /\ x.token # 0
    /\ Changes(c, s, x.state, 1, 0, 1, 0, s.fallbackReady)
Joins(c, s, x) ==
    /\ ~x.allowed /\ x.token = x.state.epoch /\ x.token # 0
    /\ Changes(c, s, x.state, 0, 1, 0, 1, s.fallbackReady)
TurnedAway(c, s, x) == ~x.allowed /\ x.token = 0 /\ x.state = s

LEMMA AnswerFacts ==
    ASSUME NEW s, NEW m \in BOOLEAN, NEW a \in BOOLEAN
    PROVE  /\ Answer(s, m, a).state = s /\ Answer(s, m, a).token = s.epoch
           /\ Answer(s, m, a).managed = m /\ Answer(s, m, a).allowed = a
BY DEF Answer

LEMMA AwayFacts ==
    ASSUME NEW c, NEW s
    PROVE  TurnedAway(c, s, [Answer(s, FALSE, FALSE) EXCEPT !.token = 0])
BY DEF TurnedAway, Answer

LEMMA AdmitFacts ==
    ASSUME NEW c, NEW s, NEW t, NEW m \in BOOLEAN, t.epoch # 0,
           Changes(c, s, t, 1, 0, 1, 0, s.fallbackReady)
    PROVE  Admitted(c, s, Answer(t, m, TRUE))
<1>1. /\ Answer(t, m, TRUE).state = t /\ Answer(t, m, TRUE).token = t.epoch
      /\ Answer(t, m, TRUE).managed = m /\ Answer(t, m, TRUE).allowed = TRUE
  BY AnswerFacts
<1> QED
  BY <1>1 DEF Admitted

LEMMA JoinFacts ==
    ASSUME h3Epoch \in Nat, NEW c \in Nat, NEW s \in State(c), Window(s), s.epoch # 0
    PROVE  Joins(c, s, Join(s))
<1> DEFINE j == s.fallbackPending + 1
           t == [s EXCEPT !.fallbackPending = j]
<1>0. s.h3InFlight \in Nat /\ s.failures \in Nat /\ s.fallbackPending \in Nat
  BY DEF State
<1>1. Join(s) = Answer(t, FALSE, FALSE) /\ j \in Nat /\ j > 0 /\ j = s.fallbackPending + 1
  BY <1>0 DEF Join
<1> HIDE DEF j
<1>2. t \in State(c)
  BY <1>1 DEF State
<1>3. /\ t.epoch = s.epoch /\ t.failures = s.failures /\ t.canaryToken = s.canaryToken
      /\ t.h3InFlight = s.h3InFlight /\ t.fallbackPending = j
      /\ t.fallbackReady = s.fallbackReady /\ t.probing = s.probing /\ t.pending = s.pending
      /\ t.pendingCause = s.pendingCause
  BY DEF State
<1> HIDE DEF t
<1>4. Window(t)
  BY <1>1, <1>3 DEF Window, Admission, Attended
<1>5. Changes(c, s, t, 0, 1, 0, 1, s.fallbackReady)
  BY <1>0, <1>1, <1>2, <1>3, <1>4 DEF Changes
<1>6. Join(s).state = t /\ Join(s).token = t.epoch /\ ~Join(s).allowed
  <2>1. /\ Answer(t, FALSE, FALSE).state = t /\ Answer(t, FALSE, FALSE).token = t.epoch
        /\ Answer(t, FALSE, FALSE).allowed = FALSE
    BY AnswerFacts
  <2> QED
    BY <1>1, <2>1
<1> QED
  BY <1>3, <1>5, <1>6 DEF Joins

LEMMA BeginFacts ==
    ASSUME h3Epoch \in Nat, NEW c \in Nat, NEW s \in State(c), Window(s), s.epoch <= h3Epoch
    PROVE  LET x == BeginHTTP3Attempt(s) IN
           Admitted(c, s, x) \/ Joins(c, s, x) \/ TurnedAway(c, s, x)
<1>0. s.h3InFlight \in Nat /\ s.failures \in Nat /\ s.fallbackPending \in Nat /\ s.epoch \in Nat
      /\ s.canaryToken \in 0..c /\ s.retryIn \in Nat /\ s.fallbackReady \in BOOLEAN
  BY EndpointConstants DEF State
<1>1. CASE s.epoch = 0
  <2> DEFINE k == h3Epoch + 1
             t == [NoState EXCEPT !.epoch = k, !.h3InFlight = 1]
  <2>1. BeginHTTP3Attempt(s) = Answer(t, FALSE, TRUE)
    BY <1>1 DEF BeginHTTP3Attempt
  <2>2. k \in Nat /\ k # 0 /\ k = h3Epoch + 1 /\ s = NoState
    BY <1>1 DEF Window, Admission
  <2> HIDE DEF k
  <2>3. t \in State(c) /\ t.epoch = k /\ t.h3InFlight = 1 /\ t.fallbackPending = 0
        /\ t.failures = 0 /\ ~t.probing /\ ~t.pending /\ ~t.fallbackReady /\ t.canaryToken = 0
    <3>1. NoState \in State(c) /\ NoState.failures = 0 /\ ~NoState.probing /\ ~NoState.pending
          /\ NoState.fallbackPending = 0 /\ ~NoState.fallbackReady /\ NoState.canaryToken = 0
      BY NoStateFacts
    <3>2. t \in State(c)
      BY <2>2, <3>1 DEF State
    <3> QED
      BY <3>1, <3>2 DEF State
  <2> HIDE DEF t
  <2>4. Window(t)
    BY <2>2, <2>3 DEF Window, Admission, Attended
  <2>5. Changes(c, s, t, 1, 0, 1, 0, s.fallbackReady)
    BY <1>0, <2>2, <2>3, <2>4 DEF Changes
  <2> QED
    BY <2>1, <2>2, <2>3, <2>5, AdmitFacts
<1>2. CASE s.epoch # 0 /\ s.pending
  BY <1>2, JoinFacts DEF BeginHTTP3Attempt
<1>3. CASE /\ s.epoch # 0 /\ ~s.pending
           /\ s.failures = 0 /\ s.active /\ s.strikes >= 2 /\ s.degRetryIn = 0
  <2> DEFINE d == StartDegradationFallback(s)
  <2>1. BeginHTTP3Attempt(s) = Join(d)
    BY <1>3 DEF BeginHTTP3Attempt
  <2>2. d \in State(c) /\ Closed(d) /\ d.pending /\ d.pendingCause = "degradation"
        /\ d.failures = s.failures /\ d.canaryToken = s.canaryToken
    BY StartFacts
  <2> HIDE DEF d
  <2>3. Window(d) /\ d.epoch # 0 /\ d.epoch = h3Epoch + 1
    BY <2>2, ClosedWindow DEF Closed
  <2>4. Joins(c, d, Join(d))
    BY <2>2, <2>3, JoinFacts
  <2> DEFINE t == Join(d).state
  <2>5. Changes(c, d, t, 0, 1, 0, 1, d.fallbackReady) /\ ~d.fallbackReady
    BY <2>2, <2>4 DEF Joins, Closed
  <2> HIDE DEF t
  <2>6. t \in State(c) /\ t.failures \in Nat
    BY <2>5 DEF Changes, State
  <2>7. Changes(c, s, t, 0, 1, 0, 1, s.fallbackReady)
    BY <1>0, <2>2, <2>3, <2>5, <2>6 DEF Changes, Closed
  <2> QED
    BY <2>1, <2>4, <2>7 DEF Joins, t
<1>4. CASE /\ s.epoch # 0 /\ ~s.pending /\ s.failures = 0
           /\ ~(s.failures = 0 /\ s.active /\ s.strikes >= 2 /\ s.degRetryIn = 0)
  <2> DEFINE i == s.h3InFlight + 1
             t == [s EXCEPT !.h3InFlight = i]
  <2>1. BeginHTTP3Attempt(s) = Answer(t, FALSE, TRUE)
    BY <1>4 DEF BeginHTTP3Attempt
  <2>2. i \in Nat /\ i > 0 /\ i = s.h3InFlight + 1
    BY <1>0
  <2> HIDE DEF i
  <2>3. t \in State(c)
    BY <2>2 DEF State
  <2>4. /\ t.epoch = s.epoch /\ t.failures = s.failures /\ t.canaryToken = s.canaryToken
        /\ t.h3InFlight = i /\ t.fallbackPending = s.fallbackPending
        /\ t.fallbackReady = s.fallbackReady /\ t.probing = s.probing /\ t.pending = s.pending
    BY DEF State
  <2> HIDE DEF t
  <2>5. Window(t)
    BY <1>4, <2>2, <2>4 DEF Window, Admission, Attended
  <2>6. Changes(c, s, t, 1, 0, 1, 0, s.fallbackReady)
    BY <1>0, <2>2, <2>3, <2>4, <2>5 DEF Changes
  <2> QED
    BY <1>4, <2>1, <2>4, <2>6, AdmitFacts
<1>5. CASE s.epoch # 0 /\ ~s.pending /\ s.failures # 0 /\ s.probing
  BY <1>5, JoinFacts DEF BeginHTTP3Attempt
<1>6. CASE s.epoch # 0 /\ ~s.pending /\ s.failures # 0 /\ ~s.probing /\ s.retryIn > 0
  <2>1. BeginHTTP3Attempt(s) = [Answer(s, FALSE, FALSE) EXCEPT !.token = 0]
    BY <1>6 DEF BeginHTTP3Attempt
  <2> QED
    BY <2>1, AwayFacts
<1>7. CASE s.epoch # 0 /\ ~s.pending /\ s.failures # 0 /\ ~s.probing /\ ~(s.retryIn > 0)
  <2> DEFINE d == CloseWindow(s)
             t == [d EXCEPT !.probing = TRUE, !.h3InFlight = 1]
  <2>1. BeginHTTP3Attempt(s) = Answer(t, TRUE, TRUE)
    BY <1>7 DEF BeginHTTP3Attempt
  <2>2. d \in State(c) /\ Closed(d) /\ ~d.pending /\ d.failures = s.failures
        /\ d.canaryToken = s.canaryToken
    BY CloseFacts
  <2> HIDE DEF d
  <2>3. t \in State(c)
    BY <2>2 DEF State
  <2>4. /\ t.epoch = d.epoch /\ t.failures = d.failures /\ t.canaryToken = d.canaryToken
        /\ t.h3InFlight = 1 /\ t.fallbackPending = d.fallbackPending
        /\ t.fallbackReady = d.fallbackReady /\ t.probing /\ t.pending = d.pending
    BY <2>2 DEF State
  <2> HIDE DEF t
  <2>5. Window(t)
    BY <1>0, <1>7, <2>2, <2>4 DEF Window, Admission, Attended, Closed
  <2>6. Changes(c, s, t, 1, 0, 1, 0, s.fallbackReady)
    BY <1>0, <2>2, <2>3, <2>4, <2>5 DEF Changes, Closed
  <2>7. t.epoch # 0
    BY <2>2, <2>4 DEF Closed
  <2> QED
    BY <2>1, <2>6, <2>7, AdmitFacts
<1> QED
  BY <1>0, <1>1, <1>2, <1>3, <1>4, <1>5, <1>6, <1>7

LEMMA JoinPendingFacts ==
    ASSUME h3Epoch \in Nat, NEW c \in Nat, NEW s \in State(c), Window(s)
    PROVE  LET x == JoinPendingFallback(s) IN Joins(c, s, x) \/ TurnedAway(c, s, x)
<1>1. CASE s.epoch # 0 /\ (s.pending \/ s.probing)
  BY <1>1, JoinFacts DEF JoinPendingFallback
<1>2. CASE ~(s.epoch # 0 /\ (s.pending \/ s.probing))
  <2>1. JoinPendingFallback(s) = [Answer(s, FALSE, FALSE) EXCEPT !.token = 0]
    BY <1>2 DEF JoinPendingFallback
  <2> QED
    BY <2>1, AwayFacts
<1> QED
  BY <1>1, <1>2

-----------------------------------------------------------------------------
(* Steps of requests. *)

\* manager.h3Epoch after SetState(t)
EpochAfter(t) == IF t.epoch > h3Epoch THEN t.epoch ELSE h3Epoch

LEMMA EpochsGrow ==
    ASSUME h3Epoch \in Nat, NEW t, t.epoch \in 0..(h3Epoch + 1)
    PROVE  /\ EpochAfter(t) \in Nat /\ EpochAfter(t) >= h3Epoch /\ t.epoch \in 0..EpochAfter(t)
BY DEF EpochAfter

LEMMA ReqMono ==
    ASSUME NEW n \in Nat, NEW m \in Nat, n <= m
    PROVE  Req(n) \subseteq Req(m)
<1>1. 0..n \subseteq 0..m
  OBVIOUS
<1> QED
  BY <1>1 DEF Req

\* What CooldownEarned says of a step from s to t.
Earned(s, t, rq, ev) ==
    t.failures > s.failures => s.epoch \in ev /\ \A x \in Request : rq[x].token # s.epoch
EarnedStep == Earned(h3, h3', req', evidence')

\* A request moves on to p while an operation turns the endpoint's record into t;
\* the counters change by what p differs from the request before.
LEMMA RequestMoves ==
    ASSUME IInv, NEW r \in Request, NEW p, NEW t, NEW ev, NEW ready \in BOOLEAN,
           NEW a \in Int, NEW w \in Int,
           Changes(canary, h3, t, a, w, One(Dials(p, h3Epoch + 1)), One(Waits(p, h3Epoch + 1)), ready),
           h3.epoch # 0 => a = One(Dials(p, h3.epoch)) - One(Dials(req[r], h3.epoch)),
           h3.epoch # 0 /\ t.epoch = h3.epoch =>
               w = One(Waits(p, h3.epoch)) - One(Waits(req[r], h3.epoch)),
           p \in Req(EpochAfter(t)), Place(r, p),
           evidence \subseteq ev, ev \subseteq 0..h3Epoch, ready => h3.epoch \in ev /\ h3.epoch # 0
    PROVE  /\ Inv(EpochAfter(t), canary, degraded, t, [req EXCEPT ![r] = p], probe, ev)
           /\ Earned(h3, t, [req EXCEPT ![r] = p], ev)
<1> DEFINE n == EpochAfter(t)
           rq == [req EXCEPT ![r] = p]
<1>1. /\ h3Epoch \in Nat /\ canary \in Nat /\ degraded \in 0..MaxDegradations
      /\ StateOK(h3Epoch, canary, h3) /\ ReqOK(h3Epoch, req) /\ Exact(h3, req)
      /\ CanaryOK(canary, h3, probe) /\ EvidenceOK(h3Epoch, h3, evidence)
  BY DEF IInv, Inv
<1>2. /\ h3 \in State(canary) /\ h3.epoch \in 0..h3Epoch
      /\ h3.h3InFlight \in Nat /\ h3.fallbackPending \in Nat
  BY <1>1 DEF StateOK, State
<1>3. /\ t \in State(canary) /\ Window(t) /\ t.canaryToken \in {0, h3.canaryToken}
      /\ t.epoch \in 0..(h3Epoch + 1)
  BY <1>1, <1>2 DEF Changes
<1>4. n \in Nat /\ n >= h3Epoch /\ t.epoch \in 0..n
  BY <1>1, <1>3, EpochsGrow
<1>5. StateOK(n, canary, t)
  BY <1>3, <1>4 DEF StateOK
<1>6. ReqOK(n, rq)
  <2>1. Req(h3Epoch) \subseteq Req(n)
    BY <1>1, <1>4, ReqMono
  <2>2. req \in [Request -> Req(n)] /\ \A x \in Request : Place(x, req[x])
    BY <1>1, <2>1 DEF ReqOK
  <2>3. p \in Req(n)
    OBVIOUS
  <2> HIDE DEF n
  <2> QED
    BY <2>2, <2>3 DEF ReqOK
<1>7. Follows(h3Epoch, h3, t, req[r], p)
  <2>1. One(Dials(p, h3.epoch)) \in Int /\ One(Dials(req[r], h3.epoch)) \in Int
        /\ One(Waits(p, h3.epoch)) \in Int /\ One(Waits(req[r], h3.epoch)) \in Int
    BY DEF One
  <2>2. CASE t.epoch = h3.epoch /\ t.h3InFlight = h3.h3InFlight + a
             /\ t.fallbackPending = h3.fallbackPending + w
    BY <1>2, <2>1, <2>2 DEF Follows
  <2>3. CASE t.epoch = h3Epoch + 1 /\ t.h3InFlight = One(Dials(p, h3Epoch + 1))
             /\ t.fallbackPending = One(Waits(p, h3Epoch + 1))
    BY <2>3 DEF Follows
  <2> QED
    BY <2>2, <2>3 DEF Changes
<1>8. Exact(t, rq)
  BY <1>1, <1>7, ExactFollows DEF ReqOK
<1>9. CanaryOK(canary, t, probe)
  BY <1>1, <1>3 DEF CanaryOK
<1>10. EvidenceOK(n, t, ev)
  <2>1. ev \subseteq 0..n
    BY <1>1, <1>4
  <2>2. t.fallbackReady => t.epoch \in ev
    BY DEF Changes
  <2> QED
    BY <2>1, <2>2 DEF EvidenceOK
<1> HIDE DEF n, rq
<1>11. Inv(n, canary, degraded, t, rq, probe, ev)
  BY <1>1, <1>4, <1>5, <1>6, <1>8, <1>9, <1>10 DEF Inv
<1>12. Earned(h3, t, rq, ev)
  <2> SUFFICES ASSUME t.failures > h3.failures
               PROVE  h3.epoch \in ev /\ \A x \in Request : rq[x].token # h3.epoch
    BY DEF Earned
  <2>1. ready /\ h3.h3InFlight + a = 0 /\ h3.epoch \in ev /\ h3.epoch # 0
    BY DEF Changes
  <2> DEFINE e == h3.epoch
             H == AttemptsIn(req, e)
             K == AttemptsIn(rq, e)
  <2>2. OneMoves(H, K, Dials(req[r], e), Dials(p, e)) /\ Cardinality(H) \in Nat
    <3>1. req \in [Request -> Req(h3Epoch)]
      BY <1>1 DEF ReqOK
    <3>2. OneMoves(H, AttemptsIn([req EXCEPT ![r] = p], e), Dials(req[r], e), Dials(p, e))
      BY <3>1, RequestCounts
    <3>3. Cardinality(H) \in Nat
      BY RequestsFinite DEF AttemptsIn
    <3> QED
      BY <3>2, <3>3 DEF rq
  <2>3. Dials(req[r], e) \in BOOLEAN /\ Dials(p, e) \in BOOLEAN
    BY DEF Dials
  <2>4. Cardinality(K) = Cardinality(H) - One(Dials(req[r], e)) + One(Dials(p, e))
    BY <2>2, <2>3, CountMoves
  <2>5. Cardinality(K) = 0
    BY <1>1, <2>1, <2>2, <2>4 DEF Exact, One
  <2>6. K = {}
    BY <2>5, RequestsFinite, FS_EmptySet DEF AttemptsIn
  <2>7. \A x \in Request : rq[x].token # 0 => rq[x].pc = "dial"
    BY <1>6 DEF ReqOK, Place
  <2> QED
    BY <2>1, <2>6, <2>7 DEF AttemptsIn
<1> QED
  BY <1>11, <1>12 DEF n, rq

LEMMA ReadyEpoch ==
    ASSUME IInv
    PROVE  h3.fallbackReady => h3.epoch # 0
<1>1. ~NoState.fallbackReady
  BY DEF NoState
<1>2. h3.epoch = 0 => h3 = NoState
  BY DEF IInv, Inv, StateOK, Window, Admission
<1> QED
  BY <1>1, <1>2

\* Its special case: the endpoint is left alone, and so are both counts.
LEMMA RequestAlone ==
    ASSUME IInv, NEW r \in Request, NEW p, p \in Req(h3Epoch), Place(r, p),
           \A e \in 1..h3Epoch : /\ Dials(p, e) <=> Dials(req[r], e)
                                 /\ Waits(p, e) <=> Waits(req[r], e)
    PROVE  Inv(h3Epoch, canary, degraded, h3, [req EXCEPT ![r] = p], probe, evidence)
<1>1. /\ h3Epoch \in Nat /\ canary \in Nat /\ h3 \in State(canary) /\ Window(h3)
      /\ h3.epoch \in 0..h3Epoch /\ h3.fallbackReady \in BOOLEAN
      /\ evidence \subseteq 0..h3Epoch /\ (h3.fallbackReady => h3.epoch \in evidence)
      /\ h3.fallbackReady => h3.epoch # 0
  BY ReadyEpoch DEF IInv, Inv, StateOK, State, EvidenceOK
<1>2. Changes(canary, h3, h3, 0, 0, 0, 0, h3.fallbackReady)
  BY <1>1, NoChange
<1>3. EpochAfter(h3) = h3Epoch
  BY <1>1 DEF EpochAfter
<1>4. ~Dials(p, h3Epoch + 1) /\ ~Waits(p, h3Epoch + 1)
  <2>1. p.token \in 0..h3Epoch /\ p.pending \in 0..h3Epoch /\ p.joined \in 0..h3Epoch
    BY DEF Req
  <2> QED
    BY <1>1, <2>1 DEF Dials, Waits
<1>5. One(Dials(p, h3Epoch + 1)) = 0 /\ One(Waits(p, h3Epoch + 1)) = 0
  BY <1>4 DEF One
<1>6. h3.epoch # 0 => /\ 0 = One(Dials(p, h3.epoch)) - One(Dials(req[r], h3.epoch))
                      /\ 0 = One(Waits(p, h3.epoch)) - One(Waits(req[r], h3.epoch))
  <2> SUFFICES ASSUME h3.epoch # 0
               PROVE  /\ One(Dials(p, h3.epoch)) = One(Dials(req[r], h3.epoch))
                      /\ One(Waits(p, h3.epoch)) = One(Waits(req[r], h3.epoch))
    BY DEF One
  <2>1. h3.epoch \in 1..h3Epoch
    BY <1>1
  <2> QED
    BY <2>1 DEF One
<1>7. Changes(canary, h3, h3, 0, 0, One(Dials(p, h3Epoch + 1)), One(Waits(p, h3Epoch + 1)),
              h3.fallbackReady)
  BY <1>2, <1>5
<1>8. Inv(EpochAfter(h3), canary, degraded, h3, [req EXCEPT ![r] = p], probe, evidence)
  <2> DEFINE z == 0
             ready == h3.fallbackReady
  <2>1. /\ z \in Int /\ ready \in BOOLEAN
        /\ Changes(canary, h3, h3, z, z, One(Dials(p, h3Epoch + 1)), One(Waits(p, h3Epoch + 1)), ready)
        /\ h3.epoch # 0 => /\ z = One(Dials(p, h3.epoch)) - One(Dials(req[r], h3.epoch))
                           /\ z = One(Waits(p, h3.epoch)) - One(Waits(req[r], h3.epoch))
        /\ p \in Req(EpochAfter(h3))
        /\ evidence \subseteq evidence /\ evidence \subseteq 0..h3Epoch
        /\ ready => h3.epoch \in evidence /\ h3.epoch # 0
    BY <1>1, <1>3, <1>6, <1>7
  <2> HIDE DEF z, ready
  <2> QED
    BY <2>1, RequestMoves
<1> QED
  BY <1>3, <1>8

Joined == {<<>>} \cup [1..1 -> Failure] \cup [1..2 -> Failure]

LEMMA AppendFailure ==
    ASSUME NEW k \in {0, 1}, NEW fs \in Failures(k), NEW f \in Failure
    PROVE  Append(fs, f) \in Failures(k + 1) /\ Append(fs, f) \in Joined
<1>1. CASE k = 0
  <2>1. fs = <<>>
    BY <1>1 DEF Failures
  <2>2. Append(fs, f) = <<f>>
    BY <2>1
  <2>3. <<f>> \in [1..1 -> Failure]
    OBVIOUS
  <2> QED
    BY <1>1, <2>2, <2>3 DEF Failures, Joined
<1>2. CASE k = 1
  <2>1. fs \in [1..1 -> Failure]
    BY <1>2 DEF Failures
  <2>2. fs \in Seq(Failure)
    BY <2>1, SeqDef
  <2>3. Len(fs) \in Nat /\ DOMAIN fs = 1..Len(fs) /\ DOMAIN fs = 1..1
    BY <2>1, <2>2, LenProperties
  <2>4. \A n \in Nat : 1..n = 1..1 => n = 1
    <3> SUFFICES ASSUME NEW n \in Nat, 1..n = 1..1
                 PROVE  n = 1
      OBVIOUS
    <3>1. 1 \in 1..n
      OBVIOUS
    <3>2. n \in 1..1
      BY <3>1
    <3> QED
      BY <3>2
  <2>5. Append(fs, f) \in Seq(Failure) /\ Len(Append(fs, f)) = 2
    <3>1. Len(fs) = 1
      BY <2>3, <2>4
    <3>2. Append(fs, f) \in Seq(Failure) /\ Len(Append(fs, f)) = Len(fs) + 1
      BY <2>2, AppendProperties
    <3> QED
      BY <3>1, <3>2
  <2>6. Append(fs, f) \in [1..2 -> Failure]
    BY <2>5, LenProperties
  <2> QED
    BY <1>2, <2>6 DEF Failures, Joined
<1> QED
  BY <1>1, <1>2

LEMMA ReqFields ==
    ASSUME NEW n \in Nat, NEW q \in Req(n)
    PROVE  /\ q.pc \in {"loop", "dial", "return", "done"} /\ q.index \in 1..2
           /\ q.ctx \in {"live", "canceled", "transport"} /\ q.token \in 0..n
           /\ q.managed \in BOOLEAN /\ q.pending \in 0..n /\ q.joined \in 0..n
           /\ q.reachable \in BOOLEAN /\ q.failures \in Joined /\ q.tunnel \in BOOLEAN
BY DEF Req, Joined

LEMMA RequestFacts ==
    ASSUME IInv, NEW r \in Request
    PROVE  /\ h3Epoch \in Nat /\ canary \in Nat
           /\ req \in [Request -> Req(h3Epoch)]
           /\ req[r] \in Req(h3Epoch) /\ Place(r, req[r])
           /\ h3 \in State(canary) /\ Window(h3) /\ h3.epoch \in 0..h3Epoch
           /\ h3.fallbackReady \in BOOLEAN
           /\ evidence \subseteq 0..h3Epoch
           /\ h3.fallbackReady => h3.epoch \in evidence /\ h3.epoch # 0
BY ReadyEpoch DEF IInv, Inv, StateOK, State, EvidenceOK, ReqOK

\* A request of the current epoch is counted.
LEMMA DialCounted ==
    ASSUME IInv, NEW r \in Request, h3.epoch # 0, Dials(req[r], h3.epoch)
    PROVE  h3.h3InFlight > 0
<1>1. h3.h3InFlight = Cardinality(AttemptsIn(req, h3.epoch))
  BY DEF IInv, Inv, Exact
<1>2. r \in AttemptsIn(req, h3.epoch) /\ AttemptsIn(req, h3.epoch) \in SUBSET Request
  BY DEF AttemptsIn, Dials
<1>3. IsFiniteSet(AttemptsIn(req, h3.epoch))
  BY <1>2, RequestsFinite
<1>4. Cardinality(AttemptsIn(req, h3.epoch)) # 0 /\ Cardinality(AttemptsIn(req, h3.epoch)) \in Nat
  BY <1>2, <1>3, FS_EmptySet, FS_CardinalityType
<1> QED
  BY <1>1, <1>4

LEMMA WaitCounted ==
    ASSUME IInv, NEW r \in Request, h3.epoch # 0, Waits(req[r], h3.epoch)
    PROVE  h3.fallbackPending > 0
<1>1. h3.fallbackPending = Cardinality(WaitingIn(req, h3.epoch))
  BY DEF IInv, Inv, Exact
<1>2. r \in WaitingIn(req, h3.epoch) /\ WaitingIn(req, h3.epoch) \in SUBSET Request
  BY DEF WaitingIn, Waits
<1>3. IsFiniteSet(WaitingIn(req, h3.epoch))
  BY <1>2, RequestsFinite
<1>4. Cardinality(WaitingIn(req, h3.epoch)) # 0 /\ Cardinality(WaitingIn(req, h3.epoch)) \in Nat
  BY <1>2, <1>3, FS_EmptySet, FS_CardinalityType
<1> QED
  BY <1>1, <1>4

\* How the actions below are related to the invariant's parameters.
LEMMA StateSet ==
    ASSUME NEW t, SetState(t), NEW rq, req' = rq, NEW ev, evidence' = ev,
           UNCHANGED <<canary, probe, degraded>>,
           Inv(EpochAfter(t), canary, degraded, t, rq, probe, ev), Earned(h3, t, rq, ev)
    PROVE  IInv' /\ EarnedStep
<1>1. h3' = t /\ h3Epoch' = EpochAfter(t) /\ canary' = canary /\ probe' = probe
      /\ degraded' = degraded
  BY DEF SetState, EpochAfter
<1> QED
  BY <1>1 DEF IInv, EarnedStep

LEMMA StateKept ==
    ASSUME IInv, NEW rq, req' = rq, UNCHANGED <<h3, h3Epoch, canary, probe, degraded, evidence>>,
           Inv(h3Epoch, canary, degraded, h3, rq, probe, evidence)
    PROVE  IInv' /\ EarnedStep
<1>1. h3.failures \in Nat
  BY DEF IInv, Inv, StateOK, State
<1> QED
  BY <1>1 DEF IInv, EarnedStep, Earned

LEMMA CallerGoneStep ==
    ASSUME IInv, NEW r \in Request, CallerGone(r)
    PROVE  IInv' /\ EarnedStep
<1> DEFINE q == req[r]
<1>1. /\ h3Epoch \in Nat /\ req \in [Request -> Req(h3Epoch)] /\ q \in Req(h3Epoch) /\ Place(r, q)
  BY RequestFacts
<1>2. PICK c \in {"canceled", "transport"} : req' = [req EXCEPT ![r].ctx = c]
  BY DEF CallerGone
<1> DEFINE p == [q EXCEPT !.ctx = c]
<1>3. req' = [req EXCEPT ![r] = p]
  BY <1>1, <1>2
<1> HIDE DEF q
<1>4. p \in Req(h3Epoch)
  BY <1>1 DEF Req
<1>5. p.pc = q.pc /\ p.index = q.index /\ p.token = q.token /\ p.pending = q.pending
      /\ p.joined = q.joined /\ p.failures = q.failures
  BY <1>1 DEF Req
<1> HIDE DEF p
<1>6. Place(r, p)
  BY <1>1, <1>5 DEF Place
<1>7. \A e \in 1..h3Epoch : (Dials(p, e) <=> Dials(q, e)) /\ (Waits(p, e) <=> Waits(q, e))
  BY <1>5 DEF Dials, Waits
<1>8. Inv(h3Epoch, canary, degraded, h3, [req EXCEPT ![r] = p], probe, evidence)
  BY <1>4, <1>6, <1>7, RequestAlone DEF q
<1> QED
  BY <1>3, <1>8, StateKept DEF CallerGone

LEMMA LoopStopsStep ==
    ASSUME IInv, NEW r \in Request, LoopStops(r)
    PROVE  IInv' /\ EarnedStep
<1> DEFINE q == req[r]
           fs == <<req[r].ctx>>
           p == [q EXCEPT !.pc = "return", !.failures = fs]
<1>1. /\ h3Epoch \in Nat /\ req \in [Request -> Req(h3Epoch)] /\ q \in Req(h3Epoch) /\ Place(r, q)
  BY RequestFacts
<1>2. q.pc = "loop" /\ q.ctx # "live" /\ req' = [req EXCEPT ![r] = p]
  BY <1>1 DEF LoopStops
<1>3. fs \in [1..1 -> Failure]
  <2>1. q.ctx \in Failure
    BY <1>1, <1>2 DEF Req, Failure
  <2> QED
    BY <2>1
<1> HIDE DEF q, fs
<1>4. p \in Req(h3Epoch)
  BY <1>1, <1>3 DEF Req
<1>5. p.pc = "return" /\ p.index = q.index /\ p.token = q.token /\ p.pending = q.pending
      /\ p.joined = q.joined
  BY <1>1 DEF Req
<1>6. q.token = 0
  BY <1>1, <1>2 DEF Place
<1> HIDE DEF p
<1>7. Place(r, p)
  BY <1>1, <1>5, <1>6 DEF Place
<1>8. \A e \in 1..h3Epoch : (Dials(p, e) <=> Dials(q, e)) /\ (Waits(p, e) <=> Waits(q, e))
  BY <1>2, <1>5 DEF Dials, Waits
<1>9. Inv(h3Epoch, canary, degraded, h3, [req EXCEPT ![r] = p], probe, evidence)
  BY <1>4, <1>7, <1>8, RequestAlone DEF q
<1> QED
  BY <1>2, <1>9, StateKept DEF LoopStops

\* The next turn of the loop for a request that has nothing to fall back to.
LEMMA PlainTurn ==
    ASSUME IInv, NEW r \in Request, req[r].pc = "loop", ~UseCooldown(r),
           req' = [req EXCEPT ![r].pc = "dial"],
           UNCHANGED <<h3, h3Epoch, canary, probe, degraded, evidence>>
    PROVE  IInv' /\ EarnedStep
<1> DEFINE q == req[r]
           p == [q EXCEPT !.pc = "dial"]
<1>1. /\ h3Epoch \in Nat /\ req \in [Request -> Req(h3Epoch)] /\ q \in Req(h3Epoch) /\ Place(r, q)
  BY RequestFacts
<1>2. q.pc = "loop" /\ req' = [req EXCEPT ![r] = p]
  BY <1>1
<1>3. ~(q.index = 1 /\ Falls(r))
  BY <1>1, CooldownUsed DEF Req
<1> HIDE DEF q
<1>4. p \in Req(h3Epoch)
  BY <1>1 DEF Req
<1>5. p.pc = "dial" /\ p.index = q.index /\ p.token = q.token /\ p.pending = q.pending
      /\ p.joined = q.joined /\ p.failures = q.failures
  BY <1>1 DEF Req
<1>6. q.token = 0
  BY <1>1, <1>2 DEF Place
<1> HIDE DEF p
<1>7. Place(r, p)
  BY <1>1, <1>2, <1>3, <1>5, <1>6 DEF Place
<1>8. \A e \in 1..h3Epoch : (Dials(p, e) <=> Dials(q, e)) /\ (Waits(p, e) <=> Waits(q, e))
  BY <1>2, <1>5, <1>6 DEF Dials, Waits
<1>9. Inv(h3Epoch, canary, degraded, h3, [req EXCEPT ![r] = p], probe, evidence)
  BY <1>4, <1>7, <1>8, RequestAlone DEF q
<1> QED
  BY <1>2, <1>9, StateKept

\* The request is admitted: its dial is the attempt that is counted.
LEMMA AdmittedTurn ==
    ASSUME IInv, NEW r \in Request, req[r].pc = "loop", UseCooldown(r), NEW x,
           Admitted(canary, h3, x), SetState(x.state),
           req' = [req EXCEPT ![r].pc = "dial", ![r].token = x.token, ![r].managed = x.managed],
           UNCHANGED <<canary, probe, degraded, evidence>>
    PROVE  IInv' /\ EarnedStep
<1> DEFINE q == req[r]
           t == x.state
           m == x.managed
           k == x.token
           n == EpochAfter(t)
           p == [q EXCEPT !.pc = "dial", !.token = k, !.managed = m]
           a == 1
           w == 0
           ready == h3.fallbackReady
<1>1. /\ h3Epoch \in Nat /\ req \in [Request -> Req(h3Epoch)] /\ q \in Req(h3Epoch) /\ Place(r, q)
      /\ h3.epoch \in 0..h3Epoch /\ ready \in BOOLEAN /\ evidence \subseteq 0..h3Epoch
      /\ (ready => h3.epoch \in evidence /\ h3.epoch # 0)
  BY RequestFacts
<1>2. q.pc = "loop" /\ req' = [req EXCEPT ![r] = p]
  BY <1>1
<1>3. q.index = 1 /\ Falls(r)
  BY <1>1, CooldownUsed DEF Req
<1>4. m \in BOOLEAN /\ k = t.epoch /\ k # 0 /\ Changes(canary, h3, t, a, w, 1, 0, ready)
  BY DEF Admitted
<1>5. t.epoch \in {h3.epoch, h3Epoch + 1}
  BY <1>4 DEF Changes
<1>6. n \in Nat /\ n >= h3Epoch /\ t.epoch \in 0..n
  <2>1. t.epoch \in 0..(h3Epoch + 1)
    BY <1>1, <1>5
  <2> QED
    BY <1>1, <2>1, EpochsGrow
<1>7. q \in Req(n)
  BY <1>1, <1>6, ReqMono
<1> SUFFICES /\ Inv(n, canary, degraded, t, [req EXCEPT ![r] = p], probe, evidence)
             /\ Earned(h3, t, [req EXCEPT ![r] = p], evidence)
  BY <1>2, StateSet
<1> HIDE DEF q, t, m, k, n
<1>8. p \in Req(n)
  BY <1>4, <1>6, <1>7 DEF Req
<1>9. p.pc = "dial" /\ p.index = q.index /\ p.token = k /\ p.pending = q.pending
      /\ p.joined = q.joined /\ p.failures = q.failures
  BY <1>1 DEF Req
<1>10. q.token = 0 /\ q.pending = 0 /\ q.joined = 0
  BY <1>1, <1>2, <1>3 DEF Place
<1> HIDE DEF p
<1>11. Place(r, p)
  BY <1>1, <1>2, <1>3, <1>4, <1>9, <1>10 DEF Place
<1>12. /\ h3.epoch # 0 => /\ One(Dials(q, h3.epoch)) = 0 /\ One(Waits(q, h3.epoch)) = 0
                          /\ One(Waits(p, h3.epoch)) = 0
       /\ One(Dials(p, k)) = 1 /\ One(Waits(p, h3Epoch + 1)) = 0
  BY <1>1, <1>2, <1>9, <1>10 DEF One, Dials, Waits
<1>13. CASE k = h3.epoch
  <2>1. Dials(p, h3Epoch + 1) = FALSE
    BY <1>1, <1>9, <1>13 DEF Dials
  <2>2. Changes(canary, h3, t, a, w, One(Dials(p, h3Epoch + 1)), One(Waits(p, h3Epoch + 1)), ready)
    BY <1>1, <1>4, <1>13 DEF Changes
  <2>3. a \in Int /\ w \in Int
    OBVIOUS
  <2>4. h3.epoch # 0 => /\ a = One(Dials(p, h3.epoch)) - One(Dials(q, h3.epoch))
                        /\ w = One(Waits(p, h3.epoch)) - One(Waits(q, h3.epoch))
    BY <1>12, <1>13
  <2> HIDE DEF a, w, ready
  <2> QED
    BY <1>1, <1>8, <1>11, <2>2, <2>3, <2>4, RequestMoves DEF q, n
<1>14. CASE k = h3Epoch + 1
  <2> DEFINE b == 0
  <2>1. Changes(canary, h3, t, b, w, One(Dials(p, h3Epoch + 1)), One(Waits(p, h3Epoch + 1)), ready)
    <3>1. t.failures > h3.failures => FALSE
      <4>1. h3.h3InFlight \in Nat
        BY DEF IInv, Inv, StateOK, State
      <4> QED
        BY <1>4, <4>1 DEF Changes
    <3>2. t.epoch # h3.epoch
      BY <1>1, <1>4, <1>14
    <3> QED
      BY <1>4, <1>12, <1>14, <3>1, <3>2 DEF Changes
  <2>2. b \in Int /\ w \in Int
    OBVIOUS
  <2>3. h3.epoch # 0 => /\ b = One(Dials(p, h3.epoch)) - One(Dials(q, h3.epoch))
                        /\ w = One(Waits(p, h3.epoch)) - One(Waits(q, h3.epoch))
    <3>1. One(Dials(p, h3.epoch)) = 0
      BY <1>1, <1>9, <1>14 DEF One, Dials
    <3> QED
      BY <1>12, <3>1
  <2> HIDE DEF b, w, ready
  <2> QED
    BY <1>1, <1>8, <1>11, <2>1, <2>2, <2>3, RequestMoves DEF q, n
<1> QED
  BY <1>4, <1>5, <1>13, <1>14

\* The request is not admitted and goes on to HTTP/2; it waits in the window
\* it joined, if there is one.
LEMMA RefusedTurn ==
    ASSUME IInv, NEW r \in Request, req[r].pc = "loop", UseCooldown(r), NEW x,
           Joins(canary, h3, x) \/ TurnedAway(canary, h3, x), SetState(x.state),
           req' = [req EXCEPT ![r].index = @ + 1, ![r].joined = x.token,
                              ![r].failures = Append(@, "cooling")],
           UNCHANGED <<canary, probe, degraded, evidence>>
    PROVE  IInv' /\ EarnedStep
<1> DEFINE q == req[r]
           t == x.state
           k == x.token
           i == q.index + 1
           fs == Append(q.failures, "cooling")
           n == EpochAfter(t)
           p == [q EXCEPT !.index = i, !.joined = k, !.failures = fs]
           a == 0
           w == IF k = 0 THEN 0 ELSE 1
           ready == h3.fallbackReady
<1>1. /\ h3Epoch \in Nat /\ req \in [Request -> Req(h3Epoch)] /\ q \in Req(h3Epoch) /\ Place(r, q)
      /\ h3.epoch \in 0..h3Epoch /\ ready \in BOOLEAN /\ evidence \subseteq 0..h3Epoch
      /\ (ready => h3.epoch \in evidence /\ h3.epoch # 0)
      /\ canary \in Nat /\ h3 \in State(canary) /\ Window(h3)
  BY RequestFacts
<1>2. q.pc = "loop" /\ req' = [req EXCEPT ![r] = p]
  BY <1>1
<1>3. q.index = 1 /\ Falls(r)
  BY <1>1, CooldownUsed DEF Req
<1>4. i = 2 /\ i <= Len(Protocols[r])
  BY <1>3, Plans
<1>5. fs \in Failures(1) /\ fs \in Joined
  <2>1. q.failures \in Failures(0)
    BY <1>1, <1>2, <1>3 DEF Place
  <2>2. "cooling" \in Failure
    BY DEF Failure
  <2>3. fs \in Failures(0 + 1) /\ fs \in Joined
    BY <2>1, <2>2, AppendFailure
  <2> QED
    BY <2>3
<1>6. k = 0 \/ k = t.epoch
  BY DEF Joins, TurnedAway
<1>7. Changes(canary, h3, t, a, w, 0, w, ready)
  <2>1. CASE Joins(canary, h3, x)
    BY <2>1 DEF Joins
  <2>2. CASE TurnedAway(canary, h3, x)
    BY <1>1, <2>2, NoChange DEF TurnedAway
  <2> QED
    BY <2>1, <2>2
<1>8. t.epoch \in {h3.epoch, h3Epoch + 1}
  BY <1>7 DEF Changes
<1>9. n \in Nat /\ n >= h3Epoch /\ t.epoch \in 0..n /\ k \in 0..n
  <2>1. t.epoch \in 0..(h3Epoch + 1)
    BY <1>1, <1>8
  <2>2. n \in Nat /\ n >= h3Epoch /\ t.epoch \in 0..n
    BY <1>1, <2>1, EpochsGrow
  <2> QED
    BY <1>6, <2>2
<1>10. q \in Req(n)
  BY <1>1, <1>9, ReqMono
<1> SUFFICES /\ Inv(n, canary, degraded, t, [req EXCEPT ![r] = p], probe, evidence)
             /\ Earned(h3, t, [req EXCEPT ![r] = p], evidence)
  BY <1>2, StateSet
<1>w. w \in Int /\ a \in Int /\ a = 0 /\ (k = 0 => w = 0) /\ (k # 0 => w = 1)
  OBVIOUS
<1> HIDE DEF q, t, k, n, i, fs, a, w, ready
<1>11. p \in Req(n)
  <2>1. i \in 1..2 /\ fs \in {<<>>} \cup [1..1 -> Failure] \cup [1..2 -> Failure]
    BY <1>4, <1>5 DEF Joined
  <2> QED
    BY <1>9, <1>10, <2>1 DEF Req
<1>12. p.pc = "loop" /\ p.index = 2 /\ p.token = q.token /\ p.pending = q.pending
       /\ p.joined = k /\ p.failures = fs
  BY <1>1, <1>2, <1>4 DEF Req
<1>13. q.token = 0 /\ q.pending = 0 /\ q.joined = 0
  BY <1>1, <1>2, <1>3 DEF Place
<1> HIDE DEF p
<1>14. Place(r, p)
  BY <1>1, <1>4, <1>5, <1>12, <1>13 DEF Place
<1>15. ~Dials(q, h3.epoch) /\ ~Dials(p, h3.epoch) /\ ~Dials(p, h3Epoch + 1)
       /\ (h3.epoch # 0 => ~Waits(q, h3.epoch) /\ (Waits(p, h3.epoch) <=> k = h3.epoch))
       /\ (Waits(p, h3Epoch + 1) <=> k = h3Epoch + 1)
  BY <1>1, <1>2, <1>12, <1>13 DEF Dials, Waits
<1>16. h3.epoch # 0 => a = One(Dials(p, h3.epoch)) - One(Dials(q, h3.epoch))
  BY <1>w, <1>15 DEF One
<1>17. h3.epoch # 0 /\ t.epoch = h3.epoch => w = One(Waits(p, h3.epoch)) - One(Waits(q, h3.epoch))
  BY <1>w, <1>6, <1>15 DEF One
<1>18. Changes(canary, h3, t, a, w, One(Dials(p, h3Epoch + 1)), One(Waits(p, h3Epoch + 1)), ready)
  <2>1. One(Dials(p, h3Epoch + 1)) = 0
    BY <1>15 DEF One
  <2>2. t.epoch = h3Epoch + 1 => One(Waits(p, h3Epoch + 1)) = w
    BY <1>w, <1>1, <1>6, <1>15 DEF One
  <2> QED
    BY <1>7, <2>1, <2>2 DEF Changes
<1> QED
  BY <1>w, <1>1, <1>11, <1>14, <1>16, <1>17, <1>18, RequestMoves DEF q, n

LEMMA NextProtocolStep ==
    ASSUME IInv, NEW r \in Request, NextProtocol(r)
    PROVE  IInv' /\ EarnedStep
<1>1. CASE ~UseCooldown(r)
  BY <1>1, PlainTurn DEF NextProtocol
<1>2. CASE UseCooldown(r)
  <2>1. PICK x \in {BeginHTTP3Attempt(h3), JoinPendingFallback(h3)} :
                /\ SetState(x.state)
                /\ req' = IF x.allowed
                          THEN [req EXCEPT ![r].pc = "dial", ![r].token = x.token,
                                           ![r].managed = x.managed]
                          ELSE [req EXCEPT ![r].index = @ + 1, ![r].joined = x.token,
                                           ![r].failures = Append(@, "cooling")]
    BY <1>2 DEF NextProtocol
  <2>2. req[r].pc = "loop" /\ UNCHANGED <<canary, probe, degraded, evidence>>
    BY DEF NextProtocol
  <2>3. Admitted(canary, h3, x) \/ Joins(canary, h3, x) \/ TurnedAway(canary, h3, x)
    BY RequestFacts, BeginFacts, JoinPendingFacts
  <2>4. CASE Admitted(canary, h3, x)
    <3>1. req' = [req EXCEPT ![r].pc = "dial", ![r].token = x.token, ![r].managed = x.managed]
      BY <2>1, <2>4 DEF Admitted
    <3> QED
      BY <1>2, <2>1, <2>2, <2>4, <3>1, AdmittedTurn
  <2>5. CASE Joins(canary, h3, x) \/ TurnedAway(canary, h3, x)
    <3>1. req' = [req EXCEPT ![r].index = @ + 1, ![r].joined = x.token,
                             ![r].failures = Append(@, "cooling")]
      BY <2>1, <2>5 DEF Joins, TurnedAway
    <3> QED
      BY <1>2, <2>1, <2>2, <2>5, <3>1, RefusedTurn
  <2> QED
    BY <2>3, <2>4, <2>5
<1> QED
  BY <1>1, <1>2

LEMMA DialFacts ==
    ASSUME IInv, NEW r \in Request, req[r].pc = "dial", UseCooldown(r)
    PROVE  LET q == req[r] IN
           /\ q \in Req(h3Epoch) /\ q.index = 1 /\ Falls(r) /\ q.token \in 1..h3Epoch
           /\ q.pending = 0 /\ q.joined = 0 /\ q.failures \in Failures(0)
<1> DEFINE q == req[r]
<1>1. h3Epoch \in Nat /\ q \in Req(h3Epoch) /\ Place(r, q)
  BY RequestFacts
<1>2. q.index = 1 /\ Falls(r)
  BY <1>1, CooldownUsed DEF Req
<1> HIDE DEF q
<1>3. q.pc = "dial"
  BY DEF q
<1>4. q.token # 0 /\ q.pending = 0 /\ q.joined = 0 /\ q.failures \in Failures(q.index - 1)
  BY <1>1, <1>2, <1>3 DEF Place
<1>5. q.token \in 0..h3Epoch
  BY <1>1 DEF Req
<1> QED
  BY <1>1, <1>2, <1>4, <1>5 DEF q

\* The admitted attempt of a request is over; what it reports counts in its own
\* epoch alone.
LEMMA AttemptEnds ==
    ASSUME IInv, NEW r \in Request, req[r].pc = "dial", UseCooldown(r), NEW t, NEW p,
           NEW w \in {0, 1},
           h3.epoch = req[r].token => Changes(canary, h3, t, -1, w, 0, 0, h3.fallbackReady),
           h3.epoch # req[r].token => t = h3,
           p \in Req(h3Epoch), Place(r, p), p.pc # "dial", p.joined = 0,
           w = 0 => p.pending = 0, w = 1 => p.pending = req[r].token /\ p.pc # "done"
    PROVE  /\ Inv(EpochAfter(t), canary, degraded, t, [req EXCEPT ![r] = p], probe, evidence)
           /\ Earned(h3, t, [req EXCEPT ![r] = p], evidence)
<1> DEFINE q == req[r]
           ready == h3.fallbackReady
<1>1. /\ h3Epoch \in Nat /\ canary \in Nat /\ h3 \in State(canary) /\ Window(h3)
      /\ h3.epoch \in 0..h3Epoch /\ ready \in BOOLEAN /\ evidence \subseteq 0..h3Epoch
      /\ (ready => h3.epoch \in evidence /\ h3.epoch # 0)
  BY RequestFacts
<1>2. q.token \in 1..h3Epoch /\ q.pending = 0 /\ q.joined = 0 /\ q.pc = "dial"
  BY DialFacts
<1>3. ~Dials(p, h3.epoch) /\ ~Dials(p, h3Epoch + 1) /\ ~Waits(p, h3Epoch + 1)
  BY <1>1, <1>2 DEF Dials, Waits
<1>4. One(Dials(p, h3Epoch + 1)) = 0 /\ One(Waits(p, h3Epoch + 1)) = 0
  BY <1>3 DEF One
<1>5. evidence \subseteq evidence
  OBVIOUS
<1>6. CASE h3.epoch = q.token
  <2> DEFINE a == -1
  <2>1. a \in Int /\ w \in Int
    OBVIOUS
  <2>2. Changes(canary, h3, t, a, w, One(Dials(p, h3Epoch + 1)), One(Waits(p, h3Epoch + 1)), ready)
    BY <1>4, <1>6
  <2>3. Dials(q, h3.epoch) /\ ~Waits(q, h3.epoch) /\ (Waits(p, h3.epoch) <=> w = 1)
    BY <1>2, <1>6 DEF Dials, Waits
  <2>4. a = One(Dials(p, h3.epoch)) - One(Dials(q, h3.epoch))
    BY <1>3, <2>3 DEF One
  <2>5. w = One(Waits(p, h3.epoch)) - One(Waits(q, h3.epoch))
    BY <2>3 DEF One
  <2>6. p \in Req(EpochAfter(t))
    <3>1. t.epoch \in 0..(h3Epoch + 1)
      BY <1>1, <1>6 DEF Changes
    <3> QED
      BY <1>1, <3>1, EpochsGrow, ReqMono
  <2> HIDE DEF a, ready
  <2> QED
    BY <1>1, <1>5, <2>1, <2>2, <2>4, <2>5, <2>6, RequestMoves DEF q
<1>7. CASE h3.epoch # q.token
  <2> DEFINE a == 0
  <2>1. a \in Int /\ t = h3
    BY <1>7
  <2>2. Changes(canary, h3, t, a, a, One(Dials(p, h3Epoch + 1)), One(Waits(p, h3Epoch + 1)), ready)
    BY <1>1, <1>4, <1>7, NoChange
  <2>3. h3.epoch # 0 => ~Dials(q, h3.epoch) /\ ~Waits(q, h3.epoch) /\ ~Waits(p, h3.epoch)
    BY <1>2, <1>7 DEF Dials, Waits
  <2>4. h3.epoch # 0 => a = One(Dials(p, h3.epoch)) - One(Dials(q, h3.epoch))
    BY <1>3, <2>3 DEF One
  <2>5. h3.epoch # 0 => a = One(Waits(p, h3.epoch)) - One(Waits(q, h3.epoch))
    BY <2>3 DEF One
  <2>6. p \in Req(EpochAfter(t))
    BY <1>1, <2>1 DEF EpochAfter
  <2> HIDE DEF a, ready
  <2> QED
    BY <1>1, <1>5, <2>1, <2>2, <2>4, <2>5, <2>6, RequestMoves DEF q
<1> QED
  BY <1>6, <1>7

LEMMA DoneFacts ==
    ASSUME NEW n \in Nat, NEW r \in Request
    PROVE  Done \in Req(n) /\ Place(r, Done) /\ Done.pc = "done" /\ Done.pending = 0
           /\ Done.joined = 0 /\ Done.token = 0
<1>1. /\ Done.pc = "done" /\ Done.index = 1 /\ Done.ctx = "live" /\ Done.token = 0
      /\ Done.pending = 0 /\ Done.joined = 0
  BY DEF Done, NewRequest
<1>2. Done \in Req(n)
  <2>1. 0 \in 0..n /\ 1 \in 1..2 /\ <<>> \in {<<>>} \cup [1..1 -> Failure] \cup [1..2 -> Failure]
    OBVIOUS
  <2>2. NewRequest \in Req(n)
    BY <2>1 DEF NewRequest, Req
  <2> QED
    BY <2>2 DEF Done, Req
<1> QED
  BY <1>1, <1>2, Plans DEF Place

\* The end of an admitted attempt that leaves the request in its loop, on HTTP/2.
LEMMA NextTurn ==
    ASSUME IInv, NEW r \in Request, req[r].pc = "dial", UseCooldown(r), NEW f \in Failure,
           NEW pend \in {0, req[r].token}
    PROVE  LET p == [req[r] EXCEPT !.pc = "loop", !.index = req[r].index + 1, !.token = 0,
                                   !.pending = pend, !.failures = Append(req[r].failures, f)] IN
           p \in Req(h3Epoch) /\ Place(r, p) /\ p.pc = "loop" /\ p.joined = 0 /\ p.pending = pend
<1> DEFINE q == req[r]
           i == q.index + 1
           fs == Append(q.failures, f)
           p == [q EXCEPT !.pc = "loop", !.index = i, !.token = 0, !.pending = pend, !.failures = fs]
<1>1. /\ q \in Req(h3Epoch) /\ q.index = 1 /\ Falls(r) /\ q.token \in 1..h3Epoch
      /\ q.pending = 0 /\ q.joined = 0 /\ q.failures \in Failures(0) /\ h3Epoch \in Nat
  BY DialFacts, RequestFacts
<1>2. fs \in Failures(0 + 1) /\ fs \in Joined
  BY <1>1, AppendFailure
<1>3. i = 2 /\ i \in 1..2 /\ i <= Len(Protocols[r])
  BY <1>1, Plans
<1>4. pend \in 0..h3Epoch /\ 0 \in 0..h3Epoch
  BY <1>1
<1>5. fs \in {<<>>} \cup [1..1 -> Failure] \cup [1..2 -> Failure]
  BY <1>2 DEF Joined
<1> SUFFICES p \in Req(h3Epoch) /\ Place(r, p) /\ p.pc = "loop" /\ p.joined = 0 /\ p.pending = pend
  OBVIOUS
<1> HIDE DEF q, i, fs
<1>6. p \in Req(h3Epoch)
  BY <1>1, <1>3, <1>4, <1>5 DEF Req
<1>7. p.pc = "loop" /\ p.index = i /\ p.token = 0 /\ p.pending = pend /\ p.joined = q.joined
      /\ p.failures = fs
  BY <1>1 DEF Req
<1> HIDE DEF p
<1>8. Place(r, p)
  BY <1>1, <1>2, <1>3, <1>7 DEF Place
<1> QED
  BY <1>1, <1>6, <1>7, <1>8

LEMMA AdmittedDialStep ==
    ASSUME IInv, NEW r \in Request, AdmittedDialReturns(r)
    PROVE  IInv' /\ EarnedStep
<1> DEFINE q == req[r]
<1>1. q.pc = "dial" /\ UseCooldown(r) /\ UNCHANGED <<canary, probe, degraded, evidence>>
  BY DEF AdmittedDialReturns
<1>2. /\ q \in Req(h3Epoch) /\ q.index = 1 /\ Falls(r) /\ q.token \in 1..h3Epoch
      /\ q.pending = 0 /\ q.joined = 0 /\ q.failures \in Failures(0)
  BY <1>1, DialFacts
<1>3. /\ h3Epoch \in Nat /\ req \in [Request -> Req(h3Epoch)]
      /\ canary \in Nat /\ h3 \in State(canary) /\ Window(h3)
      /\ h3.epoch \in 0..h3Epoch
  BY RequestFacts
<1>4. h3.epoch = q.token => h3.epoch # 0 /\ h3.h3InFlight > 0
  BY <1>1, <1>2, DialCounted DEF Dials
<1>5. ASSUME NEW f \in Answered,
             SetState(IF h3.epoch = q.token THEN Reset(h3, q.managed) ELSE h3),
             req' = IF f = "tunnel" THEN [req EXCEPT ![r] = Done]
                    ELSE [req EXCEPT ![r].pc = "return", ![r].token = 0,
                                     ![r].failures = Append(@, f)]
      PROVE  IInv' /\ EarnedStep
  <2> DEFINE t == IF h3.epoch = q.token THEN Reset(h3, q.managed) ELSE h3
             fs == Append(q.failures, f)
             p == [q EXCEPT !.pc = "return", !.token = 0, !.failures = fs]
             w == 0
  <2>1. h3.epoch = q.token => Changes(canary, h3, t, -1, w, 0, 0, h3.fallbackReady)
    BY <1>2, <1>3, ResetChanges DEF Req
  <2>2. h3.epoch # q.token => t = h3
    OBVIOUS
  <2>3. SetState(t)
    BY <1>5
  <2>4. CASE f = "tunnel"
    <3>1. req' = [req EXCEPT ![r] = Done]
      BY <1>5, <2>4
    <3>2. Done \in Req(h3Epoch) /\ Place(r, Done) /\ Done.pc # "dial" /\ Done.pending = 0
          /\ Done.joined = 0
      BY <1>3, DoneFacts
    <3> HIDE DEF t
    <3>3. /\ Inv(EpochAfter(t), canary, degraded, t, [req EXCEPT ![r] = Done], probe, evidence)
          /\ Earned(h3, t, [req EXCEPT ![r] = Done], evidence)
      BY <1>1, <2>1, <2>2, <3>2, AttemptEnds
    <3> QED
      BY <1>1, <2>3, <3>1, <3>3, StateSet
  <2>5. CASE f # "tunnel"
    <3>1. req' = [req EXCEPT ![r] = p]
      BY <1>3, <1>5, <2>5
    <3>2. f \in Failure
      BY <2>5 DEF Answered, Failure, Status
    <3>3. fs \in {<<>>} \cup [1..1 -> Failure] \cup [1..2 -> Failure]
      BY <1>2, <3>2, AppendFailure DEF Joined
    <3> HIDE DEF t, fs, q
    <3>4. p \in Req(h3Epoch)
      BY <1>2, <3>3 DEF Req
    <3>5. p.pc = "return" /\ p.index = 1 /\ p.token = 0 /\ p.pending = 0 /\ p.joined = 0
      BY <1>2 DEF Req
    <3> HIDE DEF p
    <3>6. Place(r, p)
      <4>1. 1 <= Len(Protocols[r])
        BY Plans
      <4> QED
        BY <3>5, <4>1 DEF Place
    <3>7. /\ Inv(EpochAfter(t), canary, degraded, t, [req EXCEPT ![r] = p], probe, evidence)
          /\ Earned(h3, t, [req EXCEPT ![r] = p], evidence)
      BY <1>1, <2>1, <2>2, <3>4, <3>5, <3>6, AttemptEnds DEF q
    <3> QED
      BY <1>1, <2>3, <3>1, <3>7, StateSet
  <2> QED
    BY <2>4, <2>5
<1>6. ASSUME SetState(AbandonAttempt(h3, q.token)),
             req' = [req EXCEPT ![r].pc = "loop", ![r].index = @ + 1, ![r].token = 0,
                                ![r].failures = Append(@, "capacity")]
      PROVE  IInv' /\ EarnedStep
  <2> DEFINE t == AbandonAttempt(h3, q.token)
             z == 0
             p == [req[r] EXCEPT !.pc = "loop", !.index = req[r].index + 1, !.token = 0,
                                 !.pending = z, !.failures = Append(req[r].failures, "capacity")]
  <2>1. h3.epoch = q.token => Changes(canary, h3, t, -1, 0, 0, 0, h3.fallbackReady)
    BY <1>3, <1>4, AbandonFacts
  <2>2. h3.epoch # q.token => t = h3
    BY DEF AbandonAttempt
  <2>3. SetState(t)
    BY <1>6
  <2>4. req' = [req EXCEPT ![r] = p]
    <3>1. p = [req[r] EXCEPT !.pc = "loop", !.index = req[r].index + 1, !.token = 0,
                             !.failures = Append(req[r].failures, "capacity")]
      BY <1>2 DEF Req
    <3> HIDE DEF p
    <3> QED
      BY <1>3, <1>6, <3>1
  <2>5. p \in Req(h3Epoch) /\ Place(r, p) /\ p.pc = "loop" /\ p.joined = 0 /\ p.pending = z
    <3>1. "capacity" \in Failure /\ z \in {0, req[r].token}
      BY DEF Failure
    <3> HIDE DEF z
    <3> QED
      BY <1>1, <3>1, NextTurn
  <2> HIDE DEF t, p
  <2>6. /\ Inv(EpochAfter(t), canary, degraded, t, [req EXCEPT ![r] = p], probe, evidence)
        /\ Earned(h3, t, [req EXCEPT ![r] = p], evidence)
    BY <1>1, <2>1, <2>2, <2>5, AttemptEnds
  <2> QED
    BY <1>1, <2>3, <2>4, <2>6, StateSet
<1>7. ASSUME NEW f \in ({"capability", "transport"} \cap Fault)
                         \cup SetupError("setup_h3") \cup CallerError(r),
             SetState(MarkFailurePending(h3, q.token)),
             req' = [req EXCEPT ![r].pc = "loop", ![r].index = @ + 1, ![r].token = 0,
                                ![r].pending = req[r].token, ![r].failures = Append(@, f)]
      PROVE  IInv' /\ EarnedStep
  <2> DEFINE t == MarkFailurePending(h3, q.token)
             z == req[r].token
             p == [req[r] EXCEPT !.pc = "loop", !.index = req[r].index + 1, !.token = 0,
                                 !.pending = z, !.failures = Append(req[r].failures, f)]
  <2>1. h3.epoch = q.token => Changes(canary, h3, t, -1, 1, 0, 0, h3.fallbackReady)
    BY <1>3, <1>4, MarkFacts
  <2>2. h3.epoch # q.token => t = h3
    BY DEF MarkFailurePending
  <2>3. SetState(t)
    BY <1>7
  <2>4. req' = [req EXCEPT ![r] = p]
    BY <1>3, <1>7
  <2>5. f \in Failure
    BY <1>2 DEF SetupError, CallerError, Failure, Status, Req
  <2>6. p \in Req(h3Epoch) /\ Place(r, p) /\ p.pc = "loop" /\ p.joined = 0 /\ p.pending = z
    <3>1. z \in {0, req[r].token}
      OBVIOUS
    <3> HIDE DEF z
    <3> QED
      BY <1>1, <2>5, <3>1, NextTurn
  <2> HIDE DEF t, p
  <2>7. /\ Inv(EpochAfter(t), canary, degraded, t, [req EXCEPT ![r] = p], probe, evidence)
        /\ Earned(h3, t, [req EXCEPT ![r] = p], evidence)
    BY <1>1, <2>1, <2>2, <2>6, AttemptEnds
  <2> QED
    BY <1>1, <2>3, <2>4, <2>7, StateSet
<1> QED
  BY <1>5, <1>6, <1>7 DEF AdmittedDialReturns

\* A dial that the endpoint does not count returns.
LEMMA PlainEnds ==
    ASSUME IInv, NEW r \in Request, req[r].pc = "dial", ~UseCooldown(r), NEW p,
           p \in Req(h3Epoch), p.pc \in {"loop", "return"}, p.token = req[r].token,
           p.pending = req[r].pending, p.joined = req[r].joined, p.index <= Len(Protocols[r]),
           p.pc = "loop" => p.index = 2 /\ p.failures \in Failures(1)
    PROVE  Inv(h3Epoch, canary, degraded, h3, [req EXCEPT ![r] = p], probe, evidence)
<1> DEFINE q == req[r]
<1>1. h3Epoch \in Nat /\ q \in Req(h3Epoch) /\ Place(r, q)
  BY RequestFacts
<1>2. ~(q.index = 1 /\ Falls(r))
  BY <1>1, CooldownUsed DEF Req
<1> HIDE DEF q
<1>3. q.pc = "dial" /\ p.token = q.token /\ p.pending = q.pending /\ p.joined = q.joined
  BY DEF q
<1>4. q.token = 0
  BY <1>1, <1>2, <1>3 DEF Place
<1>5. Place(r, p)
  BY <1>1, <1>3, <1>4 DEF Place
<1>6. \A e \in 1..h3Epoch : (Dials(p, e) <=> Dials(q, e)) /\ (Waits(p, e) <=> Waits(q, e))
  BY <1>3, <1>4 DEF Dials, Waits
<1> QED
  BY <1>5, <1>6, RequestAlone DEF q

LEMMA PlainDialStep ==
    ASSUME IInv, NEW r \in Request, PlainDialReturns(r)
    PROVE  IInv' /\ EarnedStep
<1> DEFINE q == req[r]
           h2 == Protocol(r) = "h2"
           waited == h2 /\ (req[r].pending # 0 \/ req[r].joined # 0)
           last == req[r].index = Len(Plan(r))
<1>1. /\ q.pc = "dial" /\ ~UseCooldown(r)
      /\ UNCHANGED <<h3, h3Epoch, canary, probe, degraded, evidence>>
  BY DEF PlainDialReturns
<1>2. /\ h3Epoch \in Nat /\ req \in [Request -> Req(h3Epoch)] /\ q \in Req(h3Epoch) /\ Place(r, q)
  BY RequestFacts
<1>3. q.index \in 1..2 /\ q.index <= Len(Protocols[r]) /\ q.failures \in Failures(q.index - 1)
      /\ Len(Protocols[r]) \in 1..2 /\ q.failures \in Joined
  BY <1>1, <1>2, Plans DEF Req, Place, Joined
<1>4. \A f \in Failure : Append(q.failures, f) \in Failures(q.index - 1 + 1)
                         /\ Append(q.failures, f) \in Joined
  <2>1. q.index - 1 \in {0, 1}
    BY <1>3
  <2> QED
    BY <1>3, <2>1, AppendFailure
<1>5. ASSUME NEW f \in Answered,
             req' = [req EXCEPT ![r].pc = "return", ![r].tunnel = (f = "tunnel"),
                         ![r].reachable = waited /\ f \in {"tunnel", "neutral"},
                         ![r].failures = IF f = "tunnel" THEN @ ELSE Append(@, f)]
      PROVE  IInv' /\ EarnedStep
  <2> DEFINE a == (f = "tunnel")
             b == waited /\ f \in {"tunnel", "neutral"}
             fs == IF f = "tunnel" THEN q.failures ELSE Append(q.failures, f)
             p == [q EXCEPT !.pc = "return", !.tunnel = a, !.reachable = b, !.failures = fs]
  <2>1. req' = [req EXCEPT ![r] = p]
    BY <1>2, <1>5
  <2>2. a \in BOOLEAN /\ b \in BOOLEAN
    OBVIOUS
  <2>3. fs \in {<<>>} \cup [1..1 -> Failure] \cup [1..2 -> Failure]
    <3>1. f # "tunnel" => f \in Failure
      BY DEF Answered, Failure, Status
    <3> QED
      BY <1>3, <1>4, <3>1 DEF Joined
  <2> HIDE DEF q, a, b, fs
  <2>4. p \in Req(h3Epoch)
    BY <1>2, <2>2, <2>3 DEF Req
  <2>5. p.pc = "return" /\ p.index = q.index /\ p.token = q.token /\ p.pending = q.pending
        /\ p.joined = q.joined
    BY <1>2 DEF Req
  <2> HIDE DEF p
  <2>6. Inv(h3Epoch, canary, degraded, h3, [req EXCEPT ![r] = p], probe, evidence)
    BY <1>1, <1>3, <2>4, <2>5, PlainEnds DEF q
  <2> QED
    BY <1>1, <2>1, <2>6, StateKept
<1>6. ASSUME NEW f \in (({"capability", "transport"} \cup (IF h2 THEN {} ELSE {"capacity"})) \cap Fault)
                          \cup SetupError(IF h2 THEN "setup_h2" ELSE "setup_h3") \cup CallerError(r),
             req' = [req EXCEPT ![r].pc = IF last THEN "return" ELSE "loop",
                                ![r].index = IF last THEN @ ELSE @ + 1,
                                ![r].failures = Append(@, f)]
      PROVE  IInv' /\ EarnedStep
  <2> DEFINE c == IF last THEN "return" ELSE "loop"
             i == IF last THEN q.index ELSE q.index + 1
             fs == Append(q.failures, f)
             p == [q EXCEPT !.pc = c, !.index = i, !.failures = fs]
  <2>1. req' = [req EXCEPT ![r] = p]
    BY <1>2, <1>6
  <2>2. f \in Failure
    BY <1>2 DEF SetupError, CallerError, Failure, Status, Req
  <2>3. fs \in {<<>>} \cup [1..1 -> Failure] \cup [1..2 -> Failure]
    BY <1>4, <2>2 DEF Joined
  <2>4. c \in {"return", "loop"} /\ i \in 1..2 /\ i <= Len(Protocols[r])
        /\ (c = "loop" => i = 2 /\ q.index = 1)
    <3> DEFINE n == Len(Protocols[r])
               m == q.index
    <3>1. m \in 1..2 /\ n \in 1..2 /\ m <= n /\ (last <=> m = n)
      BY <1>3 DEF Plan
    <3>2. (last => i = m) /\ (~last => i = m + 1) /\ (c = "loop" <=> ~last) /\ c \in {"return", "loop"}
      OBVIOUS
    <3> SUFFICES i \in 1..2 /\ i <= n /\ (~last => i = 2 /\ m = 1)
      BY <3>2
    <3> HIDE DEF n, m, last, i, c, q
    <3>3. ~last => m = 1 /\ n = 2
      BY <3>1
    <3> QED
      BY <3>1, <3>2, <3>3
  <2>5. c = "loop" => fs \in Failures(1)
    BY <1>4, <2>2, <2>4
  <2> HIDE DEF q, c, i, fs
  <2>6. p \in Req(h3Epoch)
    BY <1>2, <2>3, <2>4 DEF Req
  <2>7. p.pc = c /\ p.index = i /\ p.token = q.token /\ p.pending = q.pending
        /\ p.joined = q.joined /\ p.failures = fs
    BY <1>2 DEF Req
  <2> HIDE DEF p
  <2>8. Inv(h3Epoch, canary, degraded, h3, [req EXCEPT ![r] = p], probe, evidence)
    BY <1>1, <2>4, <2>5, <2>6, <2>7, PlainEnds DEF q
  <2> QED
    BY <1>1, <2>1, <2>8, StateKept
<1> QED
  BY <1>5, <1>6 DEF PlainDialReturns

\* The deferred report counts in the epoch the request waited in.
LEMMA ReturnStep ==
    ASSUME IInv, NEW r \in Request, Return(r)
    PROVE  IInv' /\ EarnedStep
<1> DEFINE q == req[r]
           token == IF q.pending # 0 THEN q.pending ELSE q.joined
           live == q.ctx = "live"
           good == live /\ q.reachable
           t == IF token = 0 THEN h3 ELSE ObserveFallback(h3, token, live, q.reachable)
           ev == IF live /\ q.reachable THEN evidence \cup {token} ELSE evidence
           p == Done
<1>1. /\ q.pc = "return" /\ SetState(t) /\ evidence' = ev /\ req' = [req EXCEPT ![r] = p]
      /\ UNCHANGED <<canary, probe, degraded>>
  BY DEF Return
<1>2. /\ h3Epoch \in Nat /\ canary \in Nat /\ h3 \in State(canary) /\ Window(h3)
      /\ q \in Req(h3Epoch) /\ Place(r, q)
      /\ h3.epoch \in 0..h3Epoch /\ h3.fallbackReady \in BOOLEAN /\ evidence \subseteq 0..h3Epoch
      /\ (h3.fallbackReady => h3.epoch \in evidence /\ h3.epoch # 0)
  BY RequestFacts
<1>3. q.pending \in 0..h3Epoch /\ q.joined \in 0..h3Epoch /\ q.reachable \in BOOLEAN
  BY <1>2 DEF Req
<1>4. token \in 0..h3Epoch /\ live \in BOOLEAN /\ good \in BOOLEAN
  BY <1>3
<1>5. \A e \in Nat \ {0} : Waits(q, e) <=> e = token
  BY <1>1, <1>2, <1>3 DEF Waits, Place
<1>6. ~Dials(q, h3.epoch)
  BY <1>1 DEF Dials
<1>7. /\ p \in Req(h3Epoch) /\ Place(r, p) /\ ~Dials(p, h3.epoch) /\ ~Dials(p, h3Epoch + 1)
      /\ ~Waits(p, h3.epoch) /\ ~Waits(p, h3Epoch + 1)
  BY <1>2, DoneFacts DEF Dials, Waits
<1>8. evidence \subseteq ev /\ ev \subseteq 0..h3Epoch /\ (good => token \in ev)
  BY <1>2, <1>4
<1> HIDE DEF p
<1> SUFFICES /\ Inv(EpochAfter(t), canary, degraded, t, [req EXCEPT ![r] = p], probe, ev)
             /\ Earned(h3, t, [req EXCEPT ![r] = p], ev)
  BY <1>1, StateSet
<1>9. /\ One(Dials(p, h3Epoch + 1)) = 0 /\ One(Waits(p, h3Epoch + 1)) = 0
      /\ One(Dials(p, h3.epoch)) = 0 /\ One(Waits(p, h3.epoch)) = 0 /\ One(Dials(q, h3.epoch)) = 0
  BY <1>6, <1>7 DEF One
<1>10. CASE token # 0 /\ h3.epoch = token
  <2> DEFINE a == 0
             w == -1
             ready == h3.fallbackReady \/ good
  <2>1. h3.fallbackPending > 0
    <3>1. Waits(req[r], h3.epoch)
      BY <1>2, <1>5, <1>10
    <3> QED
      BY <1>10, <3>1, WaitCounted
  <2>2. Changes(canary, h3, ObserveFallback(h3, h3.epoch, live, q.reachable), a, w, 0, 0, ready)
    BY <1>2, <1>3, <1>4, <1>10, <2>1, ObserveFacts
  <2>3. t = ObserveFallback(h3, h3.epoch, live, q.reachable)
    BY <1>10
  <2>4. Changes(canary, h3, t, a, w, One(Dials(p, h3Epoch + 1)), One(Waits(p, h3Epoch + 1)), ready)
    BY <1>9, <2>2, <2>3
  <2>5. a \in Int /\ w \in Int /\ ready \in BOOLEAN
    BY <1>2, <1>4
  <2>6. a = One(Dials(p, h3.epoch)) - One(Dials(q, h3.epoch))
    BY <1>9
  <2>7. w = One(Waits(p, h3.epoch)) - One(Waits(q, h3.epoch))
    <3>1. Waits(q, h3.epoch)
      BY <1>2, <1>5, <1>10
    <3> QED
      BY <1>9, <3>1 DEF One
  <2>8. ready => h3.epoch \in ev /\ h3.epoch # 0
    BY <1>2, <1>8, <1>10
  <2> HIDE DEF t
  <2>9. p \in Req(EpochAfter(t))
    <3>1. t.epoch \in 0..(h3Epoch + 1)
      BY <1>2, <2>4 DEF Changes
    <3> QED
      BY <1>2, <1>7, <3>1, EpochsGrow, ReqMono
  <2> HIDE DEF a, w, ready, ev
  <2> QED
    BY <1>7, <1>8, <2>4, <2>5, <2>6, <2>7, <2>8, <2>9, RequestMoves DEF q
<1>11. CASE ~(token # 0 /\ h3.epoch = token)
  <2> DEFINE a == 0
             ready == h3.fallbackReady
  <2>1. t = h3
    BY <1>11 DEF ObserveFallback
  <2>2. Changes(canary, h3, t, a, a, One(Dials(p, h3Epoch + 1)), One(Waits(p, h3Epoch + 1)), ready)
    BY <1>2, <1>9, <2>1, NoChange
  <2>3. h3.epoch # 0 => One(Waits(q, h3.epoch)) = 0
    BY <1>2, <1>5, <1>11 DEF One
  <2>4. /\ a \in Int /\ ready \in BOOLEAN
        /\ h3.epoch # 0 => a = One(Dials(p, h3.epoch)) - One(Dials(q, h3.epoch))
        /\ h3.epoch # 0 => a = One(Waits(p, h3.epoch)) - One(Waits(q, h3.epoch))
        /\ ready => h3.epoch \in ev /\ h3.epoch # 0
    BY <1>2, <1>8, <1>9, <2>3
  <2>5. p \in Req(EpochAfter(t))
    BY <1>2, <1>7, <2>1 DEF EpochAfter
  <2> HIDE DEF a, ready, t, ev
  <2> QED
    BY <1>7, <1>8, <2>2, <2>4, <2>5, RequestMoves DEF q
<1> QED
  BY <1>10, <1>11

-----------------------------------------------------------------------------
(* Steps of the endpoint alone. *)

LEMMA EndpointMoves ==
    ASSUME IInv, NEW c \in Nat, NEW d \in 0..MaxDegradations, NEW pb, NEW t, t \in State(c), Window(t),
           CanaryOK(c, t, pb),
           \/ /\ t.epoch = h3.epoch /\ t.h3InFlight = h3.h3InFlight
              /\ t.fallbackPending = h3.fallbackPending /\ (t.fallbackReady => h3.fallbackReady)
           \/ /\ t.epoch = h3Epoch + 1 /\ t.h3InFlight = 0 /\ t.fallbackPending = 0
              /\ ~t.fallbackReady
    PROVE  Inv(EpochAfter(t), c, d, t, req, pb, evidence)
<1> DEFINE n == EpochAfter(t)
<1>1. /\ h3Epoch \in Nat /\ ReqOK(h3Epoch, req) /\ Exact(h3, req) /\ h3.epoch \in 0..h3Epoch
      /\ EvidenceOK(h3Epoch, h3, evidence)
  BY DEF IInv, Inv, StateOK
<1>2. t.epoch \in 0..(h3Epoch + 1)
  BY <1>1
<1>3. n \in Nat /\ n >= h3Epoch /\ t.epoch \in 0..n
  BY <1>1, <1>2, EpochsGrow
<1>4. ReqOK(n, req)
  <2>1. Req(h3Epoch) \subseteq Req(n)
    BY <1>1, <1>3, ReqMono
  <2> HIDE DEF n
  <2> QED
    BY <1>1, <2>1 DEF ReqOK
<1>5. Exact(t, req)
  <2>1. CASE t.epoch = h3.epoch /\ t.h3InFlight = h3.h3InFlight
             /\ t.fallbackPending = h3.fallbackPending
    BY <1>1, <2>1 DEF Exact
  <2>2. CASE t.epoch = h3Epoch + 1 /\ t.h3InFlight = 0 /\ t.fallbackPending = 0
    <3>1. AttemptsIn(req, h3Epoch + 1) = {} /\ WaitingIn(req, h3Epoch + 1) = {}
      BY <1>1, NewEpochEmpty DEF ReqOK
    <3> QED
      BY <2>2, <3>1, FS_EmptySet DEF Exact
  <2> QED
    BY <2>1, <2>2
<1>6. EvidenceOK(n, t, evidence)
  <2>1. evidence \subseteq 0..n
    BY <1>1, <1>3 DEF EvidenceOK
  <2>2. t.fallbackReady => t.epoch \in evidence
    BY <1>1 DEF EvidenceOK
  <2> QED
    BY <2>1, <2>2 DEF EvidenceOK
<1>7. StateOK(n, c, t)
  BY <1>3 DEF StateOK
<1> HIDE DEF n
<1>8. Inv(n, c, d, t, req, pb, evidence)
  BY <1>3, <1>4, <1>5, <1>6, <1>7 DEF Inv
<1> QED
  BY <1>8 DEF n

LEMMA EndpointFacts ==
    ASSUME IInv
    PROVE  /\ h3Epoch \in Nat /\ canary \in Nat /\ degraded \in 0..MaxDegradations
           /\ h3 \in State(canary) /\ Window(h3) /\ h3.epoch \in 0..h3Epoch
           /\ CanaryOK(canary, h3, probe)
BY DEF IInv, Inv, StateOK

\* Only fields that no window depends on change.
Aside(s, t) ==
    /\ t.epoch = s.epoch /\ t.failures = s.failures /\ t.probing = s.probing
    /\ t.pending = s.pending /\ t.h3InFlight = s.h3InFlight
    /\ t.fallbackPending = s.fallbackPending /\ t.fallbackReady = s.fallbackReady
    /\ t.pendingCause = s.pendingCause

LEMMA AsideMoves ==
    ASSUME IInv, NEW c \in Nat, NEW d \in 0..MaxDegradations, NEW pb, NEW t, t \in State(c),
           Aside(h3, t), h3.epoch # 0, CanaryOK(c, t, pb)
    PROVE  Inv(EpochAfter(t), c, d, t, req, pb, evidence) /\ EpochAfter(t) = h3Epoch
<1>1. h3Epoch \in Nat /\ Window(h3) /\ h3.epoch \in 0..h3Epoch
  BY EndpointFacts
<1>2. Window(t)
  BY <1>1 DEF Window, Admission, Attended, Aside
<1>3. Inv(EpochAfter(t), c, d, t, req, pb, evidence)
  BY <1>2, EndpointMoves DEF Aside
<1> QED
  BY <1>1, <1>3 DEF EpochAfter, Aside

\* The map has an entry once anything has happened to it.
LEMMA Untouched ==
    ASSUME IInv, h3.epoch = 0
    PROVE  /\ ~h3.active /\ h3.strikes = 0 /\ h3.strikeLeft = 0 /\ h3.retryIn = 0
           /\ h3.degRetryIn = -1 /\ h3.canaryLeft = 0 /\ h3.canaryToken = 0
<1>1. h3 = NoState
  BY EndpointFacts DEF Window, Admission
<1> QED
  BY <1>1, NoStateFacts DEF Off

LEMMA NoteRecoveryStep ==
    ASSUME IInv, NoteRecovery
    PROVE  IInv' /\ EarnedStep
<1> DEFINE t == [h3 EXCEPT !.active = FALSE, !.canaryLeft = 0, !.canaryToken = 0]
<1>1. /\ h3 \in State(canary) /\ canary \in Nat /\ degraded \in 0..MaxDegradations
      /\ CanaryOK(canary, h3, probe) /\ h3.failures \in Nat
  BY EndpointFacts DEF State
<1>2. h3.epoch # 0
  BY Untouched DEF NoteRecovery
<1>3. t \in State(canary)
  <2>1. 0 \in 0..CanaryInterval /\ 0 \in 0..canary
    BY <1>1, EndpointConstants
  <2> QED
    BY <1>1, <2>1 DEF State
<1>4. Aside(h3, t) /\ t.canaryToken = 0
  BY <1>1 DEF Aside, State
<1>5. h3' = t /\ UNCHANGED <<h3Epoch, canary, req, probe, degraded, evidence>>
  BY DEF NoteRecovery
<1> HIDE DEF t
<1>6. CanaryOK(canary, t, probe)
  BY <1>1, <1>4 DEF CanaryOK
<1>7. Inv(EpochAfter(t), canary, degraded, t, req, probe, evidence) /\ EpochAfter(t) = h3Epoch
  BY <1>1, <1>2, <1>3, <1>4, <1>6, AsideMoves
<1>8. IInv'
  BY <1>5, <1>7 DEF IInv
<1>9. EarnedStep
  BY <1>1, <1>4, <1>5 DEF EarnedStep, Earned, Aside
<1> QED
  BY <1>8, <1>9

LEMMA RoutePenaltyStep ==
    ASSUME IInv, RoutePenalty
    PROVE  IInv' /\ EarnedStep
<1> DEFINE t == [h3 EXCEPT !.strikes = 0]
<1>1. /\ h3 \in State(canary) /\ canary \in Nat /\ degraded \in 0..MaxDegradations
      /\ CanaryOK(canary, h3, probe) /\ h3.failures \in Nat
  BY EndpointFacts DEF State
<1>2. h3.epoch # 0
  BY Untouched DEF RoutePenalty
<1>3. t \in State(canary)
  BY <1>1 DEF State
<1>4. Aside(h3, t) /\ t.canaryToken = h3.canaryToken
  BY <1>1 DEF Aside, State
<1>5. h3' = t /\ UNCHANGED <<h3Epoch, canary, req, probe, degraded, evidence>>
  BY DEF RoutePenalty
<1> HIDE DEF t
<1>6. CanaryOK(canary, t, probe)
  BY <1>1, <1>4 DEF CanaryOK
<1>7. Inv(EpochAfter(t), canary, degraded, t, req, probe, evidence) /\ EpochAfter(t) = h3Epoch
  BY <1>1, <1>2, <1>3, <1>4, <1>6, AsideMoves
<1>8. IInv'
  BY <1>5, <1>7 DEF IInv
<1>9. EarnedStep
  BY <1>1, <1>4, <1>5 DEF EarnedStep, Earned, Aside
<1> QED
  BY <1>8, <1>9

LEMMA TickStep ==
    ASSUME IInv, Tick
    PROVE  IInv' /\ EarnedStep
<1> DEFINE less(x) == IF x > 0 THEN x - 1 ELSE x
           a == less(h3.retryIn)
           b == less(h3.strikeLeft)
           e == less(h3.degRetryIn)
           f == less(h3.canaryLeft)
           t == [h3 EXCEPT !.retryIn = a, !.strikeLeft = b, !.degRetryIn = e, !.canaryLeft = f]
<1>1. /\ h3 \in State(canary) /\ canary \in Nat /\ degraded \in 0..MaxDegradations
      /\ CanaryOK(canary, h3, probe) /\ h3.failures \in Nat
  BY EndpointFacts DEF State
<1>2. h3.epoch # 0
  <2>1. h3.retryIn > 0 \/ h3.strikeLeft > 0 \/ h3.degRetryIn > 0 \/ h3.canaryLeft > 0
    BY DEF Tick
  <2>2. h3.epoch = 0 => h3.retryIn = 0 /\ h3.strikeLeft = 0 /\ h3.degRetryIn = -1 /\ h3.canaryLeft = 0
    BY Untouched
  <2> QED
    BY <2>1, <2>2
<1>3. /\ a \in 0..(CooldownMax + DegradedMax) /\ b \in 0..StrikeWindow /\ f \in 0..CanaryInterval
      /\ e \in {Off} \cup 0..CooldownBase
  <2>1. /\ h3.retryIn \in 0..(CooldownMax + DegradedMax) /\ h3.strikeLeft \in 0..StrikeWindow
        /\ h3.canaryLeft \in 0..CanaryInterval /\ h3.degRetryIn \in {Off} \cup 0..CooldownBase
    BY <1>1 DEF State
  <2>2. \A m \in Nat : \A x \in 0..m : less(x) \in 0..m
    OBVIOUS
  <2>3. less(Off) = Off
    BY DEF Off
  <2> HIDE DEF less
  <2> QED
    BY <2>1, <2>2, <2>3, EndpointConstants
<1>5. h3' = t /\ UNCHANGED <<h3Epoch, canary, req, probe, degraded, evidence>>
  BY DEF Tick
<1> HIDE DEF a, b, e, f
<1>6. t \in State(canary)
  BY <1>1, <1>3 DEF State
<1>7. Aside(h3, t) /\ t.canaryToken = h3.canaryToken
  BY <1>1 DEF Aside, State
<1> HIDE DEF t
<1>8. CanaryOK(canary, t, probe)
  BY <1>1, <1>7 DEF CanaryOK
<1>9. Inv(EpochAfter(t), canary, degraded, t, req, probe, evidence) /\ EpochAfter(t) = h3Epoch
  BY <1>1, <1>2, <1>6, <1>7, <1>8, AsideMoves
<1>10. IInv'
  BY <1>5, <1>9 DEF IInv
<1>11. EarnedStep
  BY <1>1, <1>5, <1>7 DEF EarnedStep, Earned, Aside
<1> QED
  BY <1>10, <1>11

LEMMA ClaimStep ==
    ASSUME IInv, NEW s \in Selector, ClaimBoostProbe(s)
    PROVE  IInv' /\ EarnedStep
<1> DEFINE c == canary + 1
           t == [h3 EXCEPT !.canaryLeft = CanaryInterval, !.canaryToken = c]
           pb == [probe EXCEPT ![s] = c]
           H == {x \in Selector : probe[x] # -1}
           K == {x \in Selector : pb[x] # -1}
<1>1. /\ h3 \in State(canary) /\ canary \in Nat /\ degraded \in 0..MaxDegradations
      /\ CanaryOK(canary, h3, probe) /\ h3.failures \in Nat
  BY EndpointFacts DEF State
<1>2. h3.epoch # 0 /\ probe[s] = -1
  BY Untouched DEF ClaimBoostProbe
<1>3. probe \in [Selector -> -1..canary] /\ canary = Cardinality(H)
  BY <1>1 DEF CanaryOK
<1>4. c \in Nat /\ c # 0 /\ c \in 0..c /\ c \in -1..c /\ c # -1 /\ 0..canary \subseteq 0..c
      /\ -1..canary \subseteq -1..c /\ CanaryInterval \in 0..CanaryInterval
  BY <1>1, EndpointConstants
<1>5. h3' = t /\ canary' = c /\ probe' = pb /\ UNCHANGED <<h3Epoch, req, degraded, evidence>>
  BY DEF ClaimBoostProbe
<1>6. Cardinality(K) = c
  <2>1. IsFiniteSet(H)
    BY EndpointAssumption, FS_Subset
  <2>2. K = H \cup {s} /\ s \notin H
    BY <1>2, <1>3, <1>4
  <2> HIDE DEF H, K
  <2> QED
    BY <1>3, <2>1, <2>2, FS_AddElement
<1> HIDE DEF c
<1>7. t \in State(c)
  <2>1. h3 \in State(c)
    BY <1>1, <1>4 DEF State
  <2> QED
    BY <1>4, <2>1 DEF State
<1>8. Aside(h3, t) /\ t.canaryToken = c
  BY <1>1 DEF Aside, State
<1> HIDE DEF t
<1>9. CanaryOK(c, t, pb)
  <2>1. pb \in [Selector -> -1..c]
    BY <1>3, <1>4
  <2>2. pb[s] = c
    BY <1>3
  <2> QED
    BY <1>6, <1>8, <2>1, <2>2 DEF CanaryOK
<1> HIDE DEF pb
<1>10. Inv(EpochAfter(t), c, degraded, t, req, pb, evidence) /\ EpochAfter(t) = h3Epoch
  BY <1>1, <1>2, <1>4, <1>7, <1>8, <1>9, AsideMoves
<1>11. IInv'
  BY <1>5, <1>10 DEF IInv
<1>12. EarnedStep
  BY <1>1, <1>5, <1>8 DEF EarnedStep, Earned, Aside
<1> QED
  BY <1>11, <1>12

LEMMA ReleaseStep ==
    ASSUME IInv, NEW s \in Selector, ReleaseBoostProbe(s)
    PROVE  IInv' /\ EarnedStep
<1> DEFINE k == IF h3.canaryToken = probe[s] THEN 0 ELSE h3.canaryToken
           t == [h3 EXCEPT !.canaryToken = k]
           pb == [probe EXCEPT ![s] = 0]
<1>1. /\ h3 \in State(canary) /\ canary \in Nat /\ degraded \in 0..MaxDegradations
      /\ CanaryOK(canary, h3, probe) /\ h3.failures \in Nat /\ h3.canaryToken \in 0..canary
  BY EndpointFacts DEF State
<1>2. probe \in [Selector -> -1..canary] /\ canary = Cardinality({x \in Selector : probe[x] # -1})
      /\ (h3.canaryToken # 0 => \E x \in Selector : probe[x] = h3.canaryToken)
      /\ probe[s] > 0
  BY <1>1 DEF CanaryOK, ReleaseBoostProbe
<1>3. h3' = t /\ probe' = pb /\ UNCHANGED <<h3Epoch, canary, req, degraded, evidence>>
  BY DEF ReleaseBoostProbe
<1>4. pb \in [Selector -> -1..canary] /\ \A x \in Selector : pb[x] = IF x = s THEN 0 ELSE probe[x]
  <2>1. 0 \in -1..canary
    BY <1>1
  <2> QED
    BY <1>2, <2>1
<1>5. {x \in Selector : pb[x] # -1} = {x \in Selector : probe[x] # -1}
  BY <1>2, <1>4
<1>6. k # 0 => k = h3.canaryToken /\ k # probe[s]
  OBVIOUS
<1>7. k # 0 => \E x \in Selector : pb[x] = k
  BY <1>2, <1>4, <1>6
<1>8. k \in 0..canary
  BY <1>1
<1> HIDE DEF k
<1>9. t \in State(canary)
  BY <1>1, <1>8 DEF State
<1>10. Aside(h3, t) /\ t.canaryToken = k
  BY <1>1 DEF Aside, State
<1> HIDE DEF t, pb
<1>11. CanaryOK(canary, t, pb)
  BY <1>2, <1>4, <1>5, <1>7, <1>10 DEF CanaryOK
<1>12. Inv(EpochAfter(t), canary, degraded, t, req, pb, evidence)
  <2>1. CASE h3.epoch # 0
    BY <1>1, <1>9, <1>10, <1>11, <2>1, AsideMoves
  <2>2. CASE h3.epoch = 0
    <3>1. h3 = NoState /\ h3.canaryToken = 0
      BY <2>2, EndpointFacts, Untouched DEF Window, Admission
    <3>2. t = h3
      BY <1>1, <1>6, <3>1 DEF t, State
    <3> QED
      BY <1>1, <1>9, <1>11, <3>2, EndpointFacts, EndpointMoves
  <2> QED
    BY <2>1, <2>2
<1>13. EpochAfter(t) = h3Epoch
  BY <1>10, EndpointFacts DEF EpochAfter, Aside
<1>14. IInv'
  BY <1>3, <1>12, <1>13 DEF IInv
<1>15. EarnedStep
  BY <1>1, <1>3, <1>10 DEF EarnedStep, Earned, Aside
<1> QED
  BY <1>14, <1>15

LEMMA NoteDegradationStep ==
    ASSUME IInv, NoteDegradation
    PROVE  IInv' /\ EarnedStep
<1> DEFINE n == h3Epoch + 1
           s0 == IF h3.epoch = 0 THEN [NoState EXCEPT !.epoch = n] ELSE h3
           i == IF s0.strikeLeft = 0 THEN 0 ELSE s0.strikes
           s1 == [s0 EXCEPT !.strikes = i]
           j == IF s1.strikes < 8 THEN s1.strikes + 1 ELSE s1.strikes
           s2 == [s1 EXCEPT !.active = TRUE, !.strikeLeft = StrikeWindow, !.strikes = j]
           s3 == StartDegradationFallback(s2)
           t == IF s0.active THEN s1
                ELSE IF \/ s2.strikes < 2 \/ s2.pending \/ s2.probing
                        \/ s2.failures > 0 /\ s2.retryIn > 0 THEN s2
                ELSE s3
           d == degraded + 1
           Opened(s) == /\ s \in State(canary) /\ Window(s) /\ s.canaryToken = h3.canaryToken
                        /\ s.failures = h3.failures
                        /\ \/ /\ s.epoch = h3.epoch /\ s.h3InFlight = h3.h3InFlight
                              /\ s.fallbackPending = h3.fallbackPending
                              /\ (s.fallbackReady => h3.fallbackReady)
                           \/ /\ s.epoch = n /\ s.h3InFlight = 0 /\ s.fallbackPending = 0
                              /\ ~s.fallbackReady
<1>1. /\ h3 \in State(canary) /\ canary \in Nat /\ degraded \in 0..MaxDegradations
      /\ CanaryOK(canary, h3, probe) /\ h3.failures \in Nat /\ h3Epoch \in Nat /\ Window(h3)
      /\ n \in Nat /\ n # 0
  BY EndpointFacts DEF State
<1>2. /\ SetState(t) /\ degraded' = d /\ d \in 0..MaxDegradations
      /\ UNCHANGED <<canary, req, probe, evidence>>
  BY <1>1, EndpointConstants DEF NoteDegradation
<1>3. Opened(s0) /\ s0.epoch # 0
  <2>1. CASE h3.epoch = 0
    <3>1. s0 = [NoState EXCEPT !.epoch = n] /\ h3 = NoState
      BY <1>1, <2>1 DEF Window, Admission
    <3>2. /\ NoState \in State(canary) /\ NoState.failures = 0 /\ ~NoState.probing
          /\ ~NoState.pending /\ NoState.fallbackPending = 0 /\ NoState.h3InFlight = 0
          /\ ~NoState.fallbackReady
      BY <1>1, NoStateFacts
    <3> HIDE DEF s0, n
    <3>3. s0 \in State(canary)
      BY <1>1, <3>1, <3>2 DEF State
    <3>4. /\ s0.epoch = n /\ s0.failures = 0 /\ ~s0.probing /\ ~s0.pending
          /\ s0.fallbackPending = 0 /\ s0.h3InFlight = 0 /\ ~s0.fallbackReady
          /\ s0.canaryToken = NoState.canaryToken
      BY <3>1, <3>2 DEF State
    <3>5. Window(s0)
      BY <1>1, <3>4 DEF Window, Admission, Attended
    <3> QED
      BY <1>1, <3>1, <3>2, <3>3, <3>4, <3>5
  <2>2. CASE h3.epoch # 0
    BY <1>1, <2>2
  <2> QED
    BY <2>1, <2>2
<1> HIDE DEF s0, n
<1>4. Opened(s1) /\ s1.epoch # 0
  <2>1. i \in 0..8
    BY <1>3 DEF State
  <2> HIDE DEF i
  <2>2. s1 \in State(canary)
    BY <1>3, <2>1 DEF State
  <2>3. Aside(s0, s1) /\ s1.canaryToken = s0.canaryToken
    BY <1>3 DEF Aside, State
  <2> HIDE DEF s1
  <2>4. Window(s1)
    BY <1>3, <2>3 DEF Window, Admission, Attended, Aside
  <2> QED
    BY <1>3, <2>2, <2>3, <2>4 DEF Aside
<1> HIDE DEF s1
<1>5. Opened(s2) /\ s2.epoch # 0
  <2>1. j \in 0..8 /\ StrikeWindow \in 0..StrikeWindow
    BY <1>4, EndpointConstants DEF State
  <2> HIDE DEF j
  <2>2. s2 \in State(canary)
    BY <1>4, <2>1 DEF State
  <2>3. Aside(s1, s2) /\ s2.canaryToken = s1.canaryToken
    BY <1>4 DEF Aside, State
  <2> HIDE DEF s2
  <2>4. Window(s2)
    BY <1>4, <2>3 DEF Window, Admission, Attended, Aside
  <2> QED
    BY <1>4, <2>2, <2>3, <2>4 DEF Aside
<1> HIDE DEF s2
<1>6. Opened(s3)
  <2>1. s3 \in State(canary) /\ Closed(s3) /\ s3.pending /\ s3.pendingCause = "degradation"
        /\ s3.failures = s2.failures /\ s3.canaryToken = s2.canaryToken
    BY <1>1, <1>5, StartFacts
  <2>2. Window(s3)
    BY <1>1, <2>1, ClosedWindow
  <2> HIDE DEF s3
  <2> QED
    BY <1>5, <2>1, <2>2 DEF Closed, n
<1> HIDE DEF s3
<1>7. Opened(t)
  BY <1>4, <1>5, <1>6
<1> HIDE DEF t, d
<1>8. CanaryOK(canary, t, probe)
  BY <1>1, <1>7 DEF CanaryOK
<1>9. Inv(EpochAfter(t), canary, d, t, req, probe, evidence)
  BY <1>1, <1>2, <1>7, <1>8, EndpointMoves DEF n
<1>10. h3' = t /\ h3Epoch' = EpochAfter(t)
  BY <1>2 DEF SetState, EpochAfter
<1>11. IInv'
  BY <1>2, <1>9, <1>10 DEF IInv
<1>12. EarnedStep
  BY <1>1, <1>7, <1>10 DEF EarnedStep, Earned
<1> QED
  BY <1>11, <1>12

-----------------------------------------------------------------------------
(* The specification. *)

LEMMA InitOK == Init => IInv
<1> SUFFICES ASSUME Init
             PROVE  IInv
  OBVIOUS
<1>1. /\ h3 = NoState /\ h3Epoch = 0 /\ canary = 0 /\ degraded = 0 /\ evidence = {}
      /\ req = [r \in Request |-> NewRequest] /\ probe = [s \in Selector |-> -1]
  BY DEF Init
<1>2. StateOK(0, 0, NoState)
  <2>1. NoState \in State(0) /\ NoState.epoch = 0 /\ NoState.failures = 0 /\ ~NoState.probing
        /\ ~NoState.pending /\ ~NoState.fallbackReady
    BY NoStateFacts
  <2> QED
    BY <2>1 DEF StateOK, Window, Admission, Attended
<1>3. ReqOK(0, req)
  <2>1. NewRequest \in Req(0)
    <3>1. 0 \in 0..0 /\ 1 \in 1..2 /\ <<>> \in {<<>>} \cup [1..1 -> Failure] \cup [1..2 -> Failure]
      OBVIOUS
    <3> QED
      BY <3>1 DEF NewRequest, Req
  <2>2. /\ NewRequest.pc = "loop" /\ NewRequest.index = 1 /\ NewRequest.token = 0
        /\ NewRequest.pending = 0 /\ NewRequest.joined = 0 /\ NewRequest.failures = <<>>
    BY DEF NewRequest
  <2>3. \A r \in Request : Place(r, NewRequest)
    <3> TAKE r \in Request
    <3>1. 1 <= Len(Protocols[r])
      BY Plans
    <3>2. <<>> \in Failures(1 - 1)
      BY DEF Failures
    <3> QED
      BY <2>2, <3>1, <3>2 DEF Place
  <2> QED
    BY <1>1, <2>1, <2>3 DEF ReqOK
<1>4. Exact(NoState, req)
  BY DEF Exact, NoState
<1>5. CanaryOK(0, NoState, probe)
  <2>1. {x \in Selector : probe[x] # -1} = {} /\ probe \in [Selector -> -1..0]
    BY <1>1
  <2>2. NoState.canaryToken = 0
    BY DEF NoState
  <2> QED
    BY <2>1, <2>2, FS_EmptySet DEF CanaryOK
<1>6. EvidenceOK(0, NoState, {})
  BY DEF EvidenceOK, NoState
<1> QED
  BY <1>1, <1>2, <1>3, <1>4, <1>5, <1>6, EndpointConstants DEF IInv, Inv

LEMMA StepOK == IInv /\ [Next]_vars => IInv' /\ EarnedStep
<1> SUFFICES ASSUME IInv, [Next]_vars
             PROVE  IInv' /\ EarnedStep
  OBVIOUS
<1>1. ASSUME NEW r \in Request, RequestStep(r)
      PROVE  IInv' /\ EarnedStep
  BY <1>1, NextProtocolStep, LoopStopsStep, AdmittedDialStep, PlainDialStep, ReturnStep
     DEF RequestStep
<1>2. ASSUME NEW r \in Request, CallerGone(r)
      PROVE  IInv' /\ EarnedStep
  BY <1>2, CallerGoneStep
<1>3. ASSUME NEW s \in Selector, ClaimBoostProbe(s)
      PROVE  IInv' /\ EarnedStep
  BY <1>3, ClaimStep
<1>4. ASSUME NEW s \in Selector, ReleaseBoostProbe(s)
      PROVE  IInv' /\ EarnedStep
  BY <1>4, ReleaseStep
<1>5. CASE NoteDegradation
  BY <1>5, NoteDegradationStep
<1>6. CASE NoteRecovery
  BY <1>6, NoteRecoveryStep
<1>7. CASE RoutePenalty
  BY <1>7, RoutePenaltyStep
<1>8. CASE Tick
  BY <1>8, TickStep
<1>9. CASE UNCHANGED vars
  <2>1. h3.failures \in Nat
    BY EndpointFacts DEF State
  <2> QED
    BY <1>9, <2>1 DEF vars, IInv, EarnedStep, Earned
<1> QED
  BY <1>1, <1>2, <1>3, <1>4, <1>5, <1>6, <1>7, <1>8, <1>9 DEF Next

LEMMA Invariance == Spec => []IInv
<1>1. Init => IInv
  BY InitOK
<1>2. IInv /\ [Next]_vars => IInv'
  BY StepOK
<1> QED
  BY <1>1, <1>2, PTL DEF Spec

LEMMA SetsAgree ==
    ASSUME NEW e
    PROVE  Attempts(e) = AttemptsIn(req, e) /\ Waiting(e) = WaitingIn(req, e)
BY DEF Attempts, AttemptsIn, Waiting, WaitingIn

LEMMA Exactness == IInv => WindowExact
<1> SUFFICES ASSUME IInv
             PROVE  WindowExact
  OBVIOUS
<1>1. /\ h3Epoch \in Nat /\ canary \in Nat /\ degraded \in 0..MaxDegradations
      /\ h3 \in State(canary) /\ Window(h3) /\ h3.epoch \in 0..h3Epoch
      /\ CanaryOK(canary, h3, probe) /\ EvidenceOK(h3Epoch, h3, evidence)
      /\ ReqOK(h3Epoch, req) /\ Exact(h3, req)
  BY DEF IInv, Inv, StateOK
<1>2. h3.epoch # 0 => /\ h3.h3InFlight = Cardinality(Attempts(h3.epoch))
                      /\ h3.fallbackPending = Cardinality(Waiting(h3.epoch))
  BY <1>1, SetsAgree DEF Exact
<1>3. h3.canaryToken # 0 => \E s \in Selector : probe[s] = h3.canaryToken
  BY <1>1 DEF CanaryOK
<1>4. h3.h3InFlight \in 0..Cardinality(Request) /\ h3.fallbackPending \in 0..Cardinality(Request)
  <2>1. CASE h3.epoch # 0
    <3>1. /\ Cardinality(Attempts(h3.epoch)) \in 0..Cardinality(Request)
          /\ Cardinality(Waiting(h3.epoch)) \in 0..Cardinality(Request)
      BY RequestsFinite DEF Attempts, Waiting
    <3> QED
      BY <1>2, <2>1, <3>1
  <2>2. CASE h3.epoch = 0
    <3>1. h3.h3InFlight = 0 /\ h3.fallbackPending = 0
      BY <1>1, <2>2, NoStateFacts DEF Window, Admission
    <3>2. Cardinality(Request) \in Nat
      BY EndpointAssumption, FS_CardinalityType
    <3> QED
      BY <3>1, <3>2
  <2> QED
    BY <2>1, <2>2
<1>5. canary \in 0..Cardinality(Selector)
  <2> DEFINE H == {x \in Selector : probe[x] # -1}
  <2>1. canary = Cardinality(H)
    BY <1>1 DEF CanaryOK
  <2>2. IsFiniteSet(Selector) /\ H \subseteq Selector
    BY EndpointAssumption
  <2> HIDE DEF H
  <2>3. Cardinality(H) <= Cardinality(Selector) /\ Cardinality(Selector) \in Nat
    BY <2>2, FS_Subset, FS_CardinalityType
  <2> QED
    BY <1>1, <2>1, <2>3
<1>6. h3 \in [epoch : Epoch, failures : Nat, retryIn : 0..(CooldownMax + DegradedMax),
               probing : BOOLEAN, pending : BOOLEAN,
               h3InFlight : 0..Cardinality(Request), fallbackPending : 0..Cardinality(Request),
               fallbackReady : BOOLEAN, pendingCause : {"none", "transport", "degradation"},
               cooldownCause : {"none", "transport", "degradation"}, strikes : 0..8,
               strikeLeft : 0..StrikeWindow, active : BOOLEAN,
               degRetryIn : {Off} \cup 0..CooldownBase,
               canaryLeft : 0..CanaryInterval, canaryToken : 0..canary]
  BY <1>1, <1>4 DEF State, Cause, Epoch
<1>7. req \in [Request -> [pc : {"loop", "dial", "return", "done"}, index : 1..2,
                            ctx : {"live", "canceled", "transport"}, token : Epoch,
                            managed : BOOLEAN, pending : Epoch, joined : Epoch,
                            reachable : BOOLEAN,
                            failures : {<<>>} \cup [1..1 -> Failure] \cup [1..2 -> Failure],
                            tunnel : BOOLEAN]]
  BY <1>1 DEF ReqOK, Req, Epoch
<1>8. probe \in [Selector -> -1..canary] /\ evidence \subseteq Epoch
  BY <1>1 DEF CanaryOK, EvidenceOK, Epoch
<1>9. TypeOK
  BY <1>1, <1>5, <1>6, <1>7, <1>8 DEF TypeOK
<1> QED
  BY <1>2, <1>3, <1>9 DEF WindowExact

LEMMA SingleProbe == IInv => OneProbe
<1> SUFFICES ASSUME IInv, h3.failures > 0
             PROVE  Cardinality(Attempts(h3.epoch)) = IF h3.probing THEN 1 ELSE 0
  BY DEF OneProbe
<1>1. Window(h3)
  BY EndpointFacts
<1>2. h3.epoch # 0
  BY <1>1, NoStateFacts DEF Window, Admission
<1> QED
  BY <1>1, <1>2, Exactness DEF WindowExact, Window, Admission

LEMMA AttendedWindow == IInv => WindowNotOrphaned
<1> SUFFICES ASSUME IInv
             PROVE  WindowNotOrphaned
  OBVIOUS
<1>1. Window(h3) /\ (h3.epoch = 0 => ~h3.pending /\ ~h3.fallbackReady)
  BY EndpointFacts, NoStateFacts DEF Window, Admission
<1>2. h3.epoch # 0 => /\ h3.h3InFlight = Cardinality(Attempts(h3.epoch))
                      /\ h3.fallbackPending = Cardinality(Waiting(h3.epoch))
  BY Exactness DEF WindowExact
<1>3. /\ h3.epoch # 0 /\ h3.h3InFlight > 0 => Attempts(h3.epoch) # {}
      /\ h3.epoch # 0 /\ h3.fallbackPending > 0 => Waiting(h3.epoch) # {}
  BY <1>2, FS_EmptySet
<1> QED
  BY <1>1, <1>3 DEF WindowNotOrphaned, Window, Attended

\* The counters of the failure window count the requests of its epoch exactly,
\* although every result, reset and degradation in between may have closed the
\* window they were counted in, and a reserved canary has a holder
\* (beginHTTP3Attempt, markHTTP3FailurePending, claimHTTP3BoostProbe).
THEOREM WindowsAreExact == Spec => []WindowExact
BY Invariance, Exactness, PTL

\* While HTTP/3 is suppressed at the endpoint at most the half-open probe tries it.
THEOREM ProbesAreSingle == Spec => []OneProbe
BY Invariance, SingleProbe, PTL

\* A failure window that is open has a request whose report is due, or was opened
\* by a degradation; HTTP/2 evidence never outlives the last HTTP/3 attempt.
THEOREM WindowsAreAttended == Spec => []WindowNotOrphaned
BY Invariance, AttendedWindow, PTL

\* commitHTTP3CooldownLocked runs only on a reachable fallback of the same epoch
\* and after the epoch's last HTTP/3 attempt.
THEOREM CooldownsAreEarned == Spec => CooldownEarned
<1>1. IInv /\ [Next]_vars =>
        [h3'.failures > h3.failures =>
          /\ h3.epoch \in evidence'
          /\ \A r \in Request : req'[r].token # h3.epoch]_vars
  BY StepOK DEF EarnedStep, Earned
<1> QED
  BY <1>1, Invariance, PTL DEF Spec, CooldownEarned
=============================================================================
