---------------------------- MODULE OutboundDial ----------------------------
(***************************************************************************)
(* One upstream address of one rule with prewarming: the pool of idle      *)
(* connections and its reconciler (controller/prewarm.go), and the clients *)
(* that reach the address through outboundDialRouteWithOptions, which ties *)
(* the pool, the dial bulkhead, active health and the circuit breaker      *)
(* together.  A client holds no lock between its steps: health, circuit    *)
(* and pool may change after it looked at them.  The dial bulkhead appears *)
(* only as the number of permits in use; module DialBulkhead has its       *)
(* queue.                                                                  *)
(***************************************************************************)
EXTENDS RouteBreaker, Integers, FiniteSets

CONSTANTS
    Worker,         \* slots of prewarmManager.dialSem, one per dialOne goroutine
    Desired,        \* pool.desired
    MaxConcurrent,  \* prewarmMaxConcurrentDial
    RetryMin,       \* prewarmRetryMin
    RetryMax,       \* prewarmRetryMax
    PermitLimit     \* what the bulkhead admits for this address

ASSUME PoolAssumption ==
    /\ IsFiniteSet(Client) /\ IsFiniteSet(Worker)
    /\ {Desired, MaxConcurrent, RetryMin} \subseteq Nat \ {0}
    /\ RetryMax \in Nat /\ RetryMin <= RetryMax
    /\ PermitLimit \in Nat /\ MaxAttempts \in Nat

VARIABLES
    circuit,      \* the registry's state for the address
    unhealthy,    \* what active health says of the address
    permits,      \* dial permits in use
    idle,         \* len(pool.idle)
    warming,      \* pool.warming
    backoff,      \* prewarmBackoff(pool.failures), 0 without failures
    retry,        \* what remains until pool.nextRetry
    stopped,      \* pool.stopped, with its context cancelled
    worker,       \* the dialOne goroutines
    client        \* how far each client's dial has got

pool == <<idle, warming, backoff, retry, stopped>>
vars == <<circuit, nextAttempt, unhealthy, permits, pool, worker, client, id>>

WorkerStates == {"off", "launched", "checked", "dialing", "connected", "failed", "exiting"}
ClientStates == {"idle", "reusing", "pooled", "admitting", "permitted", "rechecked",
                 "dialing", "probing", "relaying"}

TypeOK ==
    /\ circuit \in RouteState
    /\ nextAttempt \in 0..MaxAttempts
    /\ unhealthy \in BOOLEAN
    /\ permits \in 0..PermitLimit
    /\ idle \in 0..Desired
    /\ warming \in 0..MaxConcurrent
    /\ backoff \in 0..RetryMax
    /\ retry \in 0..backoff
    /\ stopped \in BOOLEAN
    /\ worker \in [Worker -> WorkerStates]
    /\ client \in [Client -> ClientStates]
    /\ id \in [Client \cup Worker -> 0..MaxAttempts]

Init ==
    /\ circuit = NewState
    /\ nextAttempt = 0
    /\ unhealthy = FALSE
    /\ permits = 0
    /\ idle = 0 /\ warming = 0
    /\ backoff = 0 /\ retry = 0
    /\ stopped = FALSE
    /\ worker = [w \in Worker |-> "off"]
    /\ client = [c \in Client |-> "idle"]
    /\ id = [x \in Client \cup Worker |-> 0]

Go(c, st) == client' = [client EXCEPT ![c] = st]
Become(w, st) == worker' = [worker EXCEPT ![w] = st]

\* registry.begin for x, when it is not refused
BeginAttempt(x) ==
    /\ nextAttempt' = nextAttempt + 1
    /\ id' = [id EXCEPT ![x] = nextAttempt + 1]
    /\ circuit' = AfterBegin(circuit, nextAttempt + 1)

EndAttempt(x) == id' = [id EXCEPT ![x] = 0]

\* The attempts that may still be started within MaxAttempts: a client or a
\* worker on its way to begin has reserved one.
Budget ==
    MaxAttempts - nextAttempt
      - Cardinality({c \in Client : client[c] \in {"reusing", "pooled", "admitting",
                                                  "permitted", "rechecked"}})
      - Cardinality({w \in Worker : worker[w] \in {"launched", "checked"}})

-----------------------------------------------------------------------------
\* outboundDialRouteWithOptions

\* The unhealthy check and the snapshot that decides about the pool; an
\* unhealthy address is refused at once.
Snapshot(c) ==
    /\ client[c] = "idle"
    /\ Budget > 0
    /\ ~unhealthy
    /\ Go(c, IF ProbeRequired(circuit) THEN "admitting" ELSE "reusing")
    /\ UNCHANGED <<circuit, nextAttempt, unhealthy, permits, pool, worker, id>>

\* prewarmManager.acquire: expired entries go, then entries are popped from
\* the young end until one is still reusable.  A caller whose context is done
\* closes what it got.
AcquirePooled(c) ==
    /\ client[c] = "reusing"
    /\ \E kept \in 0..idle :
         /\ idle' = kept
         /\ \/ kept < idle /\ Go(c, "pooled")
            \/ kept < idle /\ Go(c, "idle")
            \/ kept = 0 /\ Go(c, "admitting")
    /\ UNCHANGED <<circuit, nextAttempt, unhealthy, permits, warming, backoff, retry,
                   stopped, worker, id>>

\* acquireTrafficDial or tryAcquireTrafficDial
PermitGranted(c) ==
    /\ client[c] = "admitting"
    /\ permits < PermitLimit
    /\ permits' = permits + 1
    /\ Go(c, "permitted")
    /\ UNCHANGED <<circuit, nextAttempt, unhealthy, pool, worker, id>>

PermitRefused(c) ==
    /\ client[c] = "admitting"
    /\ Go(c, "idle")
    /\ UNCHANGED <<circuit, nextAttempt, unhealthy, permits, pool, worker, id>>

\* Health may have changed while the request waited for its permit.
Recheck(c) ==
    /\ client[c] = "permitted"
    /\ Go(c, IF unhealthy THEN "idle" ELSE "rechecked")
    /\ permits' = IF unhealthy THEN permits - 1 ELSE permits
    /\ UNCHANGED <<circuit, nextAttempt, unhealthy, pool, worker, id>>

\* A refused begin that keeps the permit.
MutBeginFreshRefused(c) ==
    /\ client[c] = "rechecked"
    /\ BeginRefused(circuit)
    /\ Go(c, "idle")
    /\ UNCHANGED <<circuit, nextAttempt, unhealthy, permits, pool, worker, id>>

BeginFreshRefused(c) ==
    /\ client[c] = "rechecked"
    /\ BeginRefused(circuit)
    /\ permits' = permits - 1
    /\ Go(c, "idle")
    /\ UNCHANGED <<circuit, nextAttempt, unhealthy, pool, worker, id>>

BeginFresh(c) ==
    /\ client[c] = "rechecked"
    /\ ~BeginRefused(circuit)
    /\ BeginAttempt(c)
    /\ Go(c, IF circuit.circuitOpen THEN "probing" ELSE "dialing")
    /\ UNCHANGED <<unhealthy, permits, pool, worker>>

\* The pooled connection is closed when begin refuses.
BeginPooledRefused(c) ==
    /\ client[c] = "pooled"
    /\ BeginRefused(circuit)
    /\ Go(c, "idle")
    /\ UNCHANGED <<circuit, nextAttempt, unhealthy, permits, pool, worker, id>>

\* Otherwise it is returned without a routeObserve of its attempt.
BeginPooled(c) ==
    /\ client[c] = "pooled"
    /\ ~BeginRefused(circuit)
    /\ BeginAttempt(c)
    /\ Go(c, "relaying")
    /\ UNCHANGED <<unhealthy, permits, pool, worker>>

\* The dial ends: its permit is released and its outcome observed.
DialDone(c) ==
    /\ client[c] \in {"dialing", "probing"}
    /\ permits' = permits - 1
    /\ \/ /\ circuit' = AfterSuccess(circuit, id[c])
          /\ Go(c, "relaying")
          /\ UNCHANGED id
       \/ /\ circuit' \in {AfterNeutral(circuit, id[c]), AfterReachable(circuit, id[c]),
                           AfterFailure(circuit, id[c])}
          /\ Go(c, "idle")
          /\ EndAttempt(c)
    /\ UNCHANGED <<nextAttempt, unhealthy, pool, worker>>

\* The relay ends with a report of failure or success, or with none.
RelayDone(c) ==
    /\ client[c] = "relaying"
    /\ circuit' \in {circuit, AfterReportFailure(circuit, id[c]),
                     AfterReportSuccess(circuit, id[c])}
    /\ Go(c, "idle")
    /\ EndAttempt(c)
    /\ UNCHANGED <<nextAttempt, unhealthy, permits, pool, worker>>

-----------------------------------------------------------------------------
\* The pool

routeUnavailable == unhealthy \/ circuit.circuitOpen

Off == {w \in Worker : worker[w] = "off"}

Least(S) == CHOOSE x \in S : \A y \in S : x <= y
Minus(m, n) == IF m > n THEN m - n ELSE 0

\* need forgets the dials in progress
MutNeed(kept) ==
    IF routeUnavailable \/ retry > 0 THEN 0
    ELSE Least({Minus(Desired, kept), Minus(MaxConcurrent, warming), Cardinality(Off),
                Budget})

\* How many dials reconcile starts: what the pool lacks, within the pool's
\* concurrency and the free slots of dialSem.
Need(kept) ==
    IF routeUnavailable \/ retry > 0 THEN 0
    ELSE Least({Minus(Desired, kept + warming), Minus(MaxConcurrent, warming),
                Cardinality(Off), Budget})

\* reconcile closes every idle connection of an unavailable route
AfterDrain(kept) == IF routeUnavailable THEN 0 ELSE kept

\* A reconcile that goes on after stop.
MutReconcile ==
    \E kept \in 0..idle :
         LET need == Need(AfterDrain(kept)) IN
         /\ idle' = AfterDrain(kept)
         /\ warming' = warming + need
         /\ \E W \in SUBSET Off :
              /\ Cardinality(W) = need
              /\ worker' = [w \in Worker |-> IF w \in W THEN "launched" ELSE worker[w]]
         /\ UNCHANGED <<circuit, nextAttempt, unhealthy, permits, backoff, retry, stopped,
                        client, id>>

\* One round of maintain, on a wake or on the ticker: entries past their TTL
\* go, an unavailable route drains the pool, and missing connections are
\* dialled.
Reconcile ==
    /\ ~stopped
    /\ \E kept \in 0..idle :
         LET need == Need(AfterDrain(kept)) IN
         /\ idle' = AfterDrain(kept)
         /\ warming' = warming + need
         /\ \E W \in SUBSET Off :
              /\ Cardinality(W) = need
              /\ worker' = [w \in Worker |-> IF w \in W THEN "launched" ELSE worker[w]]
    /\ UNCHANGED <<circuit, nextAttempt, unhealthy, permits, backoff, retry, stopped,
                   client, id>>

\* dialOne skips a route that became unavailable since reconcile.
WorkerSkips(w) ==
    /\ worker[w] = "launched"
    /\ routeUnavailable
    /\ warming' = warming - 1
    /\ Become(w, "exiting")
    /\ UNCHANGED <<circuit, nextAttempt, unhealthy, permits, idle, backoff, retry, stopped,
                   client, id>>

WorkerChecks(w) ==
    /\ worker[w] = "launched"
    /\ ~routeUnavailable
    /\ Become(w, "checked")
    /\ UNCHANGED <<circuit, nextAttempt, unhealthy, permits, pool, client, id>>

\* begin compares openUntil with the time at which the snapshot was taken.  A
\* circuit that opened since then has openUntil after that time, so that a
\* worker is refused however much time has passed.
WorkerRefused(w) ==
    /\ worker[w] = "checked"
    /\ circuit.circuitOpen
    /\ warming' = warming - 1
    /\ Become(w, "exiting")
    /\ UNCHANGED <<circuit, nextAttempt, unhealthy, permits, idle, backoff, retry, stopped,
                   client, id>>

WorkerBegins(w) ==
    /\ worker[w] = "checked"
    /\ ~circuit.circuitOpen
    /\ BeginAttempt(w)
    /\ Become(w, "dialing")
    /\ UNCHANGED <<unhealthy, permits, pool, client>>

\* The dial ends and its outcome is observed; a stopped pool cancels it.
WorkerObserves(w) ==
    /\ worker[w] = "dialing"
    /\ \/ circuit' = AfterSuccess(circuit, id[w]) /\ Become(w, "connected")
       \/ circuit' = AfterFailure(circuit, id[w]) /\ Become(w, "failed")
       \/ stopped /\ circuit' = AfterNeutral(circuit, id[w]) /\ Become(w, "failed")
    /\ EndAttempt(w)
    /\ UNCHANGED <<nextAttempt, unhealthy, permits, pool, client>>

\* prewarmBackoff(failures), from its value for one failure less
prewarmBackoff(previous) ==
    IF previous = 0 THEN RetryMin ELSE Least({2 * previous, RetryMax})

WorkerFails(w) ==
    /\ worker[w] = "failed"
    /\ warming' = warming - 1
    /\ backoff' = IF stopped THEN backoff ELSE prewarmBackoff(backoff)
    /\ retry' = IF stopped THEN retry ELSE prewarmBackoff(backoff)
    /\ Become(w, "exiting")
    /\ UNCHANGED <<circuit, nextAttempt, unhealthy, permits, idle, stopped, client, id>>

WorkerKeeps(w) ==
    /\ worker[w] = "connected"
    /\ ~stopped
    /\ warming' = warming - 1
    /\ idle' = IF idle >= Desired THEN idle ELSE idle + 1
    /\ backoff' = 0 /\ retry' = 0
    /\ Become(w, "exiting")
    /\ UNCHANGED <<circuit, nextAttempt, unhealthy, permits, stopped, client, id>>

WorkerCloses(w) ==
    /\ worker[w] = "connected"
    /\ stopped
    /\ warming' = warming - 1
    /\ Become(w, "exiting")
    /\ UNCHANGED <<circuit, nextAttempt, unhealthy, permits, idle, backoff, retry, stopped,
                   client, id>>

\* The deferred receive from dialSem.
WorkerExits(w) ==
    /\ worker[w] = "exiting"
    /\ Become(w, "off")
    /\ UNCHANGED <<circuit, nextAttempt, unhealthy, permits, pool, client, id>>

\* shutdown, when the generation retires: beginStop closes the idle
\* connections and cancels the dials, then the workers are waited for.
BeginStop ==
    /\ ~stopped
    /\ stopped' = TRUE
    /\ idle' = 0
    /\ UNCHANGED <<circuit, nextAttempt, unhealthy, permits, warming, backoff, retry,
                   worker, client, id>>

\* Active health changes its verdict.
HealthChanges ==
    /\ unhealthy' = ~unhealthy
    /\ UNCHANGED <<circuit, nextAttempt, permits, pool, worker, client, id>>

Tick ==
    /\ circuit.left > 0 \/ retry > 0
    /\ circuit' = AfterTick(circuit)
    /\ retry' = Minus(retry, 1)
    /\ UNCHANGED <<nextAttempt, unhealthy, permits, idle, warming, backoff, stopped,
                   worker, client, id>>

ClientStep(c) ==
    \/ Snapshot(c) \/ AcquirePooled(c) \/ PermitGranted(c) \/ PermitRefused(c)
    \/ Recheck(c) \/ BeginFreshRefused(c) \/ BeginFresh(c)
    \/ BeginPooledRefused(c) \/ BeginPooled(c) \/ DialDone(c) \/ RelayDone(c)

WorkerStep(w) ==
    \/ WorkerSkips(w) \/ WorkerChecks(w) \/ WorkerRefused(w) \/ WorkerBegins(w)
    \/ WorkerObserves(w) \/ WorkerFails(w) \/ WorkerKeeps(w) \/ WorkerCloses(w)
    \/ WorkerExits(w)

Next ==
    \/ \E c \in Client : ClientStep(c)
    \/ \E w \in Worker : WorkerStep(w)
    \/ Reconcile
    \/ BeginStop
    \/ HealthChanges
    \/ Tick

Spec == Init /\ [][Next]_vars

\* maintain's ticker keeps reconcile running, and a dialOne goroutine runs to
\* its end because its dial has a timeout.
FairSpec == Spec /\ WF_vars(Reconcile) /\ \A w \in Worker : WF_vars(WorkerStep(w))

-----------------------------------------------------------------------------
InProgress == {w \in Worker : worker[w] \notin {"off", "exiting"}}

\* The pool never over-provisions: idle connections and those being dialled
\* together stay within desired although dials finish, fail and are skipped
\* while clients take connections out, and warming counts exactly the dials
\* in progress.  beginStop is final: no dial that was already past its checks
\* puts a connection into a pool that will never be drained again.
PoolBounded ==
    /\ TypeOK
    /\ idle + warming <= Desired
    /\ warming = Cardinality(InProgress)
    /\ stopped => idle = 0

\* Whatever way a dial ends, its bulkhead permit is given back exactly once.
PermitsBalanced ==
    permits = Cardinality({c \in Client :
                 client[c] \in {"permitted", "rechecked", "dialing", "probing"}})

\* shutdown's wait ends: the workers of a stopped pool all exit and no new
\* ones are started.
ShutdownDrains == stopped ~> [](\A w \in Worker : worker[w] = "off")

\* The comment in outboundDialRouteWithOptions: a half-open route proves
\* itself with a fresh TCP handshake, so whoever holds the half-open slot is
\* dialling.
ProbeIsFreshDial == circuit.halfOpen => \E c \in Client : client[c] = "probing"

=============================================================================
