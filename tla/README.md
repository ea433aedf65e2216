# Moto: TLA+ models and proofs

Moto is a TCP gateway in Go. It listens on the addresses of its rules, admits
connections against quotas, picks an upstream target (by order, round robin,
content or a "boost" race), dials it directly or through an HTTP/2 or HTTP/3
CONNECT proxy, and relays bytes. Configuration reloads replace the routing state
while connections go on. This directory models the concurrent core of it:
`*.tla` are the models, `*.cfg` (and `MC*.tla` where an instance needs symmetry
or a function for a constant) the instances TLC checks, `*Proofs.tla` the theorems
TLAPS checks, and `PROJECT.json` maps definitions to source lines and lists runs,
mutants, hazards, findings and theorems.

## Inventory

All paths are under `src/controller/` unless they say otherwise.

| component | state | operations | what is hard |
|---|---|---|---|
| dial bulkhead (`dial_bulkhead.go`) | counters of dials in progress, in total and per target; a list of waiters | `acquire`, `tryAcquire`, `cancelWaiter`, `grantWaitersLocked`, `release` | a grant races with the waiter's timer and context; a slot may be lost or a waiter stranded |
| circuit breaker (`route_health.go`) | per rule and address: failure streaks, cooldown, half-open owner, fence of valid attempts | `begin`, `routeObserve`, `routeReportFailure/Success`, `inheritUnchangedState` | outcomes arrive late and out of order across openings, probes, recoveries and reloads |
| outbound dial and prewarm pool (`prewarm.go`) | idle connections, dials in progress, retry time | `reconcile`, `dialOne`, `acquire`, `shutdown`, `outboundDialRouteWithOptions` | health, circuit and pool are looked at without a common lock |
| server and generations (`server.go`, `server_reload.go`, `generation.go`) | current and retired generations with their leases, listeners, quota records | accept loop, handler, `ReloadRules`, watchers of retired generations, `Close` | leases race with retirement, records are shared by listeners that come and go |
| boost winner cache (`boost.go`) | winner per rule with a generation, decision states | load, begin, publish, replace, delete, release, lazy refresh | races end long after they looked at the cache |
| HTTP/2 pool and transports (`connect_proxy_h2*.go`) | transports with leases, connections, a shared dial, idle checks | `GetClientConn`, `dial`, `MarkDead`, `closeIdleConnections`, `acquire/releaseTransport`, `retire` | shared dials that are cancelled, connections that die before they are added, idle closing |
| boost races (`boost.go`) | one decision: candidates launched, results, hedge timer, leases it claimed | fresh race, cached race, fallback, hedging, lazy refresh | losers deliver after the winner; refused attempts give their place back; local saturation versus route failure |
| route selection (`route_health.go`) | latency averages, exploration and recovery claims | ordering, exploration, claims | one claim among many requests |
| active health (`active_health.go`) | per rule and target: streaks, verdict | probes on a schedule | thresholds, reload inheritance |
| proxy endpoint (`connect_proxy.go`, `connect_proxy_policy.go`) | per endpoint: failure window with its epoch and counters, cooldown, strikes, canary lease | `dialForRule`, `beginHTTP3Attempt`, `markHTTP3FailurePending`, `observeHTTP3Attempt`, `noteHTTP3Degradation`, `claimHTTP3BoostProbe` | outcomes of one window arrive after it was closed, and each path must report once |
| HTTP/3 rule breaker (`connect_proxy_h3_rule_breaker.go`, `_blackhole.go`) | phase, cooldown, tokens of evaluation, probation and route lease, black holes under evaluation | `beginWithLease`, `observeValidation`, `noteDegradation`, `noteSample`, the black-hole worker | phases decided by several goroutines, decisions taken in several critical sections |
| HTTP/3 transport lifecycle (`connect_proxy_h3*.go`) | transport slots, candidates, tunnels, drain state | rotation, promotion, drain, black-hole detection, close | streams on transports that are being replaced |
| round robin, normal, direct | a cursor | pick and fall back | little |
| content routing (`regex.go`, `tls_*.go`) | buffer of one connection | incremental parsing | byte level |
| inbound proxies (`socks5.go`, `http_connect.go`) | handshake of one connection | parse, reply once | byte level |
| PROXY protocol, relay | header, two copy loops | encode, parse; half-close | byte level |
| configuration (`src/config`) | none | decode, validate | none |
| metrics, logging, process start | counters | observe | none |

Interactions: the server's accept loop leases a generation, which owns a routing
runtime with breaker, health, winner cache, prewarm pools, bulkhead and proxy
manager. A handler asks the selection (or the winner cache) for targets and dials
them through `outboundDialRouteWithOptions`, which consults health, breaker, pool
and bulkhead in turn and reports to the breaker; its relay reports once more. A
reload builds the next runtime, copies breaker, health and winners into it,
publishes it, and retires the old one, which stops prewarming and health checks
and retires the HTTP/2 and HTTP/3 managers.

What makes each component correct is stated as its properties below; what could
go wrong, line by line, is the list of hazards in `PROJECT.json`.

## Modules

| module | models | composed from |
|---|---|---|
| `DialBulkhead` | the bulkhead | |
| `RouteBreaker` | operators on one `routeHealthState`, and the attempt numbers its users share | |
| `RouteHealth` | the breaker registry with clients, relays and reloads | `RouteBreaker` |
| `OutboundDial` | one address with prewarm pool, breaker, health verdict and permits | `RouteBreaker` |
| `ServerReload` | server, generations, reloads, quotas | |
| `BoostWinner` | the winner cache with its users | |
| `RaceOutcome` | abstract: what a routing decision promises its handler | |
| `BoostRace` | one decision: cached, fresh, lazy or sequential | implements `RaceOutcome` |
| `H2Pool` | HTTP/2 manager and pool of one endpoint key | |
| `ProxyEndpoint` | requests to one endpoint, HTTP/3 first with HTTP/2 fallback | |
| `H3RuleBreaker` | the HTTP/3 breaker of one rule and its black-hole worker | |
| `H3Transports` | the QUIC transports of one endpoint | |
| `DialPathProofs` | theorems about `OutboundDial`, `DialBulkhead` and `RouteHealth` | these three |
| `ServerReloadProofs`, `BoostWinnerProofs`, `BoostRaceProofs`, `H2PoolProofs`, `ProxyEndpointProofs`, `H3RuleBreakerProofs`, `H3TransportsProofs` | theorems about the module of that name | that module |

In each of them one action is one critical section of the code's locks (or one
step of a goroutine between two of them), named after the function when it is the
whole function. Time is counted in abstract ticks: a variable holds what remains
until a deadline, and `Tick` decrements it. A connection, address or payload is a
model value.

### DialBulkhead

`acquire` is split where the lock is released: `Admit`/`Enqueue`, the three cases
of `select` (`SelectReady`, `SelectDone`, `SelectTimer`) and `cancelWaiter`. The
list of waiters is kept as `ahead[d]`, the set of waiters in front of `d`, which
determines it and is easier to reason about than a sequence. `GrantScan` gives the
set of waiters that one pass of `grantWaitersLocked` admits.

### RouteBreaker, RouteHealth

`RouteBreaker` has what each function does to one state record; `RouteHealth` lets
any number of clients begin attempts. A fresh dial reports its outcome once, at any
later time. A pooled connection (`PopPooled`, `BeginReused`) is chosen on a snapshot that
asks for no probe, begins its attempt later and is handed out without observing it, as
in `outboundDialRouteWithOptions`; if the cooldown has ended in between it takes the
half-open slot and keeps it until a reload (finding 1). `stranded` is history: the
routes this has happened to. The properties say what holds all the same: the slot has
one owner, an admitted probe in progress or such a connection, no admitted probe leaves
it behind, and a route that is not stranded comes within reach of a probe again.
`preRecovery` is history: it remembers which attempts are older than the
last recovery, so that the number comparison of the code can be judged.
`Reload` replaces the registry by the inherited copy; what was in progress
reports to the old one and is lost to the new.

### OutboundDial

A client's dial is a sequence of separate looks at shared state, as in the code:
snapshot, pooled connection, permit, second look at health, begin, dial, observe.
The worker is `dialOne`, `Reconcile` the maintenance pass. The bulkhead is only
the number of permits in use. Idle connections are counted; that one is too old
or dead is the nondeterministic case of `AcquirePooled` and `Reconcile`.

### ServerReload

A connection walks through the accept loop (load the generation, `tryAcquire`,
look again, global and rule admission) and its handler (address quota, dispatch,
the deferred releases in their order). Listeners and quota records are named by
their key and the generation that created them. `ReloadRules` is three steps:
preparation under the lock, the commit under the lock, and the retirement of the
old generation outside it; `retire` has a step before and after `stopBackground`.

### BoostWinner

Requests follow `HandleBoost` through all its uses of the cache; each rule also has
a lazy job. `dirty` is history: which of a process's views of its key (its token,
its decision) have been outdated by a mutation since it was taken. Identities of
decision states that nobody references are reused, as memory is.

### H2Pool

The requests of one transport key, the manager's lease count and the pool of each
transport. The result of a dial is handed to its waiters in the step that ends it,
because it never changes afterwards. The reservation counter is only ever compared
with an earlier value of itself; it is modelled by whether it has moved. Of x/net
the model has what the pool relies on: a connection accepts streams up to a limit
until it is closing, `MarkDead` precedes the refusal of streams after GOAWAY and
follows the closing otherwise, a stream may end before or after its request gave
it up.

### BoostRace and RaceOutcome

One decision, from `handleBoost`'s claim of a recovery to the deferred release of
its leases. The racer (`race`) launches one goroutine per target (`att`) and
collects their results; each of these passes admission, the health recheck and
`begin`, dials, prepares its socket and gives its leases back before it sends. The
kinds cached, fresh, lazy and sequential share these steps and differ in what they
launch (`Launches`), what an error does to the racer (`AfterCached`, `AfterFresh`)
and whether it refills (`Refills`). Free, so that the properties hold for all of
them: the order of the candidates, health verdicts, circuits, the time of the hedge
and of the deadline. `sock` follows every socket. `RaceOutcome` sees only `sock` and
`result`: sockets are opened and discarded, one is delivered when no other is open,
or the decision fails when none is, and it does return. `ImplementsOutcome` is that
specification as a property of `BoostRace`, with its fairness.

### ProxyEndpoint

`h3` is the endpoint's `http3FallbackState`; a request is in the loop of
`dialForRule`, in a dial, or at its deferred observations. A failed HTTP/3 attempt
opens a window with an epoch, others join it, the HTTP/2 fallback of each reports
into it, and the window is resolved into a cooldown when no HTTP/3 attempt of the
epoch is left. `evidence` is history: the epochs in which HTTP/2 was reachable for a
caller that was still there. Classification of an error (`RouteNeutral`,
`SetupGroup`, `Observation`) works on a small set of failure classes.

### H3RuleBreaker

`rule` is the breaker's state of one rule, `req` what each request holds (a place in
an evaluation, a probation with its tunnel, a route lease), `mnt` the stages of
`validateHTTP3UDPBlackholeFallback` for each connection: check, retain, dial, check,
retain, complete, take, arm, finish, each a critical section or a look at the
transports between two. The sampler reads a connection under the transports' lock and
hands the sample to the breaker later: `TakeSample` and `NoteSample` are two steps, with
any others between them, `sample` is what is on its way, and its `token` and `elapsed`
say where its time lies in the probation of that moment. Only connections in `serving`
are read; `Drain` takes one out while its tunnels stay open. A probation is bound to
the connection it got in whatever state that is (`ProbeConnects`). A sample is healthy,
poor or unsampled (a wake-up of the detector before its interval); a connection that
the detector has given up, or that was closed, is reported by `NoteBadSample`, which
needs no delay because that verdict is never taken back.

### H3Transports

Slots with their lifecycle, users, links between source and candidate, physical
connections (the current one and those it superseded) and forced-drain monitor; the
requests of `dialWithCandidateRetrySource`. `slot.close()` runs after the unlock and
is a step of its own, so that a dial may return in between. An answer is published in
two steps, `TakeoverValidated` and `RegisterTunnel`; a failed RoundTrip is one, because
of its two critical sections one at most changes anything. `proof` is history: for
which rules, and by which other slot's answer, closing this connection was justified.

## Runs

| run | instance | shows |
|---|---|---|
| `bulkhead` | 3 dialers, 3 targets, 2 slots, 1 per target | limits hold and counters equal what they count; no waiter left that could be admitted; no overtaking within a target; every call returns even if no dial ever ends |
| `breaker` | 3 clients, 1 route, threshold 2, 4 attempts | one admitted probe owns the half-open slot, or a pooled connection that took it, and the circuit is consistent; the fence is exact; evidence from before a recovery is ignored; only the probe decides about an open circuit; an open circuit can be probed again, unless a pooled connection took its half-open slot |
| `outbound` | 2 clients, 2 workers, 4 attempts | the pool stays within its size, also when stopped; permits balance on every exit; shutdown ends the workers |
| `outbound_probe` | 2 clients, 2 workers, 5 attempts | **violation**, finding 1 |
| `reload` | 2 connections, 2 keys, 3 generations, 1 retired | leases protect generations, of which few are kept; quotas are exact and their records survive; nothing is left behind at rest, after Close either; a reload turns no connection away |
| `reload_quota` | as `reload` | **violation**, finding 2 |
| `winner` | 2 requests, 2 rules, 2 targets, room for 1 winner, 3 stores | decisions and tokens are valid exactly while their view is; states are not leaked |
| `h2` | 2 requests, 1 connection of 2 streams at a time, 2 transports | dead connections are not pooled or remembered; another's cancellation fails nobody; a lease keeps its transport until its dial settled; idle closing cuts no stream, and what a dropped transport left idle is closed |
| `boost_race` | 3 targets, a CONNECT budget of 2 | no slot, lease or goroutine outlives a decision; the Top-2 bound and the budget hold, and a canary is never raced; a decision fails only after what it could try, and the cached winner is lost only for what its route did; `RaceOutcome` is implemented |
| `endpoint` | 3 requests, 1 selector, 2 degradations | the window's counters count the current epoch exactly; no window waits for nobody; one probe at a time; a cooldown is earned by a reachable fallback of its own epoch |
| `rule_breaker` | 1 request, 2 connections, 3 tokens | cohorts are counted exactly; a probation and a lease have an owner that will end them; evidence counts only for what produced it, however late a sample arrives; a black hole that joins during a check is kept; no evaluation that somebody joined lasts for ever, nor a probation whose connection serves |
| `h3_transports` | 2 slots, 2 requests of 2 rules, 2 streams | one candidate, linked on both sides, exact use counts, no idle slot stranded; no QUIC connection outlives its closed slot; a forced drain for one rule spares the others |

Bounds. Two targets (keys, rules) are what it takes for one to be full, removed or
evicted while the other is not; a third, with two slots, lets the global limit of the
bulkhead be the only one that holds a waiter back, and with two racers lets a race
refill. Two actors race, and a third lets another party act between them. Threshold 2
tells a streak from a single failure, a maximum cooldown above the initial one shows the
growth. Three requests of an endpoint are one that opens a window, one that joins it and
one that comes after it was closed. Two slots are a transport and its candidate; a slot
that was closed is used again, so that the second connection of the HTTP/2 pool or a
third transport is a later use of the same name. In `h3_transports` one request belongs
to a rule with HTTP/2 and is a managed probe or opens a probation, the other is a client
of an HTTP/3-only rule, and the sampler finds black holes, the degradation every drain
applies to. In `endpoint` the Boost lease is that of an HTTP/3-only target, which may be
claimed whenever that of a mixed one may, and in a cooldown too; exploration leases of a
cached race need a fourth target (`boost.go:593`) and are covered by the proofs. In
`rule_breaker` a cohort is one request and the maintenance probes of two black holes,
and a probation on one connection meets late samples of the other and of the probation
before; several requests of one rule together, whose instance is too large for the
liveness check, are covered by the proofs of its four safety properties. Liveness runs
use no symmetry. Counters that grow in the code (`nextAttempt`, the number of
generations, stores, transports, tokens, degradations) are cut off by a named constant
in the guard of the action that increments them; the values allow an opening, a failed
probe and a recovery, a removal and a re-adding of an address, a store after an
eviction, and an evaluation, a probation and a second evaluation. `CHECK_DEADLOCK FALSE`
is used where the system really stops: a closed server, a retired manager or pool,
requests that are made once, tokens that are used up.

Each property is paired in `PROJECT.json` with a mutant, a plausible slip in one
mapped definition (`Mut...`, next to its original), under which the run must fail.

Fairness. Only what the code's scheduling gives: goroutines that can run do, armed
timers fire, dials and header writes have timeouts. In `DialBulkhead` nothing is assumed
of releases, in `H2Pool` neither the peer nor the idle timeout helps, in `BoostRace`
neither the hedge nor the end of the context is relied on. In `RouteHealth` only fresh
dials are sure to be observed; nothing is assumed of pooled connections. In
`H3RuleBreaker` the sampler visits each serving slot again and again, and not for ever
at a moment its detector leaves unsampled (strong fairness of `Visit`, whose sample
cannot be read while another is on its way); a slot that is drained is visited no more.
The expiry of an evaluation, which any request, selection or metrics scrape performs, is
assumed to be noticed, a sample that was read to be delivered and the dial of a
probation to end; nothing is assumed of maintenance or of other requests. What
`ServerReload` leaves at rest is stated as an invariant of the states in which no
goroutine has anything to do (`RestIsClean`) and needs no fairness.

## Findings

1. `outbound_probe`: `outboundDialRouteWithOptions` decides from a snapshot that no
   fresh probe is needed, takes a pooled connection, and calls `begin` afterwards
   with a later clock reading. If the cooldown ends in between, the pooled
   connection is given the half-open slot. It is never observed, and relay reports
   do not count while the circuit is open, so the slot is not returned: the route
   refuses dials until a reload. The comment before the snapshot promises a fresh
   handshake.
2. `reload_quota`: an accept loop that stalls between `Accept` and `acquireBinding`
   over a removal and a re-adding of its address admits its connection against the
   quota record of the old listener while the new listener has a new one. The
   comment of `listenerAdmission` excludes this. `RecordsKept` states
   what does hold: the record survives for every connection whose address stayed
   configured between the creation of its listener and its lease.

## Proofs

Each `XProofs` module EXTENDS its component and proves, for every value of the
constants, the properties that the component's run checks on a small instance. An
inductive invariant `IInv` is a conjunction of named parts; TLC has checked each of
them on the run's instance. There is one lemma per action, and `Invariance` puts them
together. `DialPathProofs` extends three components and has such a part for each:
`IInv` for `OutboundDial` (`Spec`), `BulkheadInv` for `DialBulkhead` (`BulkheadSpec`) and
`BreakerInv` for `RouteHealth` (`RegistrySpec`), whose specifications have names of their
own for that. No theorem there relates two of these specifications. Every safety and
action property that a passing run checks is a theorem.

| module | proved | states |
|---|---|---|
| `DialPathProofs`, pool | `PoolStaysBounded`, `PermitsAreReturned` | pool size and permits |
| `DialPathProofs`, bulkhead | `SlotsStayExact`, `NoLostWakeup`, `FirstComeFirstServed` | limits and accounting; no waiter stranded; no step overtakes a waiter of the same target |
| `DialPathProofs`, breaker | `BreakerStaysSound`, `FenceIsExact`, `StaleEvidenceIgnored`, `OnlyTheProbeDecides` | single owner of the half-open slot, pooled connections included; exact fence; no evidence from before a recovery; an open circuit changes only by its probe |
| `ServerReloadProofs` | `LeasesProtect`, `QuotasAreExact`, `RecordsAreKept`, `RestingIsClean`, `ReloadsDropNothing` | leases, quotas and records over reloads; nothing left at rest; no connection turned away by a reload |
| `BoostWinnerProofs` | `TokensAreExact`, `DecisionsAreExact` | tokens and decisions are valid exactly while their view of the cache is |
| `BoostRaceProofs` | `DecisionsLeaveNothing`, `BudgetIsHeld`, `FailureIsEarned`, `DecisionImplementsOutcome` | leases, bounds and outcome of a decision; the safety part of `ImplementsOutcome` |
| `H2PoolProofs` | `LeasesKeepTransports`, `DeadAreNeverPooled`, `CancellationIsOwn`, `IdleClosesAreIdle` | leases, dead connections, shared dials, idle closing |
| `ProxyEndpointProofs` | `WindowsAreExact`, `ProbesAreSingle`, `WindowsAreAttended`, `CooldownsAreEarned` | counters of the failure window; one probe while HTTP/3 is suppressed; no window waits for nobody; a cooldown only on evidence of its own epoch |
| `H3RuleBreakerProofs` | `CohortsAreExact`, `ProbationsAreOwned`, `EvidenceCountsForItsOwn`, `JoinedHolesStay` | counters of evaluation and arming; owners of probations and leases; evidence and scopes count where they belong |
| `H3TransportsProofs` | `RotationStaysSound`, `ConnectionsStayOwned`, `NeighboursAreSpared` | candidates, links and use counts; no connection outlives its closed slot; a forced drain spares the streams of other rules |

The assumptions are the named `ASSUME`s of the modules: finiteness of the sets of
actors, that limits and thresholds are positive naturals, that kinds of names are
disjoint and no marker is the name of a rule (the `"*"` that stands for all of them),
and for the winner cache that there is a rule at all. Cardinalities are
handled by lemmas on adding and removing one element, from `FiniteSetTheorems`.

Why the properties are not inductive by themselves, and what makes them so:

- Bulkhead. The limits need that a dialer has a waiter exactly between `Enqueue` and
  the end of its `select` or `cancelWaiter` (`CallOK`), and that `ahead` is a strict
  order of the queued waiters (`QueueOK`: of two waiters one is ahead of the other,
  never both). The central lemma, `GrantsAtMostOne`, says that one release hands its
  slot to at most one waiter; it needs `NoGrantableWaiter` before the release.
  `GrantsInOrder` uses the order the other way: what a scan admits was not behind a
  waiter of its target that stays.
- Breaker. The owner of the slot is a probe in progress only where no pooled connection
  has taken it; both cases are part of the invariant. The single owner needs that
  attempt numbers are unique among the attempts in progress and not above `nextAttempt`,
  and that no fence is (`NumbersOK`); the fence needs that a probe in progress is the
  newest attempt of its route and not fenced off itself (`ProbeNewest`), so that setting
  `minValidAttempt` to its number separates what began before the recovery from what
  begins after it.
- Outbound dial. The pool's bound needs that `warming` counts the dials in progress;
  that the attempt numbers stay in range needs the numbers reserved by clients and
  workers that have yet to call `begin` (`Budget`).
- Server. A lease protects its generation because what is done has no reference and
  `refs` counts the leases (`LeasesOK`); the number of retired generations is bounded
  because a reload is staged only below the limit and only that reload adds one
  (`GenerationsOK`). Records need a statement about every generation that is still in
  use, not only the current one: as long as one that bound the address since the
  connection's listener was created is not done, the record is registered
  (`RecordsOK`). Nothing is left at rest because an unused idle record always has a
  watcher or a leaving connection on its way to remove it (`CleanupOK`).
- Winner cache. A generation names one store, so a token that names the current entry
  has its address (`GenerationsOK`); a decision state belongs to one key (`OwnKey`),
  although identities are reused, and a decision whose state is still the key's saw
  the entry that is there now, its remaining life included (`SeesEntry`). That a new
  decision finds a state nobody holds is a pigeonhole argument (`FreshStateFree`): one
  of the processes, the one that begins, holds none. All actions are instances of six
  kinds of step (local, delete, release, begin, store, tick), each with a lemma.
- Race. `SocketsOK` ties each socket to the stage of its attempt, `LeasesOK` each lease
  to its holder; `BudgetOK` says that the targets dialled or being attempted are at
  most `actual`, which only a refusal before any dial lowers; `HedgeOK` has what a
  delayed hedge and the primary's verdict rest on, and `ExhaustedOK` that a race with
  nobody left to wait for has used its budget or its candidates. The parts take the
  racer and the attempts as parameters, because `Collect` hands intermediate values of
  both to `Launch`. `DecisionImplementsOutcome` follows from the stages and the sockets: each
  step maps to opening, discarding or delivering a socket, or to a stutter.
- HTTP/2 pool. A dial belongs to a request that waits for it in the manager's
  transport, and what it has connected is not in the pool and, if it died, is known in
  `deadBeforeAdd` (`DialsOK`); a connection seen idle has had no stream since unless
  `reservations` has moved (`StreamsOK`).
- Rule breaker. The counters of a cohort are the cardinality of a set of requests and
  maintenance probes together, which one report changes by one element (`CountersOK`);
  an evaluation starts with an empty cohort because nobody holds a token not yet given
  out (`FreshCohort`). That a report of an arming is never for another commit rests on
  `ArmingOK`: arming is over before the cooldown ends (it waits for nothing, so `Tick`
  waits for it), whoever arms holds the token of the commit that stands, and one actor
  at most is about to take what was committed. That a joined black hole is not dropped
  needs that what a check found stale is gone for good (`HolesOK`). The parts take the
  state as parameters, so that an action is a composition of changes of the rule, a
  request, a probe or a connection, each with a lemma. That HTTP/3 returns on evidence
  of its own probation is a second invariant, `SamplesOK`: no two requests hold one
  probation and none is bound to a connection before its dial has returned
  (`ProbesApart`, `ProbesUnbound`), and a sample that was read in the probation of now,
  and of its connection, finds that connection still well (`SampleFits`). A sample from
  before the probation was established has a negative age and cannot recover it; one of
  another connection does not match; and a degradation noted in between has ended the
  probation.
- Proxy endpoint. The counters are the cardinality of the requests that dial, or owe a
  report, in the current epoch (`Exact`), which one request's step changes by at most
  one. Once that is known, what a window may look like is a matter of the record alone:
  while HTTP/3 is suppressed the probe is all that is in flight (`Admission`), and an
  open window has a positive counter or a degradation behind it (`Attended`).
  `Changes` summarises every operation by what it does to the two counters and to the
  evidence, and `RequestMoves` and `EndpointMoves` assemble a step from one operation
  and the move of one request. `Place` fixes which tokens a request may carry at which
  stage, so that it reports for one window only; `CanaryOK` counts the claims, so that
  a canary token is never given out twice.
- HTTP/3 transports. Most of the invariant is about one slot: a dial under way still
  fits beside the connections there are, and a closed slot has none (`ConnOK`); the
  permission of a drain's monitor is never wider than what has been shown (`DrainOK`);
  what is unused in the pool is a candidate or in service, and the pool not retired
  (`UseOK`). Each operation is shown to relate the slot before and after by `Kept`, and
  a lemma each for one slot, for all and for a slot that is added (`KeptStep`,
  `AllKept`, `PoolGrows`) concludes. Exact use counts (`CountsOK`) say that the slot of
  a failing or finishing request has a user; as there is one candidate at most
  (`LinksOK`), no link is left to keep after its failure or promotion, and a new
  slot is linked with nothing. That a monitor may close the whole connection follows
  because the streams it may end, being as many as the users, are all of them.

Only model-checked: liveness (`EveryCallSettles`, `CircuitBecomesProbeable`,
`ShutdownDrains`, `DroppedIdleCloses`, `RuleMovesOn`, the fairness part of
`ImplementsOutcome`), which is outside the prover's reach (fairness and ENABLED). The
two violations of `outbound_probe` and `reload_quota` are counterexamples of TLC.

## Not modelled

Byte-level codecs (SOCKS5, HTTP CONNECT, PROXY protocol, ClientHello, JSON),
metrics and logging influence no concurrent state and are left to tests. Latency
averages, scores and the sample arithmetic of `connect_proxy_h3_degradation.go` are
numeric heuristics without a contract; the models take their verdict as free. Active
health is a verdict that may change at any time, which covers every schedule of its
checker. Of the modelled components the following is missing: prewarm pools shared by
several rules, accept errors and their back-off, the drain timeout itself,
inheritance of winners at a reload, TLS profiles, the half-close and the close codes
of tunnels, the choice of the final status among the errors of a CONNECT.

Seen while modelling and not stated as a property: a failure window of an endpoint is
resolved only when no HTTP/3 attempt is in flight, so overlapping requests can keep it
open for as long as traffic lasts (`connect_proxy.go:631`); a per-target refusal after
a global one still launches one further candidate, which a comment excludes
(`boost.go:1058`); protocol capacity is reported to the breaker as a reachable route
(`connect_proxy.go:1071`); a promoted transport keeps the rotation reason of the one it
replaced (`connect_proxy_h3_rotation.go:625`); a probation whose slot is drained for the error
of another request (`connect_proxy_h3_ownership.go:75`), or whose manager retires, gets no
more samples, so that `http3RuleProbationMaxDuration` does not end it but only the close
of its tunnel (`connect_proxy_h3_rotation.go:298`); a sample older than the probation it
meets can count as one healthy sample, though not recover it
(`connect_proxy_h3_rule_breaker.go:851`).

## Plan

The components with shared state are modelled, and their safety is proved. An
extension would start with what "Not modelled" names of the modelled components:
inheritance of winners at a reload in `BoostWinner`, prewarm pools shared by several
rules in `OutboundDial`, and a composition of `H3RuleBreaker` with `H3Transports`, whose
arming and draining now meet only through free choices on both sides.
