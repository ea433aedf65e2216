--------------------------- MODULE DialPathProofs ---------------------------
(***************************************************************************)
(* What a dial passes through.  First the prewarm pool and the dial        *)
(* permits of one upstream address, for every number of clients and        *)
(* workers, every pool size and limit; then the bulkhead that hands out    *)
(* the permits: its limits, its accounting, the absence of lost wakeups    *)
(* and the order of the list, for every finite set of dialers and every    *)
(* pair of limits; then the circuit breaker of the rule: its half-open     *)
(* slot, its recovery fence and its cooldown, for every set of routes and  *)
(* of shared setups.  Each part is about its own specification.            *)
(***************************************************************************)
EXTENDS OutboundDial, DialBulkhead, RouteHealth, FiniteSetTheorems, TLAPS

Reserving == {"reusing", "pooled", "admitting", "permitted", "rechecked"}
Permitted == {"permitted", "rechecked", "dialing", "probing"}

ReservingClients == {c \in Client : client[c] \in Reserving}
ReservingWorkers == {w \in Worker : worker[w] \in {"launched", "checked"}}
PermittedClients == {c \in Client : client[c] \in Permitted}

\* What the pool has and expects fits, and the reserved attempts can begin.
\* The pool bound is inductive only with the exact count of the dials in
\* progress, and the numbers of the attempts only with their reservations.
IInv ==
    /\ TypeOK
    /\ idle + warming <= Desired
    /\ warming = Cardinality(InProgress)
    /\ stopped => idle = 0
    /\ permits = Cardinality(PermittedClients)
    /\ Budget >= 0

-----------------------------------------------------------------------------
(* The breaker's states are closed under what the clients and workers do. *)

LEMMA CooldownTyped ==
    ASSUME NEW p \in 0..MaximumCooldown
    PROVE  nextRouteCooldown(p) \in 0..MaximumCooldown /\ nextRouteCooldown(p) \in Nat
BY BreakerAssumption DEF nextRouteCooldown

LEMMA OpenTyped ==
    ASSUME NEW s \in RouteState
    PROVE  OpenCircuit(s) \in RouteState
<1> DEFINE k == nextRouteCooldown(s.cooldown)
<1>1. k \in 0..MaximumCooldown /\ k \in Nat
  BY CooldownTyped DEF RouteState
<1>2. OpenCircuit(s) = [s EXCEPT !.circuitOpen = TRUE, !.cooldown = k, !.left = k]
  BY DEF OpenCircuit
<1> HIDE DEF k
<1> QED
  BY <1>1, <1>2 DEF RouteState

LEMMA BreakerTyped ==
    ASSUME NEW s \in RouteState, NEW n \in Nat
    PROVE  /\ AfterBegin(s, n) \in RouteState
           /\ AfterNeutral(s, n) \in RouteState
           /\ AfterReachable(s, n) \in RouteState
           /\ AfterSuccess(s, n) \in RouteState
           /\ AfterFailure(s, n) \in RouteState
           /\ AfterReportFailure(s, n) \in RouteState
           /\ AfterReportSuccess(s, n) \in RouteState
           /\ AfterTick(s) \in RouteState
<1>0. 0 \in 0..Threshold /\ 0 \in 0..MaximumCooldown
      /\ \A m \in 0..Threshold : OneMore(m) \in 0..Threshold
  BY BreakerAssumption DEF OneMore
<1>1. AfterBegin(s, n) \in RouteState
  BY DEF AfterBegin, RouteState
<1>2. AfterNeutral(s, n) \in RouteState
  BY DEF AfterNeutral, ReleaseProbe, RouteState
<1>3. CloseCircuit(s, n) \in RouteState
  <2> DEFINE t == ReleaseProbe(s)
             fence == IF OwnsProbe(s, n) THEN n ELSE t.minValidAttempt
  <2>1. t \in RouteState
    BY DEF ReleaseProbe, RouteState
  <2>2. fence \in Nat
    BY <2>1 DEF RouteState
  <2>3. CloseCircuit(s, n) = [t EXCEPT !.observed = TRUE, !.consecutiveFailures = 0,
          !.circuitOpen = FALSE, !.left = 0, !.minValidAttempt = fence]
    BY DEF CloseCircuit
  <2> HIDE DEF fence, t
  <2>4. [t EXCEPT !.observed = TRUE, !.consecutiveFailures = 0,
          !.circuitOpen = FALSE, !.left = 0, !.minValidAttempt = fence] \in RouteState
    BY <1>0, <2>1, <2>2 DEF RouteState
  <2> QED
    BY <2>3, <2>4
<1>4. AfterReachable(s, n) \in RouteState
  <2> DEFINE u == CloseCircuit(s, n)
  <2>1. u \in RouteState
    BY <1>3
  <2> HIDE DEF u
  <2>2. [u EXCEPT !.relayFailures = 0, !.cooldown = 0] \in RouteState
    BY <1>0, <2>1 DEF RouteState
  <2> QED
    BY <2>2 DEF AfterReachable, u
<1>5. AfterSuccess(s, n) \in RouteState
  <2> DEFINE u == CloseCircuit(s, n)
  <2>1. u \in RouteState
    BY <1>3
  <2> HIDE DEF u
  <2>2. [u EXCEPT !.cooldown = IF OwnsProbe(s, n) THEN u.cooldown ELSE 0] \in RouteState
    BY <1>0, <2>1 DEF RouteState
  <2> QED
    BY <2>2 DEF AfterSuccess, u
<1>6. AfterFailure(s, n) \in RouteState
  <2> DEFINE t == [s EXCEPT !.observed = TRUE, !.consecutiveFailures = OneMore(s.consecutiveFailures)]
  <2>1. t \in RouteState
    <3>1. OneMore(s.consecutiveFailures) \in 0..Threshold
      BY <1>0 DEF RouteState
    <3> QED
      BY <3>1 DEF RouteState
  <2>2. AfterFailure(s, n) \in {s, OpenCircuit(ReleaseProbe(t)), OpenCircuit(t), t}
    BY DEF AfterFailure
  <2> HIDE DEF t
  <2>3. ReleaseProbe(t) \in RouteState
    BY <2>1 DEF ReleaseProbe, RouteState
  <2> QED
    BY <2>1, <2>2, <2>3, OpenTyped
<1>7. AfterReportFailure(s, n) \in RouteState
  <2> DEFINE t == [s EXCEPT !.observed = TRUE, !.relayFailures = OneMore(s.relayFailures)]
  <2>1. t \in RouteState
    <3>1. OneMore(s.relayFailures) \in 0..Threshold
      BY <1>0 DEF RouteState
    <3> QED
      BY <3>1 DEF RouteState
  <2>2. AfterReportFailure(s, n) \in {s, OpenCircuit(t), t}
    BY DEF AfterReportFailure
  <2> HIDE DEF t
  <2> QED
    BY <2>1, <2>2, OpenTyped
<1>8. AfterReportSuccess(s, n) \in RouteState
  BY <1>0 DEF AfterReportSuccess, RouteState
<1>9. AfterTick(s) \in RouteState
  BY DEF AfterTick, RouteState
<1> QED
  BY <1>1, <1>2, <1>4, <1>5, <1>6, <1>7, <1>8, <1>9

-----------------------------------------------------------------------------
(* Counting. *)

\* A set of clients or workers that a step of x may have entered or left.
LEMMA CountMoves ==
    ASSUME NEW D, IsFiniteSet(D), NEW x \in D, NEW S \in SUBSET D, NEW T \in SUBSET D,
           \A y \in D \ {x} : y \in S <=> y \in T
    PROVE  /\ (x \in S <=> x \in T) => Cardinality(T) = Cardinality(S)
           /\ x \in S /\ x \notin T => Cardinality(T) = Cardinality(S) - 1
           /\ x \notin S /\ x \in T => Cardinality(T) = Cardinality(S) + 1
           /\ x \in S => Cardinality(S) > 0
           /\ Cardinality(S) \in Nat /\ Cardinality(T) \in Nat
<1>1. IsFiniteSet(S) /\ IsFiniteSet(T)
  BY FS_Subset
<1>2. Cardinality(S) \in Nat /\ Cardinality(T) \in Nat
  BY <1>1, FS_CardinalityType
<1>3. (x \in S <=> x \in T) => S = T
  OBVIOUS
<1>4. x \in S /\ x \notin T => T = S \ {x}
  OBVIOUS
<1>5. x \notin S /\ x \in T => T = S \cup {x}
  OBVIOUS
<1>6. x \in S => Cardinality(S \ {x}) = Cardinality(S) - 1
  BY <1>1, FS_RemoveElement
<1>7. x \notin S => Cardinality(S \cup {x}) = Cardinality(S) + 1
  BY <1>1, FS_AddElement
<1>8. x \in S => Cardinality(S) > 0
  BY <1>1, <1>2, FS_EmptySet
<1> QED
  BY <1>2, <1>3, <1>4, <1>5, <1>6, <1>7, <1>8

\* Budget as the difference of the counts.
LEMMA BudgetCounts ==
    /\ Budget = MaxAttempts - nextAttempt - Cardinality(ReservingClients)
                  - Cardinality(ReservingWorkers)
    /\ Cardinality(ReservingClients) \in Nat /\ Cardinality(ReservingWorkers) \in Nat
<1>1. ReservingClients \in SUBSET Client /\ ReservingWorkers \in SUBSET Worker
  BY DEF ReservingClients, ReservingWorkers
<1>2. IsFiniteSet(ReservingClients) /\ IsFiniteSet(ReservingWorkers)
  BY <1>1, PoolAssumption, FS_Subset
<1> QED
  BY <1>2, FS_CardinalityType DEF Budget, ReservingClients, ReservingWorkers, Reserving

\* The least of four numbers.
LEMMA LeastOfFour ==
    ASSUME NEW a \in Nat, NEW b \in Nat, NEW c \in Nat, NEW d \in Nat
    PROVE  LET m == Least({a, b, c, d}) IN m \in Nat /\ m <= a /\ m <= b /\ m <= c /\ m <= d
<1>1. \E x \in {a, b, c, d} : \A y \in {a, b, c, d} : x <= y
  <2>1. CASE a <= b /\ a <= c /\ a <= d
    BY <2>1
  <2>2. CASE b <= a /\ b <= c /\ b <= d
    BY <2>2
  <2>3. CASE c <= a /\ c <= b /\ c <= d
    BY <2>3
  <2>4. CASE d <= a /\ d <= b /\ d <= c
    BY <2>4
  <2> QED
    BY <2>1, <2>2, <2>3, <2>4
<1> DEFINE m == Least({a, b, c, d})
<1>2. m \in {a, b, c, d} /\ \A y \in {a, b, c, d} : m <= y
  BY <1>1 DEF Least
<1> HIDE DEF m
<1>3. m \in Nat /\ m <= a /\ m <= b /\ m <= c /\ m <= d
  BY <1>2
<1> QED
  BY <1>3 DEF m

LEMMA LeastOfTwo ==
    ASSUME NEW a \in Nat, NEW b \in Nat
    PROVE  Least({a, b}) \in Nat /\ Least({a, b}) <= b
<1>1. \E x \in {a, b} : \A y \in {a, b} : x <= y
  <2>1. CASE a <= b
    BY <2>1
  <2>2. CASE b <= a
    BY <2>2
  <2> QED
    BY <2>1, <2>2
<1> DEFINE m == Least({a, b})
<1>2. m \in {a, b} /\ \A y \in {a, b} : m <= y
  BY <1>1 DEF Least
<1> HIDE DEF m
<1>3. m \in Nat /\ m <= b
  BY <1>2
<1> QED
  BY <1>3 DEF m

\* prewarmBackoff stays within its maximum.
LEMMA BackoffTyped ==
    ASSUME NEW b \in 0..RetryMax
    PROVE  prewarmBackoff(b) \in 0..RetryMax
<1>1. CASE b = 0
  BY <1>1, PoolAssumption DEF prewarmBackoff
<1>2. CASE b # 0
  <2>1. 2 * b \in Nat /\ RetryMax \in Nat
    BY PoolAssumption
  <2>2. Least({2 * b, RetryMax}) \in Nat /\ Least({2 * b, RetryMax}) <= RetryMax
    BY <2>1, LeastOfTwo
  <2> QED
    BY <1>2, <2>1, <2>2 DEF prewarmBackoff
<1> QED
  BY <1>1, <1>2

-----------------------------------------------------------------------------
(* What a step of one client may do, whatever the step. *)

PermitChange(c) ==
    \/ permits' = permits /\ (client[c] \in Permitted <=> client'[c] \in Permitted)
    \/ /\ permits < PermitLimit /\ permits' = permits + 1
       /\ client[c] \notin Permitted /\ client'[c] \in Permitted
    \/ permits' = permits - 1 /\ client[c] \in Permitted /\ client'[c] \notin Permitted

\* An attempt is reserved, given up or begun.
AttemptChange(c) ==
    \/ nextAttempt' = nextAttempt /\ (client'[c] \in Reserving => client[c] \in Reserving)
    \/ nextAttempt' = nextAttempt /\ Budget > 0
    \/ nextAttempt' = nextAttempt + 1 /\ client[c] \in Reserving /\ client'[c] \notin Reserving

ClientEffect(c) ==
    /\ UNCHANGED <<unhealthy, warming, backoff, retry, stopped, worker>>
    /\ idle' \in 0..idle /\ circuit' \in RouteState
    /\ client' \in [Client -> ClientStates]
    /\ \A d \in Client \ {c} : client'[d] = client[d]
    /\ id' \in [Client \cup Worker -> 0..MaxAttempts]
    /\ PermitChange(c) /\ AttemptChange(c)

\* Whoever has reserved an attempt may begin it.
LEMMA ReservedMayBegin ==
    ASSUME IInv
    PROVE  /\ \A c \in Client : client[c] \in Reserving => nextAttempt + 1 \in 0..MaxAttempts
           /\ \A w \in Worker : worker[w] \in {"launched", "checked"} =>
                nextAttempt + 1 \in 0..MaxAttempts
<1>1. IsFiniteSet(ReservingClients) /\ IsFiniteSet(ReservingWorkers)
  <2>1. ReservingClients \in SUBSET Client /\ ReservingWorkers \in SUBSET Worker
    BY DEF ReservingClients, ReservingWorkers
  <2> QED
    BY <2>1, PoolAssumption, FS_Subset
<1>2. nextAttempt \in Nat /\ MaxAttempts \in Nat /\ Budget >= 0
  BY PoolAssumption DEF IInv, TypeOK
<1>3. ASSUME NEW c \in Client, client[c] \in Reserving PROVE Cardinality(ReservingClients) # 0
  BY <1>1, <1>3, FS_EmptySet DEF ReservingClients
<1>4. ASSUME NEW w \in Worker, worker[w] \in {"launched", "checked"}
      PROVE  Cardinality(ReservingWorkers) # 0
  BY <1>1, <1>4, FS_EmptySet DEF ReservingWorkers
<1>5. ASSUME NEW c \in Client, client[c] \in Reserving PROVE nextAttempt + 1 \in 0..MaxAttempts
  BY <1>2, <1>3, <1>5, BudgetCounts
<1>6. ASSUME NEW w \in Worker, worker[w] \in {"launched", "checked"}
      PROVE  nextAttempt + 1 \in 0..MaxAttempts
  BY <1>2, <1>4, <1>6, BudgetCounts
<1> QED
  BY <1>5, <1>6

LEMMA ClientStepEffect ==
    ASSUME IInv, NEW c \in Client, ClientStep(c)
    PROVE  ClientEffect(c)
<1> USE DEF ClientEffect, pool, Permitted, Reserving
<1>1. /\ client \in [Client -> ClientStates] /\ id \in [Client \cup Worker -> 0..MaxAttempts]
      /\ circuit \in RouteState /\ idle \in Nat /\ permits \in Nat /\ nextAttempt \in Nat
      /\ idle \in 0..idle
  BY PoolAssumption DEF IInv, TypeOK
<1>2. ASSUME NEW st \in ClientStates, Go(c, st)
      PROVE  /\ client' \in [Client -> ClientStates] /\ client'[c] = st
             /\ \A d \in Client \ {c} : client'[d] = client[d]
  BY <1>1, <1>2 DEF Go
<1>3. id[c] \in Nat
  BY <1>1, PoolAssumption
<1>4. ASSUME EndAttempt(c) PROVE id' \in [Client \cup Worker -> 0..MaxAttempts]
  BY <1>1, <1>4, PoolAssumption DEF EndAttempt
<1>5. ASSUME BeginAttempt(c), client[c] \in Reserving
      PROVE  /\ id' \in [Client \cup Worker -> 0..MaxAttempts] /\ nextAttempt' = nextAttempt + 1
             /\ circuit' \in RouteState
  <2>1. nextAttempt + 1 \in 0..MaxAttempts /\ nextAttempt + 1 \in Nat
    BY <1>1, <1>5, ReservedMayBegin
  <2> QED
    BY <1>1, <1>5, <2>1, BreakerTyped DEF BeginAttempt
<1>6. {"idle", "reusing", "pooled", "admitting", "permitted", "rechecked", "dialing", "probing",
       "relaying"} \in SUBSET ClientStates
  BY DEF ClientStates
<1>7. CASE Snapshot(c)
  BY <1>1, <1>2, <1>6, <1>7 DEF Snapshot, PermitChange, AttemptChange
<1>8. CASE AcquirePooled(c)
  <2>1. PICK kept \in 0..idle :
          /\ idle' = kept
          /\ Go(c, "pooled") \/ Go(c, "idle") \/ Go(c, "admitting")
    BY <1>8 DEF AcquirePooled
  <2> QED
    BY <1>1, <1>2, <1>6, <1>8, <2>1 DEF AcquirePooled, PermitChange, AttemptChange
<1>9. CASE PermitGranted(c)
  BY <1>1, <1>2, <1>6, <1>9 DEF PermitGranted, PermitChange, AttemptChange
<1>10. CASE PermitRefused(c)
  BY <1>1, <1>2, <1>6, <1>10 DEF PermitRefused, PermitChange, AttemptChange
<1>11. CASE Recheck(c)
  <2>1. CASE unhealthy
    BY <1>1, <1>2, <1>6, <1>11, <2>1 DEF Recheck, PermitChange, AttemptChange
  <2>2. CASE ~unhealthy
    BY <1>1, <1>2, <1>6, <1>11, <2>2 DEF Recheck, PermitChange, AttemptChange
  <2> QED
    BY <2>1, <2>2
<1>12. CASE BeginFreshRefused(c)
  BY <1>1, <1>2, <1>6, <1>12 DEF BeginFreshRefused, PermitChange, AttemptChange
<1>13. CASE BeginFresh(c)
  <2>1. Go(c, "probing") \/ Go(c, "dialing")
    BY <1>13 DEF BeginFresh
  <2>2. BeginAttempt(c) /\ client[c] = "rechecked"
    BY <1>13 DEF BeginFresh
  <2> QED
    BY <1>1, <1>2, <1>5, <1>6, <1>13, <2>1, <2>2 DEF BeginFresh, PermitChange, AttemptChange
<1>14. CASE BeginPooledRefused(c)
  BY <1>1, <1>2, <1>6, <1>14 DEF BeginPooledRefused, PermitChange, AttemptChange
<1>15. CASE BeginPooled(c)
  <2>1. BeginAttempt(c) /\ client[c] = "pooled" /\ Go(c, "relaying")
    BY <1>15 DEF BeginPooled
  <2> QED
    BY <1>1, <1>2, <1>5, <1>6, <1>15, <2>1 DEF BeginPooled, PermitChange, AttemptChange
<1>16. CASE DialDone(c)
  <2>1. circuit' \in RouteState
    BY <1>1, <1>3, <1>16, BreakerTyped DEF DialDone
  <2>2. id' \in [Client \cup Worker -> 0..MaxAttempts]
    BY <1>1, <1>4, <1>16 DEF DialDone
  <2>3. Go(c, "relaying") \/ Go(c, "idle")
    BY <1>16 DEF DialDone
  <2> QED
    BY <1>1, <1>2, <1>6, <1>16, <2>1, <2>2, <2>3 DEF DialDone, PermitChange, AttemptChange
<1>17. CASE RelayDone(c)
  <2>1. circuit' \in RouteState
    BY <1>1, <1>3, <1>17, BreakerTyped DEF RelayDone
  <2> QED
    BY <1>1, <1>2, <1>4, <1>6, <1>17, <2>1 DEF RelayDone, PermitChange, AttemptChange
<1> QED
  BY <1>7, <1>8, <1>9, <1>10, <1>11, <1>12, <1>13, <1>14, <1>15, <1>16, <1>17 DEF ClientStep

LEMMA ClientKeeps ==
    ASSUME IInv, NEW c \in Client, ClientEffect(c)
    PROVE  IInv'
<1>1. /\ idle \in Nat /\ idle \in 0..Desired /\ warming \in Nat /\ Desired \in Nat
      /\ MaxAttempts \in Nat /\ nextAttempt \in Nat /\ permits \in 0..PermitLimit
      /\ PermitLimit \in Nat
      /\ \A d \in Client \ {c} : client'[d] = client[d]
      /\ worker' = worker /\ warming' = warming /\ stopped' = stopped
      /\ IsFiniteSet(Client)
  BY PoolAssumption DEF IInv, TypeOK, ClientEffect
<1>2. /\ idle' \in 0..Desired /\ idle' + warming <= Desired /\ (stopped => idle' = 0)
  BY <1>1 DEF ClientEffect, IInv
<1>3. /\ InProgress' = InProgress /\ ReservingWorkers' = ReservingWorkers
  BY <1>1 DEF InProgress, ReservingWorkers
<1>4. permits' = Cardinality(PermittedClients') /\ permits' \in 0..PermitLimit
  <2>1. PermittedClients \in SUBSET Client /\ PermittedClients' \in SUBSET Client
    BY DEF PermittedClients
  <2>2. \A d \in Client : /\ d \in PermittedClients <=> client[d] \in Permitted
                          /\ d \in PermittedClients' <=> client'[d] \in Permitted
    BY DEF PermittedClients, Permitted
  <2>3. \A d \in Client \ {c} : d \in PermittedClients <=> d \in PermittedClients'
    BY <1>1, <2>2
  <2> DEFINE S == PermittedClients
             T == PermittedClients'
  <2>4. /\ (c \in S <=> c \in T) => Cardinality(T) = Cardinality(S)
        /\ c \in S /\ c \notin T => Cardinality(T) = Cardinality(S) - 1
        /\ c \notin S /\ c \in T => Cardinality(T) = Cardinality(S) + 1
        /\ c \in S => Cardinality(S) > 0
    BY <1>1, <2>1, <2>3, CountMoves
  <2>5. PermitChange(c) /\ permits = Cardinality(S)
    BY DEF ClientEffect, IInv
  <2> HIDE DEF S, T
  <2>6. permits' = Cardinality(T) /\ permits' \in 0..PermitLimit
    BY <1>1, <2>2, <2>4, <2>5 DEF PermitChange, S, T
  <2> QED
    BY <2>6 DEF T
<1>5. Budget' >= 0 /\ nextAttempt' \in 0..MaxAttempts
  <2>1. ReservingClients \in SUBSET Client /\ ReservingClients' \in SUBSET Client
    BY DEF ReservingClients
  <2>2. \A d \in Client : /\ d \in ReservingClients <=> client[d] \in Reserving
                          /\ d \in ReservingClients' <=> client'[d] \in Reserving
    BY DEF ReservingClients, Reserving
  <2>3. \A d \in Client \ {c} : d \in ReservingClients <=> d \in ReservingClients'
    BY <1>1, <2>2
  <2> DEFINE S == ReservingClients
             T == ReservingClients'
             n == Cardinality(ReservingWorkers)
  <2>4. /\ (c \in S <=> c \in T) => Cardinality(T) = Cardinality(S)
        /\ c \in S /\ c \notin T => Cardinality(T) = Cardinality(S) - 1
        /\ c \notin S /\ c \in T => Cardinality(T) = Cardinality(S) + 1
        /\ Cardinality(S) \in Nat /\ Cardinality(T) \in Nat
    BY <1>1, <2>1, <2>3, CountMoves
  <2>5. /\ AttemptChange(c) /\ Budget >= 0 /\ n \in Nat
        /\ Budget = MaxAttempts - nextAttempt - Cardinality(S) - n
        /\ Budget' = MaxAttempts - nextAttempt' - Cardinality(T) - n
    BY <1>3, BudgetCounts DEF ClientEffect, IInv, Budget, ReservingClients, ReservingWorkers,
                              Reserving
  <2>6. /\ c \in S <=> client[c] \in Reserving
        /\ c \in T <=> client'[c] \in Reserving
    BY <2>2
  <2> HIDE DEF S, T, n
  <2> QED
    BY <1>1, <2>4, <2>5, <2>6 DEF AttemptChange
<1>6. TypeOK'
  BY <1>1, <1>2, <1>4, <1>5 DEF ClientEffect, IInv, TypeOK
<1> QED
  BY <1>1, <1>2, <1>3, <1>4, <1>5, <1>6 DEF IInv

-----------------------------------------------------------------------------
(* What a step of one dialOne goroutine may do. *)

Pending == {"launched", "checked"}
Resting == {"off", "exiting"}

\* A dial that ends leaves the count, and may leave its connection behind.
DialChange(w) ==
    \/ /\ UNCHANGED <<idle, warming>>
       /\ worker[w] \in Resting <=> worker'[w] \in Resting
    \/ /\ warming' = warming - 1 /\ worker[w] \notin Resting /\ worker'[w] \in Resting
       /\ idle' = idle \/ (~stopped /\ idle' = idle + 1)

WorkerAttempt(w) ==
    \/ nextAttempt' = nextAttempt /\ (worker'[w] \in Pending => worker[w] \in Pending)
    \/ nextAttempt' = nextAttempt + 1 /\ worker[w] \in Pending /\ worker'[w] \notin Pending

WorkerEffect(w) ==
    /\ UNCHANGED <<client, permits, unhealthy, stopped>>
    /\ circuit' \in RouteState
    /\ worker' \in [Worker -> WorkerStates]
    /\ \A v \in Worker \ {w} : worker'[v] = worker[v]
    /\ id' \in [Client \cup Worker -> 0..MaxAttempts]
    /\ backoff' \in 0..RetryMax /\ retry' \in 0..backoff'
    /\ DialChange(w) /\ WorkerAttempt(w)

LEMMA WorkerStepEffect ==
    ASSUME IInv, NEW w \in Worker, WorkerStep(w)
    PROVE  WorkerEffect(w)
<1> USE DEF WorkerEffect, pool, Pending, Resting
<1>1. /\ worker \in [Worker -> WorkerStates] /\ id \in [Client \cup Worker -> 0..MaxAttempts]
      /\ circuit \in RouteState /\ idle \in Nat /\ warming \in Nat /\ nextAttempt \in Nat
      /\ backoff \in 0..RetryMax /\ retry \in 0..backoff
  BY PoolAssumption DEF IInv, TypeOK
<1>2. ASSUME NEW st \in WorkerStates, Become(w, st)
      PROVE  /\ worker' \in [Worker -> WorkerStates] /\ worker'[w] = st
             /\ \A v \in Worker \ {w} : worker'[v] = worker[v]
  BY <1>1, <1>2 DEF Become
<1>3. id[w] \in Nat
  BY <1>1, PoolAssumption
<1>4. {"off", "launched", "checked", "dialing", "connected", "failed", "exiting"}
        \in SUBSET WorkerStates
  BY DEF WorkerStates
<1>5. CASE WorkerSkips(w)
  BY <1>1, <1>2, <1>4, <1>5 DEF WorkerSkips, DialChange, WorkerAttempt
<1>6. CASE WorkerChecks(w)
  BY <1>1, <1>2, <1>4, <1>6 DEF WorkerChecks, DialChange, WorkerAttempt
<1>7. CASE WorkerRefused(w)
  BY <1>1, <1>2, <1>4, <1>7 DEF WorkerRefused, DialChange, WorkerAttempt
<1>8. CASE WorkerBegins(w)
  <2>1. nextAttempt + 1 \in 0..MaxAttempts /\ nextAttempt + 1 \in Nat
    BY <1>1, <1>8, ReservedMayBegin DEF WorkerBegins
  <2>2. /\ id' \in [Client \cup Worker -> 0..MaxAttempts] /\ nextAttempt' = nextAttempt + 1
        /\ circuit' \in RouteState
    BY <1>1, <1>8, <2>1, BreakerTyped DEF WorkerBegins, BeginAttempt
  <2> QED
    BY <1>1, <1>2, <1>4, <1>8, <2>2 DEF WorkerBegins, DialChange, WorkerAttempt
<1>9. CASE WorkerObserves(w)
  <2>1. circuit' \in RouteState
    BY <1>1, <1>3, <1>9, BreakerTyped DEF WorkerObserves
  <2>2. id' \in [Client \cup Worker -> 0..MaxAttempts]
    BY <1>1, <1>9, PoolAssumption DEF WorkerObserves, EndAttempt
  <2>3. Become(w, "connected") \/ Become(w, "failed")
    BY <1>9 DEF WorkerObserves
  <2> QED
    BY <1>1, <1>2, <1>4, <1>9, <2>1, <2>2, <2>3 DEF WorkerObserves, DialChange, WorkerAttempt
<1>10. CASE WorkerFails(w)
  <2>1. backoff' \in 0..RetryMax /\ retry' \in 0..backoff'
    <3> DEFINE b == prewarmBackoff(backoff)
    <3>1. b \in 0..RetryMax
      BY <1>1, BackoffTyped
    <3>2. \/ backoff' = backoff /\ retry' = retry
          \/ backoff' = b /\ retry' = b
      BY <1>10 DEF WorkerFails
    <3> HIDE DEF b
    <3> QED
      BY <1>1, <3>1, <3>2, PoolAssumption
  <2> QED
    BY <1>1, <1>2, <1>4, <1>10, <2>1 DEF WorkerFails, DialChange, WorkerAttempt
<1>11. CASE WorkerKeeps(w)
  BY <1>1, <1>2, <1>4, <1>11, PoolAssumption DEF WorkerKeeps, DialChange, WorkerAttempt
<1>12. CASE WorkerCloses(w)
  BY <1>1, <1>2, <1>4, <1>12 DEF WorkerCloses, DialChange, WorkerAttempt
<1>13. CASE WorkerExits(w)
  BY <1>1, <1>2, <1>4, <1>13 DEF WorkerExits, DialChange, WorkerAttempt
<1> QED
  BY <1>5, <1>6, <1>7, <1>8, <1>9, <1>10, <1>11, <1>12, <1>13 DEF WorkerStep

LEMMA WorkerEffectKeeps ==
    ASSUME IInv, NEW w \in Worker, WorkerEffect(w)
    PROVE  IInv'
<1>1. /\ idle \in Nat /\ warming \in 0..MaxConcurrent /\ warming \in Nat /\ Desired \in Nat
      /\ MaxConcurrent \in Nat /\ MaxAttempts \in Nat /\ nextAttempt \in Nat
      /\ \A v \in Worker \ {w} : worker'[v] = worker[v]
      /\ client' = client /\ permits' = permits /\ stopped' = stopped
      /\ IsFiniteSet(Worker)
  BY PoolAssumption DEF IInv, TypeOK, WorkerEffect
<1>2. /\ PermittedClients' = PermittedClients /\ ReservingClients' = ReservingClients
  BY <1>1 DEF PermittedClients, ReservingClients
<1>3. /\ warming' = Cardinality(InProgress') /\ warming' \in 0..MaxConcurrent
      /\ idle' + warming' <= Desired /\ idle' \in 0..Desired /\ (stopped => idle' = 0)
  <2>1. InProgress \in SUBSET Worker /\ InProgress' \in SUBSET Worker
    BY DEF InProgress
  <2>2. \A v \in Worker : /\ v \in InProgress <=> worker[v] \notin Resting
                          /\ v \in InProgress' <=> worker'[v] \notin Resting
    BY DEF InProgress, Resting
  <2>3. \A v \in Worker \ {w} : v \in InProgress <=> v \in InProgress'
    BY <1>1, <2>2
  <2> DEFINE S == InProgress
             T == InProgress'
  <2>4. /\ (w \in S <=> w \in T) => Cardinality(T) = Cardinality(S)
        /\ w \in S /\ w \notin T => Cardinality(T) = Cardinality(S) - 1
        /\ w \in S => Cardinality(S) > 0
    BY <1>1, <2>1, <2>3, CountMoves
  <2>5. /\ DialChange(w) /\ warming = Cardinality(S) /\ idle + warming <= Desired
        /\ (stopped => idle = 0)
    BY DEF WorkerEffect, IInv
  <2>6. /\ w \in S <=> worker[w] \notin Resting
        /\ w \in T <=> worker'[w] \notin Resting
    BY <2>2
  <2> HIDE DEF S, T
  <2>7. /\ warming' = Cardinality(T) /\ warming' \in 0..MaxConcurrent
        /\ idle' + warming' <= Desired /\ idle' \in 0..Desired /\ (stopped => idle' = 0)
    BY <1>1, <2>4, <2>5, <2>6 DEF DialChange
  <2> QED
    BY <2>7 DEF T
<1>4. Budget' >= 0 /\ nextAttempt' \in 0..MaxAttempts
  <2>1. ReservingWorkers \in SUBSET Worker /\ ReservingWorkers' \in SUBSET Worker
    BY DEF ReservingWorkers
  <2>2. \A v \in Worker : /\ v \in ReservingWorkers <=> worker[v] \in Pending
                          /\ v \in ReservingWorkers' <=> worker'[v] \in Pending
    BY DEF ReservingWorkers, Pending
  <2>3. \A v \in Worker \ {w} : v \in ReservingWorkers <=> v \in ReservingWorkers'
    BY <1>1, <2>2
  <2> DEFINE S == ReservingWorkers
             T == ReservingWorkers'
             n == Cardinality(ReservingClients)
  <2>4. /\ (w \in S <=> w \in T) => Cardinality(T) = Cardinality(S)
        /\ w \in S /\ w \notin T => Cardinality(T) = Cardinality(S) - 1
        /\ Cardinality(S) \in Nat /\ Cardinality(T) \in Nat
    BY <1>1, <2>1, <2>3, CountMoves
  <2>5. /\ WorkerAttempt(w) /\ Budget >= 0 /\ n \in Nat
        /\ Budget = MaxAttempts - nextAttempt - n - Cardinality(S)
        /\ Budget' = MaxAttempts - nextAttempt' - n - Cardinality(T)
    BY <1>2, BudgetCounts DEF WorkerEffect, IInv, Budget, ReservingClients, ReservingWorkers,
                              Reserving
  <2>6. /\ w \in S <=> worker[w] \in Pending
        /\ w \in T <=> worker'[w] \in Pending
    BY <2>2
  <2> HIDE DEF S, T, n
  <2> QED
    BY <1>1, <2>4, <2>5, <2>6 DEF WorkerAttempt
<1>5. TypeOK'
  BY <1>1, <1>3, <1>4 DEF WorkerEffect, IInv, TypeOK
<1> QED
  BY <1>1, <1>2, <1>3, <1>4, <1>5 DEF IInv

-----------------------------------------------------------------------------
(* The steps of the pool as a whole, and of its surroundings. *)

\* reconcile never starts more dials than the pool lacks.
LEMMA NeedFits ==
    ASSUME IInv, NEW kept \in 0..idle
    PROVE  /\ AfterDrain(kept) \in 0..idle
           /\ LET k == AfterDrain(kept) IN
              /\ Need(k) \in Nat
              /\ k + warming + Need(k) <= Desired
              /\ warming + Need(k) <= MaxConcurrent
              /\ Need(k) <= Budget
<1>1. /\ idle \in Nat /\ warming \in 0..MaxConcurrent /\ warming \in Nat /\ Desired \in Nat
      /\ MaxConcurrent \in Nat /\ idle + warming <= Desired /\ Budget >= 0
  BY PoolAssumption DEF IInv, TypeOK
<1>2. Budget \in Nat
  <2>1. nextAttempt \in Nat /\ MaxAttempts \in Nat
    BY PoolAssumption DEF IInv, TypeOK
  <2> QED
    BY <1>1, <2>1, BudgetCounts
<1>3. Cardinality(Off) \in Nat
  <2>1. Off \in SUBSET Worker
    BY DEF Off
  <2> QED
    BY <2>1, PoolAssumption, FS_Subset, FS_CardinalityType
<1>4. PICK k \in 0..idle : k = AfterDrain(kept)
  BY <1>1 DEF AfterDrain
<1>5. k \in Nat /\ k + warming <= Desired
  BY <1>1, <1>4
<1>6. CASE routeUnavailable \/ retry > 0
  <2>1. Need(k) = 0
    BY <1>6 DEF Need
  <2> QED
    BY <1>1, <1>2, <1>4, <1>5, <2>1
<1>7. CASE ~(routeUnavailable \/ retry > 0)
  <2> DEFINE a == Minus(Desired, k + warming)
             b == Minus(MaxConcurrent, warming)
  <2>1. /\ a \in Nat /\ k + warming + a <= Desired
        /\ b \in Nat /\ warming + b <= MaxConcurrent
    BY <1>1, <1>5 DEF Minus
  <2>2. Need(k) = Least({a, b, Cardinality(Off), Budget})
    BY <1>7 DEF Need
  <2> HIDE DEF a, b
  <2>3. LET m == Least({a, b, Cardinality(Off), Budget}) IN
          m \in Nat /\ m <= a /\ m <= b /\ m <= Cardinality(Off) /\ m <= Budget
    BY <1>2, <1>3, <2>1, LeastOfFour
  <2>4. Need(k) \in Nat /\ Need(k) <= a /\ Need(k) <= b /\ Need(k) <= Budget
    BY <2>2, <2>3
  <2> QED
    BY <1>1, <1>2, <1>4, <1>5, <2>1, <2>4
<1> QED
  BY <1>6, <1>7

LEMMA ReconcileKeeps ==
    ASSUME IInv, Reconcile
    PROVE  IInv'
<1>1. PICK kept \in 0..idle :
        /\ idle' = AfterDrain(kept)
        /\ warming' = warming + Need(AfterDrain(kept))
        /\ \E W \in SUBSET Off :
             /\ Cardinality(W) = Need(AfterDrain(kept))
             /\ worker' = [w \in Worker |-> IF w \in W THEN "launched" ELSE worker[w]]
  BY DEF Reconcile
<1>2. PICK n \in Nat : n = Need(AfterDrain(kept))
  BY NeedFits
<1>3. PICK W \in SUBSET Off :
        /\ Cardinality(W) = n
        /\ worker' = [w \in Worker |-> IF w \in W THEN "launched" ELSE worker[w]]
  BY <1>1, <1>2
<1>4. /\ idle' \in 0..idle /\ warming' = warming + n /\ n \in Nat
      /\ idle' + warming + n <= Desired /\ warming + n <= MaxConcurrent /\ n <= Budget
  BY <1>1, <1>2, NeedFits
<1>5. /\ idle \in 0..Desired /\ idle \in Nat /\ warming \in Nat /\ Desired \in Nat
      /\ MaxConcurrent \in Nat /\ MaxAttempts \in Nat /\ nextAttempt \in Nat
      /\ worker \in [Worker -> WorkerStates] /\ IsFiniteSet(Worker)
  BY PoolAssumption DEF IInv, TypeOK
<1>6. /\ client' = client /\ permits' = permits /\ ~stopped /\ stopped' = stopped
      /\ nextAttempt' = nextAttempt
  BY DEF Reconcile
<1>7. PermittedClients' = PermittedClients /\ ReservingClients' = ReservingClients
  BY <1>6 DEF PermittedClients, ReservingClients
<1>8. ASSUME NEW S \in SUBSET Worker, S \cap W = {}
      PROVE  Cardinality(S \cup W) = Cardinality(S) + n /\ Cardinality(S) \in Nat
  <2>1. W \in SUBSET Worker
    BY DEF Off
  <2>2. IsFiniteSet(S) /\ IsFiniteSet(W)
    BY <1>5, <2>1, FS_Subset
  <2>3. Cardinality(S \cup W) = Cardinality(S) + Cardinality(W) - Cardinality(S \cap W)
    BY <2>2, FS_Union
  <2>4. Cardinality(S \cap W) = 0
    BY <1>8, FS_EmptySet
  <2>5. Cardinality(S) \in Nat
    BY <2>2, FS_CardinalityType
  <2> QED
    BY <1>3, <2>3, <2>4, <2>5
<1>9. warming' = Cardinality(InProgress')
  <2>1. InProgress' = InProgress \cup W
    BY <1>3, <1>5 DEF InProgress, Off
  <2>2. InProgress \in SUBSET Worker /\ InProgress \cap W = {}
    BY DEF InProgress, Off
  <2>3. Cardinality(InProgress \cup W) = Cardinality(InProgress) + n
    BY <1>8, <2>2
  <2>4. warming = Cardinality(InProgress)
    BY DEF IInv
  <2> QED
    BY <1>4, <2>1, <2>3, <2>4
<1>10. Budget' >= 0
  <2>1. ReservingWorkers' = ReservingWorkers \cup W
    BY <1>3, <1>5 DEF ReservingWorkers, Off
  <2>2. ReservingWorkers \in SUBSET Worker /\ ReservingWorkers \cap W = {}
    BY DEF ReservingWorkers, Off
  <2>3. Cardinality(ReservingWorkers \cup W) = Cardinality(ReservingWorkers) + n
        /\ Cardinality(ReservingWorkers) \in Nat
    BY <1>8, <2>2
  <2>4. /\ Budget = MaxAttempts - nextAttempt - Cardinality(ReservingClients)
                      - Cardinality(ReservingWorkers)
        /\ Cardinality(ReservingClients) \in Nat
    BY BudgetCounts
  <2>5. Budget' = MaxAttempts - nextAttempt - Cardinality(ReservingClients)
                    - Cardinality(ReservingWorkers')
    BY <1>6, <1>7 DEF Budget, ReservingClients, ReservingWorkers, Reserving
  <2> QED
    BY <1>4, <1>5, <2>1, <2>3, <2>4, <2>5
<1>11. worker' \in [Worker -> WorkerStates]
  BY <1>3, <1>5 DEF WorkerStates
<1>12. idle' \in 0..Desired /\ warming' \in 0..MaxConcurrent
  BY <1>4, <1>5
<1>13. TypeOK'
  BY <1>11, <1>12 DEF Reconcile, IInv, TypeOK
<1> QED
  BY <1>4, <1>6, <1>7, <1>9, <1>10, <1>13 DEF IInv

LEMMA InitKeeps ==
    Init => IInv
<1> SUFFICES ASSUME Init PROVE IInv
  OBVIOUS
<1>1. NewState \in RouteState
  BY BreakerAssumption DEF NewState, RouteState
<1>2. TypeOK
  <2>1. /\ 0 \in 0..MaxAttempts /\ 0 \in 0..PermitLimit /\ 0 \in 0..Desired
        /\ 0 \in 0..MaxConcurrent /\ 0 \in 0..RetryMax /\ 0 \in 0..0
    BY PoolAssumption
  <2>2. /\ worker \in [Worker -> WorkerStates] /\ client \in [Client -> ClientStates]
        /\ id \in [Client \cup Worker -> 0..MaxAttempts]
    BY <2>1 DEF Init, WorkerStates, ClientStates
  <2>3. /\ circuit \in RouteState /\ nextAttempt \in 0..MaxAttempts /\ unhealthy \in BOOLEAN
        /\ permits \in 0..PermitLimit /\ stopped \in BOOLEAN
    BY <1>1, <2>1 DEF Init
  <2>4. /\ idle \in 0..Desired /\ warming \in 0..MaxConcurrent /\ backoff \in 0..RetryMax
        /\ retry \in 0..backoff
    BY <2>1 DEF Init
  <2> QED
    BY <2>2, <2>3, <2>4 DEF TypeOK
<1>3. InProgress = {} /\ PermittedClients = {} /\ ReservingClients = {} /\ ReservingWorkers = {}
  BY DEF Init, InProgress, PermittedClients, Permitted, ReservingClients, Reserving,
         ReservingWorkers
<1>4. Cardinality({}) = 0
  BY FS_EmptySet
<1>5. Budget >= 0
  BY <1>3, <1>4, BudgetCounts, PoolAssumption DEF Init
<1> QED
  BY <1>2, <1>3, <1>4, <1>5, PoolAssumption DEF Init, IInv

\* Steps that leave clients, workers and attempts alone.
LEMMA SurroundingsKeep ==
    ASSUME IInv, BeginStop \/ HealthChanges \/ Tick \/ UNCHANGED vars
    PROVE  IInv'
<1>1. UNCHANGED <<client, worker, permits, warming, nextAttempt>>
  BY DEF BeginStop, HealthChanges, Tick, vars, pool
<1>2. /\ InProgress' = InProgress /\ PermittedClients' = PermittedClients /\ Budget' = Budget
  BY <1>1 DEF InProgress, PermittedClients, Budget
<1>3. /\ idle \in 0..Desired /\ idle \in Nat /\ warming \in Nat /\ Desired \in Nat
      /\ backoff \in 0..RetryMax /\ retry \in 0..backoff /\ backoff \in Nat /\ retry \in Nat
      /\ circuit \in RouteState /\ RetryMax \in Nat /\ idle + warming <= Desired
  BY PoolAssumption DEF IInv, TypeOK
<1>4. /\ idle' \in 0..idle /\ (stopped' => idle' = 0) /\ stopped' \in BOOLEAN
  <2>1. (stopped => idle = 0) /\ stopped \in BOOLEAN
    BY DEF IInv, TypeOK
  <2>2. (idle' = idle /\ stopped' = stopped) \/ (idle' = 0 /\ stopped' = TRUE)
    BY DEF BeginStop, HealthChanges, Tick, vars, pool
  <2>3. idle \in 0..idle /\ 0 \in 0..idle
    BY <1>3
  <2>4. CASE idle' = idle /\ stopped' = stopped
    BY <2>1, <2>3, <2>4
  <2>5. CASE idle' = 0 /\ stopped' = TRUE
    BY <2>3, <2>5
  <2> QED
    BY <2>2, <2>4, <2>5
<1>5. circuit' \in RouteState
  <2>1. AfterTick(circuit) \in RouteState
    BY <1>3, BreakerTyped
  <2> QED
    BY <1>3, <2>1 DEF BeginStop, HealthChanges, Tick, vars
<1>6. backoff' = backoff /\ retry' \in 0..backoff
  BY <1>3 DEF BeginStop, HealthChanges, Tick, Minus, vars, pool
<1>7. unhealthy' \in BOOLEAN
  BY DEF BeginStop, HealthChanges, Tick, vars, IInv, TypeOK
<1>8. id' = id
  BY DEF BeginStop, HealthChanges, Tick, vars
<1>9. idle' \in 0..Desired /\ idle' + warming <= Desired
  <2>1. idle' \in 0..idle
    BY <1>4
  <2>2. idle \in Nat /\ warming \in Nat /\ Desired \in Nat /\ idle + warming <= Desired
    BY <1>3
  <2>3. PICK k \in 0..idle : k = idle'
    BY <2>1
  <2>4. k \in Nat /\ k <= idle
    BY <2>2, <2>3
  <2>5. k \in 0..Desired /\ k + warming <= Desired
    BY <2>2, <2>4
  <2> QED
    BY <2>3, <2>5
<1>10. TypeOK'
  BY <1>1, <1>3, <1>4, <1>5, <1>6, <1>7, <1>8, <1>9 DEF IInv, TypeOK
<1> QED
  BY <1>1, <1>2, <1>4, <1>9, <1>10 DEF IInv

LEMMA NextKeeps ==
    IInv /\ [Next]_vars => IInv'
<1> SUFFICES ASSUME IInv, [Next]_vars PROVE IInv'
  OBVIOUS
<1>1. ASSUME NEW c \in Client, ClientStep(c) PROVE IInv'
  BY <1>1, ClientStepEffect, ClientKeeps
<1>2. ASSUME NEW w \in Worker, WorkerStep(w) PROVE IInv'
  BY <1>2, WorkerStepEffect, WorkerEffectKeeps
<1> QED
  BY <1>1, <1>2, ReconcileKeeps, SurroundingsKeep DEF Next

-----------------------------------------------------------------------------
\* The counts of dials, permits and reserved attempts stay exact over any
\* interleaving of clients, dialOne goroutines, reconcile and shutdown.
THEOREM Invariance == Spec => []IInv
BY InitKeeps, NextKeeps, PTL DEF Spec

\* For every pool size and number of goroutines, prewarming never holds more
\* connections than pool.desired, counting those being dialled; pool.warming
\* is exact, and a stopped pool stays empty although dials that passed their
\* checks before beginStop still finish.
THEOREM PoolStaysBounded == Spec => []PoolBounded
<1>1. IInv => PoolBounded
  BY DEF IInv, PoolBounded
<1> QED
  BY <1>1, Invariance, PTL

\* For every number of clients, each way out of outboundDialRouteWithOptions
\* gives the bulkhead permit back exactly once.
THEOREM PermitsAreReturned == Spec => []PermitsBalanced
<1>1. IInv => PermitsBalanced
  BY DEF IInv, PermitsBalanced, PermittedClients, Permitted
<1> QED
  BY <1>1, Invariance, PTL

-----------------------------------------------------------------------------
(* The dial bulkhead, as module DialBulkhead has it. *)

\* A dialer has a waiter exactly while it is between PushBack and the end of
\* the select or of cancelWaiter.
CallOK ==
    \A d \in Dialer : waiter[d] # "none" <=> call[d] \in {"selecting", "cancelling"}

\* ahead orders the waiters of the list: of two, one is in front of the other,
\* and it mentions nobody else.
QueueOK ==
    /\ \A d \in Dialer : ahead[d] \subseteq Queued \ {d}
    /\ \A d, e \in Queued : d # e => (d \in ahead[e] <=> e \notin ahead[d])

\* The inductive invariant.  The limits alone are not inductive: that a release
\* hands its slot to at most one waiter needs NoGrantableWaiter, and that the
\* counter it lowers was positive needs the accounting.
BulkheadInv ==
    /\ BulkheadTypeOK
    /\ CallOK
    /\ QueueOK
    /\ WithinLimits
    /\ SlotAccounting
    /\ NoGrantableWaiter

-----------------------------------------------------------------------------
\* The bulkhead counts with the cardinality of the theorems about finite sets.
LEMMA SameCount == \A S : Cardinality(S) = Cardinality(S)
BY DEF Cardinality, Cardinality

\* Every subset of the dialers is finite and has a natural cardinality.
LEMMA DialersFinite ==
    ASSUME NEW S \in SUBSET Dialer
    PROVE  IsFiniteSet(S) /\ Cardinality(S) \in Nat
BY DialerAssumption, FS_Subset, FS_CardinalityType

\* Adding a dialer to, and removing one from, a set of dialers.
LEMMA CardinalityStep ==
    ASSUME NEW S \in SUBSET Dialer, NEW d \in Dialer
    PROVE  /\ d \notin S => Cardinality(S \cup {d}) = Cardinality(S) + 1
           /\ d \in S => Cardinality(S \ {d}) = Cardinality(S) - 1
           /\ d \in S => Cardinality(S) > 0
<1>1. IsFiniteSet(S) /\ Cardinality(S) \in Nat
  BY DialersFinite
<1>2. d \notin S => Cardinality(S \cup {d}) = Cardinality(S) + 1
  BY <1>1, FS_AddElement
<1>3. d \in S => Cardinality(S \ {d}) = Cardinality(S) - 1
  BY <1>1, FS_RemoveElement
<1>4. d \in S => Cardinality(S) > 0
  BY <1>1, FS_EmptySet
<1> QED
  BY <1>2, <1>3, <1>4

\* An owner's slot is counted, so releaseLocked really decrements.
LEMMA OwnerCounted ==
    ASSUME BulkheadInv, NEW d \in Owners
    PROVE  /\ active > 0 /\ ActiveAfterRelease = active - 1
           /\ activeByTarget[target[d]] > 0
           /\ ByTargetAfterRelease(target[d])
                = [activeByTarget EXCEPT ![target[d]] = @ - 1]
           /\ target[d] \in Target /\ d \in Dialer
           /\ d \in OwnersOf(target[d])
<1>1. d \in Dialer /\ target[d] \in Target /\ d \in OwnersOf(target[d])
  BY DEF BulkheadInv, BulkheadTypeOK, Owners, OwnersOf
<1>2. Owners \in SUBSET Dialer /\ OwnersOf(target[d]) \in SUBSET Dialer
  BY DEF Owners, OwnersOf
<1>3. active > 0
  BY <1>1, <1>2, CardinalityStep, SameCount DEF BulkheadInv, SlotAccounting
<1>4. activeByTarget[target[d]] > 0
  BY <1>1, <1>2, CardinalityStep, SameCount DEF BulkheadInv, SlotAccounting
<1>5. ActiveAfterRelease = active - 1
  BY <1>3 DEF ActiveAfterRelease, CountDown
<1>6. ByTargetAfterRelease(target[d]) = [activeByTarget EXCEPT ![target[d]] = @ - 1]
  BY <1>1, <1>4 DEF ByTargetAfterRelease, CountDown, BulkheadInv, BulkheadTypeOK
<1> QED
  BY <1>1, <1>3, <1>4, <1>5, <1>6

\* One release frees room for at most one waiter: the loop of
\* grantWaitersLocked never grants two.
LEMMA GrantsAtMostOne ==
    ASSUME BulkheadInv, NEW d \in Owners, NEW G \in SUBSET Queued,
           GrantScan(G, ActiveAfterRelease, ByTargetAfterRelease(target[d])),
           NEW x \in G, NEW y \in G
    PROVE  x = y
<1>1. SUFFICES ASSUME NEW u \in G, NEW v \in G, u \in ahead[v] PROVE FALSE
  BY DEF BulkheadInv, QueueOK
<1> DEFINE byT == ByTargetAfterRelease(target[d])
           before == G \cap ahead[v]
<1>2. u \in Queued /\ v \in Queued /\ u \in Dialer /\ v \in Dialer
  BY DEF Queued
<1>3. target[u] \in Target /\ target[v] \in Target
  BY <1>2 DEF BulkheadInv, BulkheadTypeOK
<1>4. before \in SUBSET Dialer /\ u \in before
  BY <1>1 DEF Queued
<1>5. Cardinality(before) \in Nat /\ Cardinality(before) > 0
  BY <1>2, <1>4, DialersFinite, CardinalityStep
<1>6. /\ ActiveAfterRelease + Cardinality(before) < GlobalLimit
      /\ byT[target[v]] + Cardinality({e \in before : target[e] = target[v]})
           < PerTargetLimit
  BY <1>2, SameCount DEF GrantScan
<1>7. active < GlobalLimit
  <2>1. ActiveAfterRelease = active - 1 /\ active \in Nat
    BY OwnerCounted DEF BulkheadInv, BulkheadTypeOK
  <2> HIDE DEF before
  <2> QED
    BY <1>5, <1>6, <2>1, LimitsAssumption
\* so only per-target limits held the waiters back before the release
<1>8. activeByTarget[target[u]] >= PerTargetLimit /\ activeByTarget[target[v]] >= PerTargetLimit
  BY <1>2, <1>3, <1>7, LimitsAssumption
     DEF BulkheadInv, NoGrantableWaiter, canAdmitLocked, BulkheadTypeOK
<1>9. /\ byT = [activeByTarget EXCEPT ![target[d]] = @ - 1]
      /\ target[d] \in Target /\ activeByTarget \in [Target -> Nat]
  BY OwnerCounted DEF BulkheadInv, BulkheadTypeOK
<1> HIDE DEF byT
<1>10. byT[target[u]] < PerTargetLimit
  <2>1. byT[target[u]] + Cardinality({e \in G \cap ahead[u] : target[e] = target[u]})
           < PerTargetLimit
    BY <1>2, SameCount DEF GrantScan, byT
  <2>2. Cardinality({e \in G \cap ahead[u] : target[e] = target[u]}) \in Nat
    BY DialersFinite DEF Queued
  <2>3. byT[target[u]] \in Int
    BY <1>3, <1>9
  <2> QED
    BY <2>1, <2>2, <2>3, LimitsAssumption
<1> DEFINE same == {e \in before : target[e] = target[v]}
<1>11. byT[target[v]] + Cardinality(same) < PerTargetLimit
  BY <1>6
<1>12. same \in SUBSET Dialer /\ Cardinality(same) \in Nat
  BY <1>4, DialersFinite
<1> HIDE DEF same
<1>13. byT[target[v]] \in Int /\ byT[target[v]] < PerTargetLimit
  BY <1>3, <1>9, <1>11, <1>12, LimitsAssumption
<1>14. target[u] = target[d] /\ target[v] = target[d]
  BY <1>3, <1>8, <1>9, <1>10, <1>13, LimitsAssumption
<1>15. Cardinality(same) > 0
  <2>1. u \in same
    BY <1>4, <1>14 DEF same
  <2> QED
    BY <1>2, <1>12, <2>1, CardinalityStep
<1> QED
  BY <1>3, <1>8, <1>9, <1>11, <1>12, <1>14, <1>15, LimitsAssumption

\* The size of a set of owners that loses d, if it has it, and gains the
\* disjoint set G.
LEMMA OwnersAfterRelease ==
    ASSUME NEW S \in SUBSET Dialer, NEW G \in SUBSET Dialer, NEW d \in Dialer,
           S \cap G = {}
    PROVE  /\ Cardinality(G) \in Nat
           /\ Cardinality((S \ {d}) \cup G)
                = Cardinality(S) - (IF d \in S THEN 1 ELSE 0) + Cardinality(G)
<1>1. /\ IsFiniteSet(S \ {d}) /\ Cardinality(S \ {d}) \in Nat
      /\ IsFiniteSet(G) /\ Cardinality(G) \in Nat
      /\ IsFiniteSet(S) /\ Cardinality(S) \in Nat
  BY DialersFinite
<1>2. Cardinality(S \ {d}) = Cardinality(S) - (IF d \in S THEN 1 ELSE 0)
  BY <1>1, FS_RemoveElement
<1>3. Cardinality((S \ {d}) \cap G) = 0
  <2>1. (S \ {d}) \cap G = {}
    OBVIOUS
  <2> QED
    BY <2>1, FS_EmptySet
<1>4. Cardinality((S \ {d}) \cup G)
        = Cardinality(S \ {d}) + Cardinality(G) - Cardinality((S \ {d}) \cap G)
  BY <1>1, FS_Union
<1> QED
  BY <1>1, <1>2, <1>3, <1>4

-----------------------------------------------------------------------------
\* Releasing an owner's slot and serving the list preserves the invariant;
\* permit.release and both cancellation paths rest on it.
LEMMA BulkheadRelease ==
    ASSUME BulkheadInv, NEW d \in Owners,
           ReleaseAndGrant(d, "none"),
           call' = [call EXCEPT ![d] = "idle"],
           target' = target,
           cancelled' \in [Dialer -> BOOLEAN],
           result' \in [Dialer -> Results]
    PROVE  BulkheadInv'
<1> DEFINE byT == ByTargetAfterRelease(target[d])
<1>1. PICK G \in SUBSET Queued :
        /\ GrantScan(G, ActiveAfterRelease, byT)
        /\ active' = ActiveAfterRelease + Cardinality(G)
        /\ activeByTarget' =
             [t \in Target |-> byT[t] + Cardinality({e \in G : target[e] = t})]
        /\ waiting' = waiting - Cardinality(G)
        /\ ahead' = [e \in Dialer |-> IF e \in G THEN {} ELSE ahead[e] \ G]
        /\ waiter' = [e \in Dialer |-> IF e \in G THEN "granted"
                                       ELSE IF e = d THEN "none" ELSE waiter[e]]
  BY SameCount DEF ReleaseAndGrant
<1>2. /\ d \in Dialer /\ target[d] \in Target
      /\ active > 0 /\ ActiveAfterRelease = active - 1
      /\ activeByTarget[target[d]] > 0
      /\ byT = [activeByTarget EXCEPT ![target[d]] = @ - 1]
      /\ d \in OwnersOf(target[d])
  BY OwnerCounted
<1>3. Queued \in SUBSET Dialer /\ d \notin Queued
  BY <1>2 DEF Queued, Owners, BulkheadInv, CallOK, BulkheadTypeOK
<1>4. BulkheadTypeOK /\ CallOK /\ QueueOK /\ WithinLimits /\ SlotAccounting /\ NoGrantableWaiter
  BY DEF BulkheadInv
<1>5. G \in SUBSET Dialer /\ d \notin G
  BY <1>3
<1>6. Queued' = Queued \ G
  BY <1>1, <1>2, <1>3, <1>4 DEF Queued, BulkheadTypeOK
<1>7. CallOK'
  BY <1>1, <1>2, <1>3, <1>4, <1>5 DEF CallOK, BulkheadTypeOK, Queued, CallStates, Owners
<1>8. QueueOK'
  BY <1>1, <1>4, <1>5, <1>6 DEF QueueOK, BulkheadTypeOK, Queued
<1>9. Owners' = (Owners \ {d}) \cup G
  BY <1>1, <1>2, <1>3, <1>4, <1>5 DEF Owners, Queued, BulkheadTypeOK, CallOK
\* the accounting moves one slot out and Cardinality(G) slots in
<1>10. /\ Cardinality(G) \in Nat
       /\ Cardinality(Owners') = active - 1 + Cardinality(G)
  <2>1. Owners \in SUBSET Dialer /\ Owners \cap G = {}
    BY <1>4, <1>5 DEF Owners, Queued, CallOK, BulkheadTypeOK
  <2> QED
    BY <1>2, <1>4, <1>5, <1>9, <2>1, OwnersAfterRelease, SameCount
       DEF SlotAccounting, BulkheadTypeOK
<1>11. ASSUME NEW t \in Target
       PROVE  /\ Cardinality({e \in G : target[e] = t}) \in Nat
              /\ byT[t] \in Nat
              /\ Cardinality(OwnersOf(t)')
                   = byT[t] + Cardinality({e \in G : target[e] = t})
  <2> DEFINE Gt == {e \in G : target[e] = t}
  <2>1. OwnersOf(t)' = (OwnersOf(t) \ {d}) \cup Gt
    BY <1>9 DEF OwnersOf
  <2>2. OwnersOf(t) \in SUBSET Dialer /\ Gt \in SUBSET Dialer /\ OwnersOf(t) \cap Gt = {}
    BY <1>5, <1>4 DEF OwnersOf, Owners, Queued, CallOK, BulkheadTypeOK
  <2>3. byT[t] = Cardinality(OwnersOf(t)) - (IF d \in OwnersOf(t) THEN 1 ELSE 0)
    BY <1>2, <1>4, SameCount DEF SlotAccounting, OwnersOf, BulkheadTypeOK
  <2>4. byT[t] \in Nat
    BY <1>2, <1>4 DEF BulkheadTypeOK
  <2> HIDE DEF Gt, byT
  <2>5. /\ Cardinality(Gt) \in Nat
        /\ Cardinality(OwnersOf(t)') = byT[t] + Cardinality(Gt)
    BY <1>2, <2>1, <2>2, <2>3, OwnersAfterRelease
  <2> QED
    BY <2>4, <2>5 DEF Gt
<1>12. waiting' = Cardinality(Queued') /\ waiting' \in Nat
  <2>1. Cardinality(Queued \ G) = Cardinality(Queued) - Cardinality(Queued \cap G)
    BY <1>3, DialersFinite, FS_Difference
  <2>2. Queued \cap G = G
    OBVIOUS
  <2>3. Cardinality(Queued \ G) \in Nat
    BY <1>3, DialersFinite
  <2> QED
    BY <1>1, <1>4, <1>6, <2>1, <2>2, <2>3, SameCount DEF SlotAccounting
<1>13. SlotAccounting'
  BY <1>1, <1>2, <1>10, <1>11, <1>12, SameCount DEF SlotAccounting
<1>14. BulkheadTypeOK'
  <2>1. active' \in Nat
    BY <1>1, <1>2, <1>4, <1>10 DEF BulkheadTypeOK
  <2>2. activeByTarget' \in [Target -> Nat]
    BY <1>1, <1>11
  <2> QED
    BY <1>1, <1>2, <1>4, <1>5, <1>12, <2>1, <2>2 DEF BulkheadTypeOK, CallStates
\* at most one waiter is granted, and it was found to fit
<1>15. WithinLimits'
  <2>1. CASE G = {}
    <3>1. Cardinality(G) = 0 /\ \A t \in Target : {e \in G : target[e] = t} = {}
      BY <2>1, FS_EmptySet
    <3>2. active' = active - 1 /\ \A t \in Target : activeByTarget'[t] = byT[t]
      BY <1>1, <1>2, <1>4, <1>11, <3>1, FS_EmptySet DEF BulkheadTypeOK
    <3> QED
      BY <1>2, <1>4, <3>2, LimitsAssumption DEF WithinLimits, BulkheadTypeOK
  <2>2. CASE G # {}
    <3>1. PICK g \in Queued : G = {g}
      BY <1>1, <2>2, GrantsAtMostOne
    <3>2. G \cap ahead[g] = {} /\ {e \in G \cap ahead[g] : target[e] = target[g]} = {}
      BY <1>3, <1>4, <3>1 DEF QueueOK
    <3>3. Cardinality(G) = 1 /\ Cardinality({}) = 0
      BY <3>1, FS_Singleton, FS_EmptySet
    <3>4. /\ ActiveAfterRelease + Cardinality(G \cap ahead[g]) < GlobalLimit
          /\ byT[target[g]]
               + Cardinality({e \in G \cap ahead[g] : target[e] = target[g]}) < PerTargetLimit
      BY <1>1, <3>1, SameCount DEF GrantScan
    <3>5. ActiveAfterRelease + 0 < GlobalLimit /\ byT[target[g]] + 0 < PerTargetLimit
      BY <3>2, <3>3, <3>4
    <3>6. target[g] \in Target
      BY <1>3, <1>4 DEF BulkheadTypeOK
    <3>7. active' <= GlobalLimit
      BY <1>1, <1>2, <1>4, <3>3, <3>5, LimitsAssumption DEF BulkheadTypeOK
    <3>8. ASSUME NEW t \in Target PROVE activeByTarget'[t] <= PerTargetLimit
      <4>1. activeByTarget'[t] = byT[t] + Cardinality({e \in G : target[e] = t})
        BY <1>1
      <4>2. CASE t = target[g]
        <5>1. {e \in G : target[e] = t} = G
          BY <3>1, <4>2
        <5>2. byT[t] \in Nat
          BY <1>11
        <5>3. activeByTarget'[t] = byT[t] + 1
          BY <3>3, <4>1, <5>1
        <5>4. byT[t] + 0 < PerTargetLimit
          BY <3>5, <4>2
        <5> HIDE DEF byT
        <5> QED
          BY <5>2, <5>3, <5>4, LimitsAssumption
      <4>3. CASE t # target[g]
        <5>1. {e \in G : target[e] = t} = {}
          BY <3>1, <4>3
        <5>2. activeByTarget'[t] = byT[t] + 0
          BY <3>3, <4>1, <5>1
        <5>3. byT[t] \in Nat /\ byT[t] <= activeByTarget[t]
          BY <1>2, <1>4 DEF BulkheadTypeOK
        <5> HIDE DEF byT
        <5> QED
          BY <1>4, <5>2, <5>3, LimitsAssumption DEF WithinLimits, BulkheadTypeOK
      <4> QED
        BY <4>2, <4>3
    <3> QED
      BY <3>7, <3>8 DEF WithinLimits
  <2> QED
    BY <2>1, <2>2
\* a waiter the scan skipped had no room left by the grants before it
<1>16. NoGrantableWaiter'
  <2>1. SUFFICES ASSUME NEW q \in Queued, q \notin G
                 PROVE  ~canAdmitLocked(target[q])'
    BY <1>6 DEF NoGrantableWaiter
  <2> DEFINE before == G \cap ahead[q]
             same == {e \in before : target[e] = target[q]}
             Gq == {e \in G : target[e] = target[q]}
  <2>2. target[q] \in Target
    BY <1>3, <1>4 DEF BulkheadTypeOK
  <2>3. \/ ~(ActiveAfterRelease + Cardinality(before) < GlobalLimit)
        \/ ~(byT[target[q]] + Cardinality(same) < PerTargetLimit)
    BY <1>1, <2>1, SameCount DEF GrantScan
  <2>4. /\ Cardinality(before) \in Nat /\ Cardinality(before) <= Cardinality(G)
        /\ Cardinality(same) \in Nat /\ Cardinality(same) <= Cardinality(Gq)
    <3>1. before \in SUBSET G /\ same \in SUBSET Gq
      OBVIOUS
    <3>2. G \in SUBSET Dialer /\ Gq \in SUBSET Dialer
      BY <1>5
    <3> HIDE DEF before, same, Gq
    <3>3. IsFiniteSet(G) /\ IsFiniteSet(Gq)
      BY <3>2, DialersFinite
    <3> QED
      BY <3>1, <3>3, FS_Subset, FS_CardinalityType
  <2>5. /\ active' = ActiveAfterRelease + Cardinality(G)
        /\ activeByTarget'[target[q]] = byT[target[q]] + Cardinality(Gq)
        /\ Cardinality(G) \in Nat /\ Cardinality(Gq) \in Nat
        /\ byT[target[q]] \in Nat /\ ActiveAfterRelease \in Nat
    <3>1. ActiveAfterRelease \in Nat
      BY <1>2, <1>4 DEF BulkheadTypeOK
    <3>2. Cardinality(Gq) \in Nat /\ byT[target[q]] \in Nat
      BY <1>11, <2>2
    <3>3. activeByTarget'[target[q]] = byT[target[q]] + Cardinality(Gq)
      BY <1>1, <2>2
    <3> QED
      BY <1>1, <1>10, <3>1, <3>2, <3>3
  <2> HIDE DEF before, same, Gq, byT
  <2>6. active' >= GlobalLimit \/ activeByTarget'[target[q]] >= PerTargetLimit
    BY <2>3, <2>4, <2>5, LimitsAssumption
  <2> QED
    BY <1>14, <2>2, <2>6, LimitsAssumption DEF canAdmitLocked, BulkheadTypeOK
<1> QED
  BY <1>7, <1>8, <1>13, <1>14, <1>15, <1>16 DEF BulkheadInv

-----------------------------------------------------------------------------
\* The invariant holds in the initial state.
LEMMA BulkheadInitKeeps == BulkheadInit => BulkheadInv
<1> SUFFICES ASSUME BulkheadInit PROVE BulkheadInv
  OBVIOUS
<1>1. Queued = {} /\ Owners = {} /\ \A t \in Target : OwnersOf(t) = {}
  BY DEF BulkheadInit, Queued, Owners, OwnersOf
<1>2. BulkheadTypeOK
  BY DEF BulkheadInit, BulkheadTypeOK, CallStates, Results
<1>3. CallOK /\ QueueOK
  BY <1>1 DEF BulkheadInit, CallOK, QueueOK
<1>4. WithinLimits
  BY LimitsAssumption DEF BulkheadInit, WithinLimits
<1>5. SlotAccounting
  BY <1>1, FS_EmptySet, SameCount DEF BulkheadInit, SlotAccounting
<1>6. NoGrantableWaiter
  BY <1>1 DEF NoGrantableWaiter
<1> QED
  BY <1>2, <1>3, <1>4, <1>5, <1>6 DEF BulkheadInv

\* A step that leaves the counters, the list and the ownership of slots alone
\* preserves the invariant.
LEMMA BulkheadNeutral ==
    ASSUME BulkheadInv, BulkheadTypeOK', CallOK',
           UNCHANGED <<active, activeByTarget, waiting, ahead>>,
           Queued' = Queued, Owners' = Owners,
           \A d \in Queued \cup Owners : target'[d] = target[d]
    PROVE  BulkheadInv'
<1>1. \A t \in Target : OwnersOf(t)' = OwnersOf(t)
  BY DEF OwnersOf
<1>2. QueueOK'
  BY DEF BulkheadInv, QueueOK
<1>3. WithinLimits' /\ SlotAccounting'
  BY <1>1 DEF BulkheadInv, WithinLimits, SlotAccounting
<1>4. NoGrantableWaiter'
  BY DEF BulkheadInv, NoGrantableWaiter, canAdmitLocked
<1> QED
  BY <1>2, <1>3, <1>4 DEF BulkheadInv

\* Every action preserves the invariant.
LEMMA BulkheadNextKeeps == BulkheadInv /\ [BulkheadNext]_(bulkheadVars) => BulkheadInv'
<1> SUFFICES ASSUME BulkheadInv, [BulkheadNext]_(bulkheadVars) PROVE BulkheadInv'
  OBVIOUS
<1>0. BulkheadTypeOK /\ CallOK /\ QueueOK /\ WithinLimits /\ SlotAccounting /\ NoGrantableWaiter
  BY DEF BulkheadInv
<1>1. ASSUME NEW d \in Dialer, NEW t \in Target, Enter(d, t) PROVE BulkheadInv'
  <2>1. BulkheadTypeOK'
    BY <1>0, <1>1 DEF BulkheadTypeOK, Enter, CallStates, Results
  <2>2. CallOK'
    BY <1>0, <1>1 DEF BulkheadTypeOK, Enter, CallOK
  <2>3. Queued' = Queued /\ Owners' = Owners /\ d \notin Queued \cup Owners
    BY <1>0, <1>1 DEF BulkheadTypeOK, Enter, CallOK, Queued, Owners
  <2>4. \A e \in Queued \cup Owners : target'[e] = target[e]
    BY <1>0, <1>1, <2>3 DEF BulkheadTypeOK, Enter, Queued, Owners
  <2> QED
    BY <1>1, <2>1, <2>2, <2>3, <2>4, BulkheadNeutral DEF Enter
<1>2. ASSUME NEW d \in Dialer,
             \/ CancelContext(d) \/ RefuseDone(d) \/ TryRejected(d)
             \/ AdmittedLive(d) \/ SelectDone(d) \/ SelectTimer(d) \/ SelectReady(d)
      PROVE  BulkheadInv'
  <2>1. BulkheadTypeOK'
    <3>1. result' \in [Dialer -> Results]
      <4>1. CASE TryRejected(d)
        BY <1>0, <4>1 DEF BulkheadTypeOK, TryRejected, Finish, saturationScopeLocked, Results
      <4> QED
        BY <1>0, <1>2, <4>1 DEF BulkheadTypeOK, CancelContext, RefuseDone, AdmittedLive,
           SelectDone, SelectTimer, SelectReady, Finish, Results
    <3>2. call' \in [Dialer -> CallStates]
      BY <1>0, <1>2 DEF BulkheadTypeOK, CancelContext, RefuseDone, TryRejected, AdmittedLive,
         SelectDone, SelectTimer, SelectReady, Finish, CallStates
    <3>3. cancelled' \in [Dialer -> BOOLEAN]
      BY <1>0, <1>2 DEF BulkheadTypeOK, CancelContext, RefuseDone, TryRejected, AdmittedLive,
         SelectDone, SelectTimer, SelectReady
    <3>4. waiter' \in [Dialer -> {"none", "queued", "granted"}]
      BY <1>0, <1>2 DEF BulkheadTypeOK, CancelContext, RefuseDone, TryRejected, AdmittedLive,
         SelectDone, SelectTimer, SelectReady
    <3>5. UNCHANGED <<active, activeByTarget, waiting, ahead, target>>
      BY <1>2 DEF CancelContext, RefuseDone, TryRejected, AdmittedLive,
         SelectDone, SelectTimer, SelectReady
    <3> QED
      BY <1>0, <3>1, <3>2, <3>3, <3>4, <3>5 DEF BulkheadTypeOK
  <2>2. CallOK'
    BY <1>0, <1>2 DEF BulkheadTypeOK, CancelContext, RefuseDone, TryRejected, AdmittedLive,
       SelectDone, SelectTimer, SelectReady, Finish, CallOK
  <2>3. Queued' = Queued /\ Owners' = Owners
    BY <1>0, <1>2 DEF BulkheadTypeOK, CancelContext, RefuseDone, TryRejected, AdmittedLive,
       SelectDone, SelectTimer, SelectReady, Finish, CallOK, Queued, Owners
  <2>4. target' = target /\ UNCHANGED <<active, activeByTarget, waiting, ahead>>
    BY <1>2 DEF CancelContext, RefuseDone, TryRejected, AdmittedLive,
       SelectDone, SelectTimer, SelectReady
  <2> QED
    BY <2>1, <2>2, <2>3, <2>4, BulkheadNeutral
<1>3. ASSUME NEW d \in Dialer, Admit(d) PROVE BulkheadInv'
  <2>1. BulkheadTypeOK' /\ CallOK'
    BY <1>0, <1>3 DEF BulkheadTypeOK, CallOK, Admit, admitLocked, CallStates
  <2>2. /\ Queued' = Queued /\ Owners' = Owners \cup {d}
        /\ d \notin Owners /\ d \notin Queued
    BY <1>0, <1>3 DEF BulkheadTypeOK, CallOK, Admit, Queued, Owners
  <2>3. QueueOK'
    BY <1>0, <1>3, <2>2 DEF QueueOK, Admit
  <2>4. WithinLimits'
    BY <1>0, <1>3, LimitsAssumption
       DEF BulkheadTypeOK, WithinLimits, Admit, admitLocked, canAdmitLocked
  <2>5. SlotAccounting'
    <3>1. active' = Cardinality(Owners')
      BY <1>0, <1>3, <2>2, CardinalityStep, SameCount
         DEF SlotAccounting, Admit, admitLocked, Owners
    <3>2. ASSUME NEW t \in Target PROVE activeByTarget'[t] = Cardinality(OwnersOf(t)')
      <4>1. OwnersOf(t) \in SUBSET Dialer /\ d \notin OwnersOf(t)
        BY <2>2 DEF OwnersOf, Owners
      <4>2. CASE t = target[d]
        <5>1. OwnersOf(t)' = OwnersOf(t) \cup {d}
          BY <1>3, <2>2, <4>2 DEF OwnersOf, Admit
        <5>2. activeByTarget'[t] = activeByTarget[t] + 1
          BY <1>0, <1>3, <4>2 DEF Admit, admitLocked, BulkheadTypeOK
        <5> QED
          BY <1>0, <4>1, <5>1, <5>2, CardinalityStep, SameCount DEF SlotAccounting
      <4>3. CASE t # target[d]
        <5>1. OwnersOf(t)' = OwnersOf(t)
          BY <1>3, <2>2, <4>3 DEF OwnersOf, Admit
        <5>2. activeByTarget'[t] = activeByTarget[t]
          BY <1>0, <1>3, <4>3 DEF Admit, admitLocked, BulkheadTypeOK
        <5> QED
          BY <1>0, <5>1, <5>2, SameCount DEF SlotAccounting
      <4> QED
        BY <4>2, <4>3
    <3> QED
      BY <1>0, <1>3, <2>2, <3>1, <3>2, SameCount DEF SlotAccounting, Admit
  \* the counters only grew
  <2>6. NoGrantableWaiter'
    BY <1>0, <1>3, <2>2, LimitsAssumption
       DEF NoGrantableWaiter, canAdmitLocked, Admit, admitLocked, BulkheadTypeOK, Queued
  <2> QED
    BY <2>1, <2>3, <2>4, <2>5, <2>6 DEF BulkheadInv
<1>4. ASSUME NEW d \in Dialer, Enqueue(d) PROVE BulkheadInv'
  <2>1. BulkheadTypeOK' /\ CallOK'
    BY <1>0, <1>4 DEF BulkheadTypeOK, CallOK, Enqueue, CallStates, Queued
  <2>2. /\ Queued' = Queued \cup {d} /\ Owners' = Owners
        /\ d \notin Queued /\ Queued \in SUBSET Dialer
    BY <1>0, <1>4 DEF BulkheadTypeOK, CallOK, Enqueue, Queued, Owners
  <2>3. QueueOK'
    BY <1>0, <1>4, <2>2 DEF QueueOK, Enqueue, BulkheadTypeOK, Queued
  <2>4. WithinLimits'
    BY <1>0, <1>4 DEF WithinLimits, Enqueue
  <2>5. SlotAccounting'
    <3>1. waiting' = Cardinality(Queued')
      BY <1>0, <1>4, <2>2, CardinalityStep, SameCount DEF SlotAccounting, Enqueue
    <3>2. \A t \in Target : OwnersOf(t)' = OwnersOf(t)
      BY <1>4, <2>2 DEF OwnersOf, Enqueue
    <3> QED
      BY <1>0, <1>4, <2>2, <3>1, <3>2, SameCount DEF SlotAccounting, Enqueue
  <2>6. NoGrantableWaiter'
    BY <1>0, <1>4, <2>2 DEF NoGrantableWaiter, canAdmitLocked, Enqueue
  <2> QED
    BY <2>1, <2>3, <2>4, <2>5, <2>6 DEF BulkheadInv
<1>5. ASSUME NEW d \in Dialer, CancelWaiterQueued(d) PROVE BulkheadInv'
  <2>1. /\ Queued' = Queued \ {d} /\ Owners' = Owners
        /\ d \in Queued /\ Queued \in SUBSET Dialer
    BY <1>0, <1>5 DEF BulkheadTypeOK, CallOK, CancelWaiterQueued, Finish, Queued, Owners
  <2>2. waiting' = Cardinality(Queued') /\ waiting' \in Nat
    <3>1. Cardinality(Queued) > 0 /\ Cardinality(Queued \ {d}) = Cardinality(Queued) - 1
      BY <2>1, CardinalityStep
    <3> QED
      BY <1>0, <1>5, <2>1, <3>1, SameCount
         DEF SlotAccounting, CancelWaiterQueued, BulkheadTypeOK
  <2>3. result' \in [Dialer -> Results]
    BY <1>0, <1>5
       DEF BulkheadTypeOK, CancelWaiterQueued, Finish, CancelResult,
           saturationScopeLocked, Results
  <2>4. BulkheadTypeOK'
    BY <1>0, <1>5, <2>2, <2>3 DEF BulkheadTypeOK, CancelWaiterQueued, Finish, CallStates
  <2>5. CallOK'
    BY <1>0, <1>5 DEF BulkheadTypeOK, CallOK, CancelWaiterQueued, Finish
  <2>6. QueueOK'
    BY <1>0, <1>5, <2>1 DEF QueueOK, CancelWaiterQueued, BulkheadTypeOK, Queued
  <2>7. WithinLimits'
    BY <1>0, <1>5 DEF WithinLimits, CancelWaiterQueued
  <2>8. SlotAccounting'
    <3>1. \A t \in Target : OwnersOf(t)' = OwnersOf(t)
      BY <1>5, <2>1 DEF OwnersOf, CancelWaiterQueued
    <3> QED
      BY <1>0, <1>5, <2>1, <2>2, <3>1, SameCount DEF SlotAccounting, CancelWaiterQueued
  <2>9. NoGrantableWaiter'
    BY <1>0, <1>5, <2>1 DEF NoGrantableWaiter, canAdmitLocked, CancelWaiterQueued
  <2> QED
    BY <2>4, <2>5, <2>6, <2>7, <2>8, <2>9 DEF BulkheadInv
<1>6. ASSUME NEW d \in Dialer, AdmittedDone(d) \/ CancelWaiterGranted(d) \/ Release(d)
      PROVE  BulkheadInv'
  <2>1. d \in Owners
    BY <1>6 DEF AdmittedDone, CancelWaiterGranted, Release, Owners
  <2>2. /\ ReleaseAndGrant(d, "none")
        /\ call' = [call EXCEPT ![d] = "idle"]
        /\ target' = target
    BY <1>6 DEF AdmittedDone, CancelWaiterGranted, Release, Finish
  <2>3. cancelled' \in [Dialer -> BOOLEAN] /\ result' \in [Dialer -> Results]
    BY <1>0, <1>6 DEF AdmittedDone, CancelWaiterGranted, Release, Finish,
       CancelResult, saturationScopeLocked, BulkheadTypeOK, Results
  <2> QED
    BY <2>1, <2>2, <2>3, BulkheadRelease
<1>7. CASE UNCHANGED bulkheadVars
  <2>1. BulkheadTypeOK' /\ CallOK' /\ Queued' = Queued /\ Owners' = Owners
    BY <1>0, <1>7 DEF bulkheadVars, BulkheadTypeOK, CallOK, Queued, Owners
  <2> QED
    BY <1>7, <2>1, BulkheadNeutral DEF bulkheadVars
<1> QED
  BY <1>1, <1>2, <1>3, <1>4, <1>5, <1>6, <1>7 DEF BulkheadNext

\* Type correctness of the bulkhead.
THEOREM BulkheadTyped == BulkheadSpec => []BulkheadTypeOK
<1>1. BulkheadInv => BulkheadTypeOK
  BY DEF BulkheadInv
<1> QED
  BY <1>1, BulkheadInitKeeps, BulkheadNextKeeps, PTL DEF BulkheadSpec

\* For every finite set of dialers and every pair of limits the bulkhead never
\* exceeds the server-wide or a per-target limit.
THEOREM LimitsHold == BulkheadSpec => []WithinLimits
<1>1. BulkheadInv => WithinLimits
  BY DEF BulkheadInv
<1> QED
  BY <1>1, BulkheadInitKeeps, BulkheadNextKeeps, PTL DEF BulkheadSpec

\* No interleaving of grant, timer, cancellation and release loses or
\* duplicates a slot.
THEOREM SlotsAccounted == BulkheadSpec => []SlotAccounting
<1>1. BulkheadInv => SlotAccounting
  BY DEF BulkheadInv
<1> QED
  BY <1>1, BulkheadInitKeeps, BulkheadNextKeeps, PTL DEF BulkheadSpec

\* The three together: however grants, timers, cancellations and releases
\* interleave, the slots handed out are exactly the slots counted and within
\* both limits.
THEOREM SlotsStayExact == BulkheadSpec => []SlotsExact
  BY BulkheadTyped, LimitsHold, SlotsAccounted, PTL DEF SlotsExact

\* No wakeup is lost: a waiter stays in the list only while it cannot be
\* admitted.
THEOREM NoLostWakeup == BulkheadSpec => []NoGrantableWaiter
<1>1. BulkheadInv => NoGrantableWaiter
  BY DEF BulkheadInv
<1> QED
  BY <1>1, BulkheadInitKeeps, BulkheadNextKeeps, PTL DEF BulkheadSpec

\* The new owners a release makes pass no waiter of their own target.
LEMMA GrantsInOrder ==
    ASSUME BulkheadInv, NEW x \in Owners, NEW G \in SUBSET Queued,
           GrantScan(G, ActiveAfterRelease, ByTargetAfterRelease(target[x])),
           NEW d \in G, NEW e \in Queued \ G, target[e] = target[d]
    PROVE  e \notin ahead[d]
<1> SUFFICES ASSUME e \in ahead[d] PROVE FALSE
  OBVIOUS
<1> DEFINE byT == ByTargetAfterRelease(target[x])
           a == ActiveAfterRelease
<1>1. G = {d}
  BY GrantsAtMostOne
<1>2. /\ d \in Dialer /\ e \in Dialer /\ d \in Queued /\ d # e
      /\ d \notin ahead[d]
  BY DEF Queued, BulkheadInv, QueueOK
<1>3. G \cap ahead[d] = {} /\ {f \in {} : target[f] = target[d]} = {}
  BY <1>1, <1>2
<1>4. Cardinality({}) = 0
  BY FS_EmptySet
<1>5. a + 0 < GlobalLimit /\ byT[target[d]] + 0 < PerTargetLimit
  BY <1>2, <1>3, <1>4, SameCount DEF GrantScan
<1>6. CASE d \notin ahead[e]
  <2>1. G \cap ahead[e] = {} /\ {f \in {} : target[f] = target[e]} = {}
    BY <1>1, <1>6
  <2> QED
    BY <1>2, <1>4, <1>5, <2>1, SameCount DEF GrantScan
<1>7. CASE d \in ahead[e]
  BY <1>2, <1>7 DEF BulkheadInv, QueueOK
<1> QED
  BY <1>6, <1>7

\* FIFO within a target, for immediate admissions as for grants: whoever gets
\* a slot passes no earlier waiter for the same address.
THEOREM FirstComeFirstServed == BulkheadSpec => NoOvertaking
<1> DEFINE A == \A d, e \in Dialer :
                  /\ d \in Owners' /\ d \notin Owners
                  /\ e \in Queued /\ e \in Queued'
                  /\ target[e] = target[d]
                  => d \in Queued /\ e \notin ahead[d]
<1>1. BulkheadInv /\ [BulkheadNext]_(bulkheadVars) => [A]_(bulkheadVars)
  <2> SUFFICES ASSUME BulkheadInv, BulkheadNext, NEW d \in Dialer, NEW e \in Dialer,
                      d \in Owners', d \notin Owners, e \in Queued, e \in Queued',
                      target[e] = target[d]
               PROVE  d \in Queued /\ e \notin ahead[d]
    BY DEF bulkheadVars
  <2>1. /\ waiter \in [Dialer -> {"none", "queued", "granted"}]
        /\ call \in [Dialer -> CallStates]
    BY DEF BulkheadInv, BulkheadTypeOK
  <2>2. /\ waiter[d] # "granted" /\ call[d] \notin {"admitted", "holding"}
        /\ waiter'[d] = "granted" \/ call'[d] \in {"admitted", "holding"}
    BY DEF Owners
  <2>3. ASSUME NEW x \in Dialer,
               \/ \E t \in Target : Enter(x, t)
               \/ CancelContext(x) \/ RefuseDone(x) \/ Enqueue(x) \/ TryRejected(x)
               \/ AdmittedLive(x) \/ SelectReady(x) \/ SelectDone(x) \/ SelectTimer(x)
               \/ CancelWaiterQueued(x)
        PROVE  FALSE
    BY <2>1, <2>2, <2>3
       DEF Enter, CancelContext, RefuseDone, Enqueue, TryRejected, AdmittedLive,
       SelectReady, SelectDone, SelectTimer, CancelWaiterQueued, Finish
  <2>4. ASSUME NEW x \in Dialer, Admit(x) PROVE FALSE
    <3>1. x = d
      BY <2>1, <2>2, <2>4 DEF Admit
    <3> QED
      BY <2>4, <3>1 DEF Admit, BulkheadInv, NoGrantableWaiter, canAdmitLocked
  <2>5. ASSUME NEW x \in Dialer, AdmittedDone(x) \/ CancelWaiterGranted(x) \/ Release(x)
        PROVE  d \in Queued /\ e \notin ahead[d]
    <3>1. x \in Owners
      BY <2>5 DEF AdmittedDone, CancelWaiterGranted, Release, Owners
    <3>2. ReleaseAndGrant(x, "none") /\ call' = [call EXCEPT ![x] = "idle"]
      BY <2>5 DEF AdmittedDone, CancelWaiterGranted, Release, Finish
    <3>3. PICK G \in SUBSET Queued :
            /\ GrantScan(G, ActiveAfterRelease, ByTargetAfterRelease(target[x]))
            /\ waiter' = [f \in Dialer |-> IF f \in G THEN "granted"
                                           ELSE IF f = x THEN "none" ELSE waiter[f]]
      BY <3>2 DEF ReleaseAndGrant
    <3>4. d \in G
      BY <2>1, <2>2, <3>2, <3>3
    <3>5. e \in Queued \ G
      BY <3>3 DEF Queued
    <3> QED
      BY <3>1, <3>3, <3>4, <3>5, GrantsInOrder
  <2> QED
    BY <2>3, <2>4, <2>5 DEF BulkheadNext
<1> QED
  BY <1>1, BulkheadInitKeeps, BulkheadNextKeeps, PTL DEF BulkheadSpec, NoOvertaking

-----------------------------------------------------------------------------
(* The circuit breaker, as module RouteHealth has it. *)

LEMMA AttemptsBounded == MaxAttempts \in Nat
BY RouteAssumption

\* Attempts in progress carry distinct numbers that begin has handed out, and
\* no fence lies above them.
NumbersOK ==
    /\ \A c \in Client : Attempting(c) => id[c] <= nextAttempt
    /\ \A c, d \in Client : Attempting(c) /\ Attempting(d) /\ c # d => id[c] # id[d]
    /\ \A r \in Route : route[r].minValidAttempt <= nextAttempt

\* While a probe is in progress it is the newest attempt on its route and it
\* is not fenced off: begin refuses everybody else.
ProbeNewest ==
    \A c, d \in Client :
        /\ phase[c] = "probing" => id[c] >= route[at[c]].minValidAttempt
        /\ phase[c] = "probing" /\ Attempting(d) /\ c # d /\ at[d] = at[c]
             => id[d] < id[c]

\* No dial in progress passes for the pooled connection that took the slot.
StrandedApart ==
    \A c \in Client :
        Dialing(c) /\ at[c] \in stranded => id[c] # route[at[c]].halfOpenAttempt

\* The inductive invariant.  HalfOpenOwned needs the numbers to be distinct
\* (otherwise another attempt could pass for the probe), and the fence is set
\* to the probe's number, which separates old from new only because the probe
\* is the newest attempt.
BreakerInv ==
    /\ RegistryTypeOK
    /\ NumbersOK
    /\ ProbeNewest
    /\ HalfOpenOwned
    /\ StrandedApart
    /\ FenceSeparates
    /\ BreakerConsistent

-----------------------------------------------------------------------------
\* What the breaker must satisfy on its own, one route at a time.
RouteOK(s) ==
    /\ s.circuitOpen => s.cooldown \in InitialCooldown..MaximumCooldown /\ s.left <= s.cooldown
    /\ ~s.circuitOpen => s.left = 0 /\ s.consecutiveFailures < Threshold
    /\ s.halfOpen => s.circuitOpen /\ s.left = 0

\* The doubled cooldown stays between the initial and the maximal one.
LEMMA CooldownRange ==
    ASSUME NEW p \in Nat
    PROVE  nextRouteCooldown(p) \in InitialCooldown..MaximumCooldown
BY AttemptsBounded, BreakerAssumption DEF nextRouteCooldown

\* Opening a circuit whose half-open slot is free.
LEMMA OpenOK ==
    ASSUME NEW s \in RouteState, ~s.halfOpen
    PROVE  /\ OpenCircuit(s) \in RouteState /\ RouteOK(OpenCircuit(s))
           /\ ~OpenCircuit(s).halfOpen
           /\ OpenCircuit(s).minValidAttempt = s.minValidAttempt
<1>1. s.cooldown \in Nat
  BY AttemptsBounded, BreakerAssumption DEF RouteState
<1>2. nextRouteCooldown(s.cooldown) \in InitialCooldown..MaximumCooldown
  BY <1>1, CooldownRange
<1> DEFINE k == nextRouteCooldown(s.cooldown)
           t == OpenCircuit(s)
<1>3. t = [s EXCEPT !.circuitOpen = TRUE, !.cooldown = k, !.left = k]
  BY DEF OpenCircuit
<1>4. k \in 0..MaximumCooldown /\ k \in Nat
  BY <1>2, AttemptsBounded, BreakerAssumption
<1> HIDE DEF k, t
<1>5. t \in RouteState
  BY <1>3, <1>4 DEF RouteState
<1>6. /\ t.circuitOpen = TRUE /\ t.cooldown = k /\ t.left = k
      /\ t.halfOpen = s.halfOpen /\ t.minValidAttempt = s.minValidAttempt
  BY <1>3 DEF RouteState
<1>7. RouteOK(t)
  BY <1>2, <1>4, <1>6 DEF RouteOK, k
<1> QED
  BY <1>5, <1>6, <1>7 DEF t

\* What a neutral outcome, a reachable target, a success and a failure have in
\* common: the probe gives the slot back, anybody else leaves it alone, and
\* only a recovering probe moves the fence, to its own number.
OutcomeOK(s, n, t, fence) ==
    /\ t \in RouteState /\ RouteOK(t)
    /\ OwnsProbe(s, n) => ~t.halfOpen
    /\ ~OwnsProbe(s, n) =>
         /\ t.halfOpen = s.halfOpen
         /\ s.halfOpen => t.halfOpenAttempt = s.halfOpenAttempt
    /\ t.minValidAttempt = fence

LEMMA Outcomes ==
    ASSUME NEW s \in RouteState, RouteOK(s), NEW n \in Nat,
           OwnsProbe(s, n) => n >= s.minValidAttempt
    PROVE  /\ OutcomeOK(s, n, AfterNeutral(s, n), s.minValidAttempt)
           /\ OutcomeOK(s, n, AfterReachable(s, n),
                        IF OwnsProbe(s, n) THEN n ELSE s.minValidAttempt)
           /\ OutcomeOK(s, n, AfterSuccess(s, n),
                        IF OwnsProbe(s, n) THEN n ELSE s.minValidAttempt)
           /\ OutcomeOK(s, n, AfterFailure(s, n), s.minValidAttempt)
<1>1. OutcomeOK(s, n, AfterNeutral(s, n), s.minValidAttempt)
  BY DEF OutcomeOK, AfterNeutral, ReleaseProbe, OwnsProbe, RouteOK, RouteState
<1>2. CASE ObserveIgnored(s, n)
  BY <1>1, <1>2
     DEF OutcomeOK, ObserveIgnored, AfterReachable, AfterSuccess, AfterFailure,
     OwnsProbe, RouteState, AfterNeutral
<1>3. CASE ~ObserveIgnored(s, n)
  <2>1. s.circuitOpen => OwnsProbe(s, n)
    BY <1>3 DEF ObserveIgnored
  <2> DEFINE fence == IF OwnsProbe(s, n) THEN n ELSE s.minValidAttempt
             u == CloseCircuit(s, n)
  <2>2. u = [s EXCEPT !.halfOpen = FALSE, !.halfOpenAttempt = 0, !.observed = TRUE,
                      !.consecutiveFailures = 0, !.circuitOpen = FALSE, !.left = 0,
                      !.minValidAttempt = fence]
    BY DEF CloseCircuit, ReleaseProbe, RouteState
  <2>3. 0 \in 0..Threshold /\ 0 \in 0..MaximumCooldown /\ 0 < Threshold /\ fence \in Nat
    BY AttemptsBounded, BreakerAssumption DEF RouteState
  <2> HIDE DEF fence, u
  <2>a. ASSUME NEW t, NEW k \in 0..MaximumCooldown, NEW m \in 0..Threshold,
               t = [u EXCEPT !.cooldown = k, !.relayFailures = m]
        PROVE  OutcomeOK(s, n, t, fence)
    <3>1. t \in RouteState
      BY <2>2, <2>3, <2>a DEF RouteState
    <3>2. /\ t.halfOpen = FALSE /\ t.halfOpenAttempt = 0 /\ t.circuitOpen = FALSE
          /\ t.left = 0 /\ t.consecutiveFailures = 0 /\ t.minValidAttempt = fence
      BY <2>2, <2>a DEF RouteState
    <3>3. RouteOK(t)
      BY <2>3, <3>2 DEF RouteOK
    <3>4. ~OwnsProbe(s, n) => s.halfOpen = FALSE
      BY <2>1 DEF RouteOK, RouteState
    <3> QED
      BY <3>1, <3>2, <3>3, <3>4 DEF OutcomeOK
  <2>b. OutcomeOK(s, n, AfterReachable(s, n), fence)
    <3>1. AfterReachable(s, n) = [u EXCEPT !.cooldown = 0, !.relayFailures = 0]
      BY <1>3, <2>2 DEF AfterReachable, u, RouteState
    <3> QED
      BY <2>3, <2>a, <3>1
  <2>c. OutcomeOK(s, n, AfterSuccess(s, n), fence)
    <3> DEFINE k == IF OwnsProbe(s, n) THEN s.cooldown ELSE 0
    <3>1. AfterSuccess(s, n) = [u EXCEPT !.cooldown = k, !.relayFailures = s.relayFailures]
      BY <1>3, <2>2 DEF AfterSuccess, u, RouteState
    <3>2. k \in 0..MaximumCooldown /\ s.relayFailures \in 0..Threshold
      BY <2>3 DEF RouteState
    <3> QED
      BY <2>a, <3>1, <3>2
  <2>4. OutcomeOK(s, n, AfterFailure(s, n), s.minValidAttempt)
    <3> DEFINE t == [s EXCEPT !.observed = TRUE, !.consecutiveFailures = OneMore(@)]
    <3>1. /\ t \in RouteState /\ t.halfOpen = s.halfOpen /\ t.circuitOpen = s.circuitOpen
          /\ t.halfOpenAttempt = s.halfOpenAttempt /\ t.minValidAttempt = s.minValidAttempt
          /\ t.left = s.left /\ t.cooldown = s.cooldown
      <4>1. OneMore(s.consecutiveFailures) \in 0..Threshold
        BY AttemptsBounded, BreakerAssumption DEF RouteState, OneMore
      <4> QED
        BY <4>1 DEF RouteState
    <3> HIDE DEF t
    <3>2. CASE s.circuitOpen
      <4>1. ReleaseProbe(t) \in RouteState /\ ~ReleaseProbe(t).halfOpen
            /\ ReleaseProbe(t).minValidAttempt = s.minValidAttempt
        BY <3>1 DEF ReleaseProbe, RouteState
      <4>2. AfterFailure(s, n) = OpenCircuit(ReleaseProbe(t))
        BY <1>3, <3>2 DEF AfterFailure, t
      <4> QED
        BY <2>1, <3>2, <4>1, <4>2, OpenOK DEF OutcomeOK
    <3>3. CASE ~s.circuitOpen /\ t.consecutiveFailures >= Threshold
      <4>1. ~s.halfOpen /\ ~OwnsProbe(s, n)
        BY <3>3 DEF RouteOK, OwnsProbe, RouteState
      <4>2. AfterFailure(s, n) = OpenCircuit(t)
        BY <1>3, <3>3 DEF AfterFailure, t
      <4>3. OpenCircuit(t).halfOpenAttempt = s.halfOpenAttempt
        BY <3>1 DEF OpenCircuit, RouteState
      <4>4. s.halfOpen = FALSE /\ t.halfOpen = FALSE
        BY <3>1, <4>1 DEF RouteState
      <4>5. OpenCircuit(t).halfOpen = FALSE
        BY <3>1, <4>4 DEF OpenCircuit, RouteState
      <4> QED
        BY <3>1, <4>1, <4>2, <4>3, <4>4, <4>5, OpenOK DEF OutcomeOK
    <3>4. CASE ~s.circuitOpen /\ ~(t.consecutiveFailures >= Threshold)
      <4>1. AfterFailure(s, n) = t
        BY <1>3, <3>4 DEF AfterFailure, t
      <4>2. RouteOK(t)
        BY <3>1, <3>4, AttemptsBounded, BreakerAssumption DEF RouteOK, RouteState
      <4> QED
        BY <3>1, <3>4, <4>1, <4>2 DEF OutcomeOK, OwnsProbe
    <3> QED
      BY <3>2, <3>3, <3>4
  <2> QED
    BY <1>1, <2>b, <2>c, <2>4 DEF fence
<1> QED
  BY <1>2, <1>3

\* Relay reports never touch the half-open slot or the fence.
LEMMA Reports ==
    ASSUME NEW s \in RouteState, RouteOK(s), NEW n \in Nat,
           NEW t, t = AfterReportFailure(s, n) \/ t = AfterReportSuccess(s, n)
    PROVE  /\ t \in RouteState /\ RouteOK(t)
           /\ t.halfOpen = s.halfOpen /\ t.halfOpenAttempt = s.halfOpenAttempt
           /\ t.minValidAttempt = s.minValidAttempt
<1>1. CASE ReportIgnored(s, n)
  BY <1>1 DEF AfterReportFailure, AfterReportSuccess
<1>2. CASE ~ReportIgnored(s, n)
  <2>1. ~s.circuitOpen /\ ~s.halfOpen
    BY <1>2 DEF ReportIgnored, RouteOK
  <2>2. CASE t = AfterReportSuccess(s, n)
    <3>1. t = [s EXCEPT !.observed = TRUE, !.consecutiveFailures = 0,
                        !.relayFailures = 0, !.cooldown = 0]
      BY <1>2, <2>2 DEF AfterReportSuccess
    <3>2. 0 \in 0..Threshold /\ 0 \in 0..MaximumCooldown /\ 0 < Threshold
      BY AttemptsBounded, BreakerAssumption
    <3>3. t \in RouteState
      BY <3>1, <3>2 DEF RouteState
    <3>4. /\ t.circuitOpen = s.circuitOpen /\ t.left = s.left /\ t.consecutiveFailures = 0
          /\ t.halfOpen = s.halfOpen /\ t.halfOpenAttempt = s.halfOpenAttempt
          /\ t.minValidAttempt = s.minValidAttempt
      BY <3>1 DEF RouteState
    <3> QED
      BY <2>1, <3>2, <3>3, <3>4 DEF RouteOK
  <2>3. CASE t = AfterReportFailure(s, n)
    <3> DEFINE u == [s EXCEPT !.observed = TRUE, !.relayFailures = OneMore(@)]
    <3>1. /\ u \in RouteState /\ u.halfOpen = s.halfOpen /\ u.circuitOpen = s.circuitOpen
          /\ u.halfOpenAttempt = s.halfOpenAttempt /\ u.minValidAttempt = s.minValidAttempt
          /\ u.left = s.left /\ u.consecutiveFailures = s.consecutiveFailures
      <4>1. OneMore(s.relayFailures) \in 0..Threshold
        BY AttemptsBounded, BreakerAssumption DEF RouteState, OneMore
      <4> QED
        BY <4>1 DEF RouteState
    <3>2. t = IF u.relayFailures >= Threshold THEN OpenCircuit(u) ELSE u
      BY <1>2, <2>3 DEF AfterReportFailure
    <3> HIDE DEF u
    <3>3. RouteOK(u)
      BY <2>1, <3>1 DEF RouteOK
    <3>4. OpenCircuit(u).halfOpenAttempt = s.halfOpenAttempt /\ OpenCircuit(u).halfOpen = s.halfOpen
      BY <3>1 DEF OpenCircuit, RouteState
    <3> QED
      BY <2>1, <3>1, <3>2, <3>3, <3>4, OpenOK
  <2> QED
    BY <2>2, <2>3
<1> QED
  BY <1>1, <1>2

-----------------------------------------------------------------------------
\* The conjuncts of the invariant about one route.
LEMMA RouteFacts ==
    ASSUME BreakerInv, NEW r \in Route
    PROVE  route[r] \in RouteState /\ RouteOK(route[r])
BY DEF BreakerInv, RegistryTypeOK, HalfOpenOwned, BreakerConsistent, RouteOK

\* A dial owns the probe of its route iff it was admitted as the probe.
LEMMA ProbeIsOwner ==
    ASSUME BreakerInv, NEW c \in Client, Dialing(c)
    PROVE  /\ OwnsProbe(route[at[c]], id[c]) <=> phase[c] = "probing"
           /\ phase[c] = "probing" => Probers(at[c]) = {c} /\ at[c] \notin stranded
<1>1. at[c] \in Route
  BY DEF BreakerInv, RegistryTypeOK
<1>2. ASSUME phase[c] = "probing"
      PROVE  /\ OwnsProbe(route[at[c]], id[c])
             /\ Probers(at[c]) = {c} /\ at[c] \notin stranded
  <2>1. c \in Probers(at[c])
    BY <1>2 DEF Probers
  <2>2. route[at[c]].halfOpen /\ at[c] \notin stranded
    BY <1>1, <2>1 DEF BreakerInv, HalfOpenOwned
  <2>3. PICK p \in Client : Probers(at[c]) = {p} /\ id[p] = route[at[c]].halfOpenAttempt
    BY <1>1, <2>2 DEF BreakerInv, HalfOpenOwned
  <2>4. c = p
    BY <2>1, <2>3
  <2> QED
    BY <1>1, <2>2, <2>3, <2>4 DEF BreakerInv, HalfOpenOwned, OwnsProbe
<1>3. ASSUME OwnsProbe(route[at[c]], id[c])
      PROVE  phase[c] = "probing"
  <2>1. at[c] \notin stranded
    BY <1>3 DEF BreakerInv, StrandedApart, OwnsProbe
  <2>2. PICK p \in Client : Probers(at[c]) = {p} /\ id[p] = route[at[c]].halfOpenAttempt
    BY <1>1, <1>3, <2>1 DEF BreakerInv, HalfOpenOwned, OwnsProbe
  <2>3. p \in Probers(at[c]) /\ id[p] = id[c]
    BY <1>3, <2>2 DEF OwnsProbe
  <2>4. Attempting(p) /\ phase[p] = "probing" /\ Attempting(c)
    BY <2>3 DEF Probers, Attempting, Dialing
  <2> QED
    BY <2>3, <2>4 DEF BreakerInv, NumbersOK
<1> QED
  BY <1>2, <1>3

\* The end of a dial, whatever its outcome.
LEMMA ObserveStep ==
    ASSUME BreakerInv, NEW c \in Client, Dialing(c), NEW t, NEW fence,
           OutcomeOK(route[at[c]], id[c], t, fence),
           route' = [route EXCEPT ![at[c]] = t],
           NEW p \in {"idle", "relaying"}, phase' = [phase EXCEPT ![c] = p],
           UNCHANGED <<nextAttempt, at, id, stranded>>,
           claimed' \in SUBSET (Setup \X Route),
           \/ fence = route[at[c]].minValidAttempt /\ preRecovery' = preRecovery
           \/ /\ OwnsProbe(route[at[c]], id[c]) /\ fence = id[c]
              /\ preRecovery' = preRecovery \cup
                   {d \in Client : d # c /\ Attempting(d) /\ at[d] = at[c]}
    PROVE  BreakerInv'
<1> DEFINE r == at[c]
           s == route[r]
<1>1. /\ RegistryTypeOK /\ NumbersOK /\ ProbeNewest /\ HalfOpenOwned /\ StrandedApart
      /\ FenceSeparates /\ BreakerConsistent
  BY DEF BreakerInv
<1>2. r \in Route /\ s \in RouteState /\ RouteOK(s) /\ Attempting(c)
  BY <1>1, RouteFacts DEF RegistryTypeOK, Dialing, Attempting
<1>3. /\ OwnsProbe(s, id[c]) <=> phase[c] = "probing"
      /\ phase[c] = "probing" => Probers(r) = {c} /\ r \notin stranded
  BY <1>2, ProbeIsOwner
<1>4. /\ t \in RouteState /\ RouteOK(t) /\ t.minValidAttempt = fence
      /\ phase[c] = "probing" => ~t.halfOpen
      /\ phase[c] # "probing" =>
           t.halfOpen = s.halfOpen /\ (s.halfOpen => t.halfOpenAttempt = s.halfOpenAttempt)
  BY <1>3 DEF OutcomeOK
<1>5. /\ \A q \in Route : route'[q] = IF q = r THEN t ELSE route[q]
      /\ \A d \in Client : phase'[d] = IF d = c THEN p ELSE phase[d]
      /\ at' = at /\ id' = id /\ nextAttempt' = nextAttempt /\ stranded' = stranded
  BY <1>1, <1>2 DEF RegistryTypeOK
<1>6. p # "probing" /\ p # "dialing"
  OBVIOUS
<1>7. \A q \in Route : Probers(q)' = Probers(q) \ {c}
  BY <1>5, <1>6 DEF Probers
<1>8. RegistryTypeOK'
  BY <1>1, <1>2, <1>4 DEF RegistryTypeOK
<1>9. fence <= nextAttempt
  BY <1>1, <1>2 DEF NumbersOK
<1>10. \A d \in Client : Attempting(d)' => Attempting(d)
  BY <1>2, <1>5 DEF Attempting, Dialing
<1>11. NumbersOK'
  BY <1>1, <1>4, <1>5, <1>9, <1>10 DEF NumbersOK
<1>12. HalfOpenOwned'
  <2>1. SUFFICES ASSUME NEW q \in Route
                 PROVE  /\ route'[q].halfOpen =>
                             /\ route'[q].circuitOpen /\ route'[q].left = 0
                             /\ q \notin stranded =>
                                  \E d \in Client : /\ Probers(q)' = {d}
                                                    /\ id[d] = route'[q].halfOpenAttempt
                        /\ ~route'[q].halfOpen \/ q \in stranded => Probers(q)' = {}
                        /\ q \in stranded => route'[q].halfOpen
    BY <1>5 DEF HalfOpenOwned
  <2>2. CASE q # r
    <3>1. c \notin Probers(q) /\ route'[q] = route[q]
      BY <1>5, <2>2 DEF Probers
    <3>2. Probers(q)' = Probers(q)
      BY <1>7, <3>1
    <3> QED
      BY <1>1, <3>1, <3>2 DEF HalfOpenOwned
  <2>3. CASE q = r /\ phase[c] = "probing"
    BY <1>3, <1>4, <1>5, <1>7, <2>3
  <2>4. CASE q = r /\ phase[c] # "probing"
    <3>1. c \notin Probers(r) /\ Probers(r)' = Probers(r)
      BY <1>2, <1>7, <2>4 DEF Probers
    <3>2. route'[q] = t
      BY <1>5, <2>4
    <3> QED
      BY <1>1, <1>2, <1>4, <2>4, <3>1, <3>2 DEF HalfOpenOwned, RouteOK
  <2> QED
    BY <2>2, <2>3, <2>4
<1>16. StrandedApart'
  <2>1. SUFFICES ASSUME NEW d \in Client, Dialing(d)', at[d] \in stranded
                 PROVE  id[d] # route'[at[d]].halfOpenAttempt
    BY <1>5 DEF StrandedApart
  <2>2. Dialing(d) /\ at[d] \in Route
    BY <1>1, <1>5, <1>6, <2>1 DEF Dialing, RegistryTypeOK
  <2>3. id[d] # route[at[d]].halfOpenAttempt /\ route[at[d]].halfOpen
    BY <1>1, <2>1, <2>2 DEF StrandedApart, HalfOpenOwned
  <2>4. route'[at[d]].halfOpenAttempt = route[at[d]].halfOpenAttempt
    BY <1>3, <1>4, <1>5, <2>1, <2>2, <2>3
  <2> QED
    BY <2>3, <2>4
<1>13. ProbeNewest'
  <2>1. SUFFICES ASSUME NEW d \in Client, NEW e \in Client, phase'[d] = "probing"
                 PROVE  /\ id[d] >= route'[at[d]].minValidAttempt
                        /\ Attempting(e)' /\ d # e /\ at[e] = at[d] => id[e] < id[d]
    BY <1>5 DEF ProbeNewest
  <2>2. d # c /\ phase[d] = "probing" /\ at[d] \in Route
    BY <1>1, <1>5, <1>6, <2>1 DEF RegistryTypeOK
  <2>3. at[d] = r => phase[c] # "probing"
    BY <1>3, <2>2 DEF Probers
  <2>4. at[d] = r => fence = s.minValidAttempt
    BY <1>3, <2>3
  <2>5. route'[at[d]].minValidAttempt = route[at[d]].minValidAttempt
    BY <1>4, <1>5, <2>2, <2>4
  <2> QED
    BY <1>1, <1>10, <2>2, <2>5 DEF ProbeNewest
<1>14. FenceSeparates'
  <2>1. SUFFICES ASSUME NEW d \in Client, Attempting(d)'
                 PROVE  d \in preRecovery' <=> id[d] < route'[at[d]].minValidAttempt
    BY <1>5 DEF FenceSeparates, Attempting
  <2>2. Attempting(d) /\ at[d] \in Route
    BY <1>1, <1>10, <2>1 DEF RegistryTypeOK
  <2>3. d \in preRecovery <=> id[d] < route[at[d]].minValidAttempt
    BY <1>1, <2>2 DEF FenceSeparates, Attempting
  <2>4. CASE fence = s.minValidAttempt /\ preRecovery' = preRecovery
    BY <1>4, <1>5, <2>2, <2>3, <2>4
  <2>5. CASE /\ OwnsProbe(s, id[c]) /\ fence = id[c]
             /\ preRecovery' = preRecovery \cup
                  {e \in Client : e # c /\ Attempting(e) /\ at[e] = at[c]}
    <3>1. phase[c] = "probing"
      BY <1>3, <2>5
    <3>2. CASE at[d] # r
      <4>1. route'[at[d]] = route[at[d]] /\ (d \in preRecovery' <=> d \in preRecovery)
        BY <1>5, <2>2, <2>5, <3>2
      <4> QED
        BY <2>3, <4>1
    <3>3. CASE d = c
      <4>1. id[c] >= s.minValidAttempt
        BY <1>1, <3>1 DEF ProbeNewest
      <4>2. c \notin preRecovery
        BY <1>1, <1>2, <2>3, <3>3, <4>1 DEF RegistryTypeOK, RouteState
      <4>3. c \notin preRecovery' /\ route'[at[c]].minValidAttempt = id[c]
        BY <1>2, <1>4, <1>5, <2>5, <4>2
      <4>4. id[c] \in Nat
        BY <1>1, AttemptsBounded, BreakerAssumption DEF RegistryTypeOK
      <4> QED
        BY <3>3, <4>3, <4>4
    <3>4. CASE at[d] = r /\ d # c
      <4>1. d \in preRecovery'
        BY <2>2, <2>5, <3>4 DEF Attempting
      <4>2. id[d] < id[c]
        BY <1>1, <2>2, <3>1, <3>4 DEF ProbeNewest
      <4> QED
        BY <1>2, <1>4, <1>5, <2>5, <3>4, <4>1, <4>2
    <3> QED
      BY <3>2, <3>3, <3>4
  <2> QED
    BY <2>4, <2>5
<1>15. BreakerConsistent'
  BY <1>1, <1>4, <1>5 DEF BreakerConsistent, RouteOK
<1> QED
  BY <1>8, <1>11, <1>12, <1>13, <1>14, <1>15, <1>16 DEF BreakerInv

-----------------------------------------------------------------------------
\* What a fresh dial and a pooled connection have in common when begin admits
\* them.
Admission(c, r, p) ==
    /\ phase[c] \in {"idle", "pooled"} /\ nextAttempt < MaxAttempts
    /\ ~BeginRefused(route[r]) /\ nextAttempt' = nextAttempt + 1
    /\ route' = [route EXCEPT ![r] = AfterBegin(route[r], nextAttempt + 1)]
    /\ phase' = [phase EXCEPT ![c] = p] /\ at' = [at EXCEPT ![c] = r]
    /\ id' = [id EXCEPT ![c] = nextAttempt + 1]
    /\ preRecovery' = preRecovery \ {c} /\ claimed' = claimed
    /\ \/ /\ p = (IF route[r].circuitOpen THEN "probing" ELSE "dialing")
          /\ stranded' = stranded
       \/ /\ p = "relaying"
          /\ stranded' = stranded \cup {q \in {r} : route[q].circuitOpen}

\* Admission: a fresh number is above every fence and every other attempt, and
\* a probe finds the slot free.
LEMMA AdmissionStep ==
    ASSUME BreakerInv, NEW c \in Client, NEW r \in Route, NEW p, Admission(c, r, p)
    PROVE  BreakerInv'
<1> USE DEF Admission
<1> DEFINE s == route[r]
           n == nextAttempt + 1
           t == AfterBegin(s, n)
<1>1. /\ RegistryTypeOK /\ NumbersOK /\ ProbeNewest /\ HalfOpenOwned /\ StrandedApart
      /\ FenceSeparates /\ BreakerConsistent
  BY DEF BreakerInv
<1>2. s \in RouteState /\ RouteOK(s) /\ ~s.halfOpen
  BY RouteFacts DEF BeginRefused, RouteOK
<1>3. n \in 0..MaxAttempts /\ n \in Nat /\ nextAttempt \in Nat /\ nextAttempt < n
  BY <1>1, AttemptsBounded, BreakerAssumption DEF RegistryTypeOK
<1>4. t = [s EXCEPT !.halfOpen = s.circuitOpen,
                    !.halfOpenAttempt = IF s.circuitOpen THEN n ELSE @]
  BY <1>2 DEF AfterBegin, RouteState
<1>5. s.circuitOpen => s.left = 0
  BY <1>2 DEF BeginRefused, RouteState
<1> HIDE DEF t
<1>6. t \in RouteState
  BY <1>2, <1>3, <1>4 DEF RouteState
<1>7. /\ t.circuitOpen = s.circuitOpen /\ t.left = s.left /\ t.cooldown = s.cooldown
      /\ t.consecutiveFailures = s.consecutiveFailures
      /\ t.minValidAttempt = s.minValidAttempt
      /\ t.halfOpen = s.circuitOpen
      /\ s.circuitOpen => t.halfOpenAttempt = n
  BY <1>2, <1>4 DEF RouteState
<1>8. /\ \A q \in Route : route'[q] = IF q = r THEN t ELSE route[q]
      /\ \A d \in Client : phase'[d] = IF d = c THEN p ELSE phase[d]
      /\ \A d \in Client : at'[d] = IF d = c THEN r ELSE at[d]
      /\ \A d \in Client : id'[d] = IF d = c THEN n ELSE id[d]
      /\ nextAttempt' = n /\ claimed' = claimed /\ preRecovery' = preRecovery \ {c}
      /\ p \in {"dialing", "probing", "relaying"}
      /\ p = "dialing" => ~s.circuitOpen
      /\ p = "probing" => s.circuitOpen
      /\ stranded' = IF p = "relaying" /\ s.circuitOpen THEN stranded \cup {r} ELSE stranded
  BY <1>1 DEF RegistryTypeOK, t
<1>9. RegistryTypeOK'
  BY <1>1, <1>3, <1>6, <1>8 DEF RegistryTypeOK, t
<1>10. \A d \in Client : d # c => (Attempting(d)' <=> Attempting(d))
  BY <1>8 DEF Attempting
<1>11. \A q \in Route : route'[q].minValidAttempt = route[q].minValidAttempt
  BY <1>7, <1>8
<1>12. \A d \in Client : Attempting(d) => id[d] \in Nat /\ id[d] < n
  BY <1>1, <1>3, AttemptsBounded, BreakerAssumption DEF NumbersOK, RegistryTypeOK
<1>13. \A q \in Route : route[q].minValidAttempt \in Nat /\ route[q].minValidAttempt < n
  BY <1>1, <1>3 DEF NumbersOK, RegistryTypeOK, RouteState
<1> HIDE DEF n, s
<1>14. NumbersOK'
  <2>1. \A d \in Client : Attempting(d)' => id'[d] <= nextAttempt'
    BY <1>3, <1>8, <1>10, <1>12
  <2>2. \A d, e \in Client : Attempting(d)' /\ Attempting(e)' /\ d # e => id'[d] # id'[e]
    BY <1>1, <1>3, <1>8, <1>10, <1>12 DEF NumbersOK
  <2>3. \A q \in Route : route'[q].minValidAttempt <= nextAttempt'
    BY <1>3, <1>8, <1>11, <1>13
  <2> QED
    BY <2>1, <2>2, <2>3 DEF NumbersOK
<1>15. Probers(r) = {} /\ r \notin stranded /\ \A q \in Route : c \notin Probers(q)
  BY <1>1, <1>2, <1>8 DEF HalfOpenOwned, Probers, s
<1>16. /\ \A q \in Route : q # r => Probers(q)' = Probers(q)
       /\ Probers(r)' = IF p = "probing" THEN {c} ELSE {}
  <2>1. ASSUME NEW q \in Route, q # r PROVE Probers(q)' = Probers(q)
    BY <1>8, <1>15, <2>1 DEF Probers
  <2>2. Probers(r)' = IF p = "probing" THEN {c} ELSE {}
    BY <1>8, <1>15 DEF Probers
  <2> QED
    BY <2>1, <2>2
<1>17. HalfOpenOwned'
  <2>1. SUFFICES ASSUME NEW q \in Route
                 PROVE  /\ route'[q].halfOpen =>
                             /\ route'[q].circuitOpen /\ route'[q].left = 0
                             /\ q \notin stranded' =>
                                  \E d \in Client : /\ Probers(q)' = {d}
                                                    /\ id'[d] = route'[q].halfOpenAttempt
                        /\ ~route'[q].halfOpen \/ q \in stranded' => Probers(q)' = {}
                        /\ q \in stranded' => route'[q].halfOpen
    BY DEF HalfOpenOwned
  <2>2. CASE q = r
    BY <1>5, <1>7, <1>8, <1>15, <1>16, <2>2
  <2>3. CASE q # r
    <3>1. route'[q] = route[q] /\ Probers(q)' = Probers(q) /\ c \notin Probers(q)
      BY <1>8, <1>15, <1>16, <2>3
    <3>2. \A d \in Client : Probers(q) = {d} => id'[d] = id[d]
      BY <1>8, <3>1
    <3>3. q \in stranded' <=> q \in stranded
      BY <1>8, <2>3
    <3> QED
      BY <1>1, <3>1, <3>2, <3>3 DEF HalfOpenOwned
  <2> QED
    BY <2>2, <2>3
<1>18. ProbeNewest'
  <2>1. SUFFICES ASSUME NEW d \in Client, NEW e \in Client, phase'[d] = "probing"
                 PROVE  /\ id'[d] >= route'[at'[d]].minValidAttempt
                        /\ Attempting(e)' /\ d # e /\ at'[e] = at'[d] => id'[e] < id'[d]
    BY DEF ProbeNewest
  <2>2. CASE d = c
    BY <1>3, <1>8, <1>10, <1>11, <1>12, <1>13, <2>2
  <2>3. CASE d # c
    <3>1. phase[d] = "probing" /\ at'[d] = at[d] /\ id'[d] = id[d] /\ at[d] \in Route
      BY <1>1, <1>8, <2>1, <2>3 DEF RegistryTypeOK
    <3>2. at[d] # r
      BY <1>15, <3>1 DEF Probers
    <3> QED
      BY <1>1, <1>8, <1>10, <1>11, <3>1, <3>2 DEF ProbeNewest
  <2> QED
    BY <2>2, <2>3
<1>19. FenceSeparates'
  <2>1. SUFFICES ASSUME NEW d \in Client, Attempting(d)'
                 PROVE  d \in preRecovery' <=> id'[d] < route'[at'[d]].minValidAttempt
    BY DEF FenceSeparates, Attempting
  <2>2. CASE d = c
    BY <1>3, <1>8, <1>11, <1>13, <2>2
  <2>3. CASE d # c
    <3>1. at[d] \in Route /\ Attempting(d)
      BY <1>1, <1>10, <2>1, <2>3 DEF RegistryTypeOK
    <3> QED
      BY <1>1, <1>8, <1>11, <2>3, <3>1 DEF FenceSeparates, Attempting
  <2> QED
    BY <2>2, <2>3
<1>20. BreakerConsistent'
  <2>1. RouteOK(t)
    BY <1>2, <1>5, <1>7 DEF RouteOK, s
  <2> QED
    BY <1>1, <1>8, <2>1 DEF BreakerConsistent, RouteOK
<1>21. StrandedApart'
  <2>1. SUFFICES ASSUME NEW d \in Client, Dialing(d)', at'[d] \in stranded'
                 PROVE  id'[d] # route'[at'[d]].halfOpenAttempt
    BY DEF StrandedApart
  <2>2. CASE d = c
    BY <1>8, <1>15, <2>1, <2>2 DEF Dialing
  <2>3. CASE d # c
    <3>1. Dialing(d) /\ Attempting(d) /\ at'[d] = at[d] /\ id'[d] = id[d] /\ at[d] \in Route
      BY <1>1, <1>8, <2>1, <2>3 DEF RegistryTypeOK, Dialing, Attempting
    <3>2. CASE at[d] = r
      BY <1>7, <1>8, <1>12, <1>15, <2>1, <3>1, <3>2
    <3>3. CASE at[d] # r
      BY <1>1, <1>8, <2>1, <3>1, <3>3 DEF StrandedApart
    <3> QED
      BY <3>2, <3>3
  <2> QED
    BY <2>2, <2>3
<1> QED
  BY <1>9, <1>14, <1>17, <1>18, <1>19, <1>20, <1>21 DEF BreakerInv

\* A fresh dial and a pooled connection are admitted alike.
LEMMA BeginStep ==
    ASSUME BreakerInv, NEW c \in Client, NEW r \in Route,
           Begin(c, r) \/ (BeginReused(c) /\ r = at[c])
    PROVE  BreakerInv'
<1>1. at \in [Client -> Route]
  BY DEF BreakerInv, RegistryTypeOK
<1>2. CASE Begin(c, r)
  <2>1. Admission(c, r, IF route[r].circuitOpen THEN "probing" ELSE "dialing")
    BY <1>2 DEF Begin, SetRoute, SetPhase, Admission
  <2> QED
    BY <2>1, AdmissionStep
<1>3. CASE BeginReused(c) /\ r = at[c]
  <2>1. at' = [at EXCEPT ![c] = r]
    BY <1>1, <1>3 DEF BeginReused
  <2>2. Admission(c, r, "relaying")
    BY <1>3, <2>1 DEF BeginReused, SetRoute, SetPhase, Admission
  <2> QED
    BY <2>2, AdmissionStep
<1> QED
  BY <1>2, <1>3

\* A step that keeps the half-open slots and the fences, and ends no dial.
LEMMA QuietStep ==
    ASSUME BreakerInv, RegistryTypeOK',
           UNCHANGED <<nextAttempt, id, preRecovery, stranded>>,
           \A r \in Route :
               /\ RouteOK(route'[r])
               /\ route'[r].halfOpen = route[r].halfOpen
               /\ route'[r].halfOpenAttempt = route[r].halfOpenAttempt
               /\ route'[r].minValidAttempt = route[r].minValidAttempt,
           \A c \in Client : \/ phase'[c] = phase[c] /\ at'[c] = at[c]
                             \/ /\ phase[c] \notin {"dialing", "probing"}
                                /\ phase'[c] \in {"idle", "pooled"}
    PROVE  BreakerInv'
<1>1. /\ RegistryTypeOK /\ NumbersOK /\ ProbeNewest /\ HalfOpenOwned /\ StrandedApart
      /\ FenceSeparates /\ BreakerConsistent
  BY DEF BreakerInv
<1>2. \A r \in Route : Probers(r)' = Probers(r)
  BY DEF Probers
<1>3. \A c \in Client : /\ Attempting(c)' => Attempting(c) /\ at'[c] = at[c]
                        /\ Dialing(c)' => Dialing(c) /\ at'[c] = at[c]
                        /\ (phase'[c] = "probing") => phase[c] = "probing" /\ at'[c] = at[c]
  BY DEF Attempting, Dialing
<1>4. \A c \in Client : at[c] \in Route
  BY <1>1 DEF RegistryTypeOK
<1>11. id' = id /\ stranded' = stranded /\ nextAttempt' = nextAttempt
  OBVIOUS
<1>10. StrandedApart'
  <2> SUFFICES ASSUME NEW c \in Client, Dialing(c)', at'[c] \in stranded
               PROVE  id[c] # route'[at'[c]].halfOpenAttempt
    BY <1>11 DEF StrandedApart
  <2>1. Dialing(c) /\ at'[c] = at[c] /\ at[c] \in Route
    BY <1>3, <1>4 DEF Dialing
  <2> QED
    BY <1>1, <2>1 DEF StrandedApart
<1>5. NumbersOK'
  <2>1. \A c \in Client : Attempting(c)' => id'[c] <= nextAttempt'
    BY <1>1, <1>3, <1>11 DEF NumbersOK, Attempting
  <2>2. \A c, d \in Client : Attempting(c)' /\ Attempting(d)' /\ c # d => id'[c] # id'[d]
    BY <1>1, <1>3, <1>11 DEF NumbersOK, Attempting
  <2>3. \A r \in Route : route'[r].minValidAttempt <= nextAttempt'
    BY <1>1, <1>11 DEF NumbersOK
  <2> QED
    BY <2>1, <2>2, <2>3 DEF NumbersOK
<1>6. ProbeNewest'
  <2> SUFFICES ASSUME NEW c \in Client, NEW d \in Client, phase'[c] = "probing"
               PROVE  /\ id[c] >= route'[at'[c]].minValidAttempt
                      /\ Attempting(d)' /\ c # d /\ at'[d] = at'[c] => id[d] < id[c]
    BY <1>11 DEF ProbeNewest
  <2>1. phase[c] = "probing" /\ at'[c] = at[c] /\ at[c] \in Route
    BY <1>3, <1>4
  <2>2. Attempting(d)' => Attempting(d) /\ at'[d] = at[d]
    BY <1>3 DEF Attempting
  <2> QED
    BY <1>1, <2>1, <2>2 DEF ProbeNewest
<1>7. HalfOpenOwned'
  BY <1>1, <1>2 DEF HalfOpenOwned, RouteOK
<1>8. FenceSeparates'
  BY <1>1, <1>3, <1>4 DEF FenceSeparates, Attempting
<1>9. BreakerConsistent'
  BY DEF BreakerConsistent, RouteOK
<1> QED
  BY <1>5, <1>6, <1>7, <1>8, <1>9, <1>10 DEF BreakerInv

\* A connection is taken from the pool, or closed because begin refuses it.
LEMMA PoolStep ==
    ASSUME BreakerInv, NEW c \in Client,
           RefuseReused(c) \/ \E r \in Route : PopPooled(c, r)
    PROVE  BreakerInv'
<1>1. RegistryTypeOK
  BY DEF BreakerInv
<1>2. UNCHANGED <<route, nextAttempt, claimed, id, preRecovery, stranded>>
  BY DEF PopPooled, RefuseReused
<1>3. PICK p \in {"idle", "pooled"}, r \in Route :
        /\ phase[c] \in {"idle", "pooled"}
        /\ phase' = [phase EXCEPT ![c] = p] /\ at' = [at EXCEPT ![c] = r]
  <2>1. at[c] \in Route /\ at = [at EXCEPT ![c] = at[c]]
    BY <1>1 DEF RegistryTypeOK
  <2> QED
    BY <2>1 DEF PopPooled, RefuseReused, SetPhase
<1>4. RegistryTypeOK'
  BY <1>1, <1>2, <1>3 DEF RegistryTypeOK
<1>5. \A d \in Client : \/ phase'[d] = phase[d] /\ at'[d] = at[d]
                        \/ /\ phase[d] \notin {"dialing", "probing"}
                           /\ phase'[d] \in {"idle", "pooled"}
  BY <1>1, <1>3 DEF RegistryTypeOK
<1>6. \A r0 \in Route : RouteOK(route'[r0])
  BY <1>2, RouteFacts
<1> QED
  BY <1>2, <1>4, <1>5, <1>6, QuietStep

\* The end of a relay, with or without a report.
LEMMA ReportStep ==
    ASSUME BreakerInv, NEW c \in Client, Report(c)
    PROVE  BreakerInv'
<1>1. RegistryTypeOK /\ at[c] \in Route /\ id[c] \in Nat
  BY AttemptsBounded, BreakerAssumption DEF BreakerInv, RegistryTypeOK
<1>2. /\ phase[c] = "relaying" /\ phase' = [phase EXCEPT ![c] = "idle"]
      /\ UNCHANGED <<nextAttempt, claimed, at, id, preRecovery, stranded>>
  BY DEF Report, ReportFailure, ReportSuccess, EndRelay, SetPhase
<1>3. PICK t : /\ route' = [route EXCEPT ![at[c]] = t]
               /\ \/ t = AfterReportFailure(route[at[c]], id[c])
                  \/ t = AfterReportSuccess(route[at[c]], id[c])
                  \/ t = route[at[c]]
  <2>1. CASE EndRelay(c)
    <3>1. route' = [route EXCEPT ![at[c]] = route[at[c]]]
      BY <1>1, <2>1 DEF EndRelay, RegistryTypeOK
    <3> QED
      BY <3>1
  <2> QED
    BY <2>1 DEF Report, ReportFailure, ReportSuccess, SetRoute
<1>4. route[at[c]] \in RouteState /\ RouteOK(route[at[c]])
  BY <1>1, RouteFacts
<1>5. /\ t \in RouteState /\ RouteOK(t)
      /\ t.halfOpen = route[at[c]].halfOpen
      /\ t.halfOpenAttempt = route[at[c]].halfOpenAttempt
      /\ t.minValidAttempt = route[at[c]].minValidAttempt
  BY <1>1, <1>3, <1>4, Reports
<1>6. RegistryTypeOK'
  BY <1>1, <1>2, <1>3, <1>5 DEF RegistryTypeOK
<1>7. \A r \in Route : route'[r] = IF r = at[c] THEN t ELSE route[r]
  BY <1>1, <1>3 DEF RegistryTypeOK
<1>8. \A r \in Route : /\ RouteOK(route'[r])
                        /\ route'[r].halfOpen = route[r].halfOpen
                        /\ route'[r].halfOpenAttempt = route[r].halfOpenAttempt
                        /\ route'[r].minValidAttempt = route[r].minValidAttempt
  BY <1>5, <1>7, RouteFacts
<1>9. \A d \in Client : \/ phase'[d] = phase[d] /\ at'[d] = at[d]
                        \/ /\ phase[d] \notin {"dialing", "probing"}
                           /\ phase'[d] \in {"idle", "pooled"}
  BY <1>1, <1>2 DEF RegistryTypeOK
<1> QED
  BY <1>2, <1>6, <1>8, <1>9, QuietStep

\* A reload forgets every attempt together with the slot and the fence.
LEMMA ReloadStep == ASSUME BreakerInv, Reload PROVE BreakerInv'
<1>1. ASSUME NEW r \in Route
      PROVE  /\ route'[r] \in RouteState /\ RouteOK(route'[r])
             /\ ~route'[r].halfOpen /\ route'[r].minValidAttempt = 0
  <2>1. route[r] \in RouteState /\ RouteOK(route[r])
    BY RouteFacts
  <2> DEFINE u == ReleaseProbe(route[r])
             t == route'[r]
  <2>2. /\ u \in RouteState /\ u.halfOpen = FALSE
        /\ u.circuitOpen = route[r].circuitOpen /\ u.cooldown = route[r].cooldown
        /\ u.left = route[r].left /\ u.consecutiveFailures = route[r].consecutiveFailures
    BY <2>1 DEF ReleaseProbe, RouteState
  <2>3. t = [u EXCEPT !.minValidAttempt = 0]
    BY DEF Reload
  <2> HIDE DEF u, t
  <2>4. t \in RouteState
    BY <2>2, <2>3 DEF RouteState
  <2>5. /\ t.halfOpen = FALSE /\ t.minValidAttempt = 0
        /\ t.circuitOpen = u.circuitOpen /\ t.cooldown = u.cooldown
        /\ t.left = u.left /\ t.consecutiveFailures = u.consecutiveFailures
    BY <2>2, <2>3 DEF RouteState
  <2> QED
    BY <2>1, <2>2, <2>4, <2>5 DEF RouteOK, t
<1>2. /\ \A c \in Client : phase'[c] = "idle"
      /\ phase' \in [Client -> {"idle"}] /\ nextAttempt' = 0
      /\ claimed' = {} /\ preRecovery' = {} /\ stranded' = {} /\ at' = at /\ id' = id
      /\ DOMAIN route' = Route /\ route' = [r \in Route |-> route'[r]]
  BY DEF Reload
<1>3. RegistryTypeOK'
  BY <1>1, <1>2, AttemptsBounded, BreakerAssumption DEF BreakerInv, RegistryTypeOK
<1>4. \A r \in Route : Probers(r)' = {}
  BY <1>2 DEF Probers
<1>5. NumbersOK' /\ ProbeNewest' /\ FenceSeparates' /\ StrandedApart'
  BY <1>1, <1>2 DEF NumbersOK, ProbeNewest, FenceSeparates, Attempting, StrandedApart
<1>6. HalfOpenOwned' /\ BreakerConsistent'
  BY <1>1, <1>2, <1>4 DEF HalfOpenOwned, BreakerConsistent, RouteOK
<1> QED
  BY <1>3, <1>5, <1>6 DEF BreakerInv

\* Time only shortens cooldowns.
LEMMA TickStep == ASSUME BreakerInv, RegistryTick PROVE BreakerInv'
<1>1. ASSUME NEW r \in Route
      PROVE  /\ route'[r] \in RouteState /\ RouteOK(route'[r])
             /\ route'[r].halfOpen = route[r].halfOpen
             /\ route'[r].halfOpenAttempt = route[r].halfOpenAttempt
             /\ route'[r].minValidAttempt = route[r].minValidAttempt
  <2>1. route[r] \in RouteState /\ RouteOK(route[r])
    BY RouteFacts
  <2>2. CASE route[r].left > 0
    <3> DEFINE k == route[r].left - 1
    <3>1. route'[r] = [route[r] EXCEPT !.left = k] /\ k \in Nat /\ k <= route[r].left
      BY <2>1, <2>2 DEF RegistryTick, AfterTick, RouteState
    <3> HIDE DEF k
    <3>2. route'[r] \in RouteState
      BY <2>1, <3>1 DEF RouteState
    <3>3. /\ route'[r].halfOpen = route[r].halfOpen /\ route'[r].left = k
          /\ route'[r].halfOpenAttempt = route[r].halfOpenAttempt
          /\ route'[r].minValidAttempt = route[r].minValidAttempt
          /\ route'[r].circuitOpen = route[r].circuitOpen
          /\ route'[r].cooldown = route[r].cooldown
          /\ route'[r].consecutiveFailures = route[r].consecutiveFailures
      BY <2>1, <3>1 DEF RouteState
    <3>4. route[r].cooldown \in Nat /\ route[r].left \in Nat
      BY <2>1, AttemptsBounded, BreakerAssumption DEF RouteState
    <3> QED
      BY <2>1, <2>2, <3>1, <3>2, <3>3, <3>4 DEF RouteOK
  <2>3. CASE ~(route[r].left > 0)
    BY <2>1, <2>3 DEF RegistryTick, AfterTick
  <2> QED
    BY <2>2, <2>3
<1>2. route' = [r \in Route |-> route'[r]]
  BY DEF RegistryTick
<1>3. RegistryTypeOK'
  BY <1>1, <1>2 DEF RegistryTick, BreakerInv, RegistryTypeOK
<1> QED
  BY <1>1, <1>3, QuietStep DEF RegistryTick

\* Every outcome of a dial preserves the invariant.
LEMMA ObserveAction == ASSUME BreakerInv, NEW c \in Client, Observe(c) PROVE BreakerInv'
<1> DEFINE s == route[at[c]]
           n == id[c]
<1>1. RegistryTypeOK /\ at[c] \in Route /\ n \in Nat
  BY AttemptsBounded, BreakerAssumption DEF BreakerInv, RegistryTypeOK
<1>2. Dialing(c) /\ Attempting(c)
  BY
     DEF Observe, ObserveNeutral, ObserveReachable, ObserveSuccess, ObserveFailure,
     Dialing, Attempting
<1>3. s \in RouteState /\ RouteOK(s)
  BY <1>1, RouteFacts
<1>4. OwnsProbe(s, n) => n >= s.minValidAttempt
  BY <1>2, ProbeIsOwner DEF BreakerInv, ProbeNewest
<1>5. /\ OutcomeOK(s, n, AfterNeutral(s, n), s.minValidAttempt)
      /\ OutcomeOK(s, n, AfterReachable(s, n),
                   IF OwnsProbe(s, n) THEN n ELSE s.minValidAttempt)
      /\ OutcomeOK(s, n, AfterSuccess(s, n),
                   IF OwnsProbe(s, n) THEN n ELSE s.minValidAttempt)
      /\ OutcomeOK(s, n, AfterFailure(s, n), s.minValidAttempt)
  BY <1>1, <1>3, <1>4, Outcomes
<1>6. OwnsProbe(s, n) => ~ObserveIgnored(s, n)
  BY <1>1, <1>3, <1>4 DEF ObserveIgnored, RouteState
<1>7. CASE ObserveNeutral(c)
  BY <1>1, <1>2, <1>5, <1>7, ObserveStep
     DEF ObserveNeutral, SetRoute, SetPhase, RegistryTypeOK
<1>8. CASE ObserveReachable(c)
  BY <1>1, <1>2, <1>5, <1>6, <1>8, ObserveStep
     DEF ObserveReachable, SetRoute, SetPhase, Recovered, RegistryTypeOK
<1>9. CASE ObserveSuccess(c)
  BY <1>1, <1>2, <1>5, <1>6, <1>9, ObserveStep
     DEF ObserveSuccess, SetRoute, SetPhase, Recovered, RegistryTypeOK
<1>10. ASSUME NEW g \in Setup \cup {Private}, ObserveFailure(c, g) PROVE BreakerInv'
  <2>1. claimed' \in SUBSET (Setup \X Route)
    BY <1>1, <1>10 DEF ObserveFailure, RegistryTypeOK
  <2>2. PICK t : /\ t = AfterNeutral(s, n) \/ t = AfterFailure(s, n)
                 /\ route' = [route EXCEPT ![at[c]] = t]
    BY <1>10 DEF ObserveFailure, SetRoute
  <2>3. OutcomeOK(s, n, t, s.minValidAttempt)
    BY <1>5, <2>2
  <2> QED
    BY <1>2, <1>10, <2>1, <2>2, <2>3, ObserveStep DEF ObserveFailure, SetPhase
<1> QED
  BY <1>7, <1>8, <1>9, <1>10 DEF Observe

\* The invariant holds initially.
LEMMA BreakerInit == RegistryInit => BreakerInv
<1> SUFFICES ASSUME RegistryInit PROVE BreakerInv
  OBVIOUS
<1>1. NewState \in RouteState
  BY AttemptsBounded, BreakerAssumption DEF NewState, RouteState
<1>2. /\ NewState.circuitOpen = FALSE /\ NewState.halfOpen = FALSE /\ NewState.left = 0
      /\ NewState.consecutiveFailures = 0 /\ NewState.minValidAttempt = 0
  BY DEF NewState
<1>3. /\ \A r \in Route : route[r] = NewState
      /\ \A c \in Client : phase[c] = "idle"
  BY DEF RegistryInit
<1>4. RegistryTypeOK
  BY <1>1, AttemptsBounded, BreakerAssumption DEF RegistryInit, RegistryTypeOK
<1>5. \A r \in Route : Probers(r) = {}
  BY <1>3 DEF Probers
<1>6. NumbersOK /\ ProbeNewest /\ FenceSeparates /\ StrandedApart
  BY <1>2, <1>3 DEF RegistryInit, NumbersOK, ProbeNewest, FenceSeparates, Attempting,
     StrandedApart
<1>7. HalfOpenOwned /\ BreakerConsistent
  BY <1>2, <1>3, <1>5, AttemptsBounded, BreakerAssumption
     DEF RegistryInit, HalfOpenOwned, BreakerConsistent
<1> QED
  BY <1>4, <1>6, <1>7 DEF BreakerInv

\* Every action preserves it.
LEMMA BreakerNext == BreakerInv /\ [RegistryNext]_(registryVars) => BreakerInv'
<1> SUFFICES ASSUME BreakerInv, [RegistryNext]_(registryVars) PROVE BreakerInv'
  OBVIOUS
<1>1. CASE UNCHANGED registryVars
  <2>1. RegistryTypeOK'
    BY <1>1 DEF BreakerInv, RegistryTypeOK, registryVars
  <2> QED
    BY <1>1, <2>1, RouteFacts, QuietStep DEF registryVars
<1>2. CASE RegistryNext
  <2>1. \A c \in Client : at[c] \in Route
    BY DEF BreakerInv, RegistryTypeOK
  <2> QED
    BY <1>2, <2>1, BeginStep, PoolStep, ObserveAction, ReportStep, ReloadStep, TickStep
       DEF RegistryNext
<1> QED
  BY <1>1, <1>2

\* The invariant of every behaviour of the breaker.
LEMMA BreakerInvariance == RegistrySpec => []BreakerInv
BY BreakerInit, BreakerNext, PTL DEF RegistrySpec

\* Type correctness, the cap on the doubled cooldown included.
THEOREM BreakerTypes == RegistrySpec => []RegistryTypeOK
<1>1. BreakerInv => RegistryTypeOK
  BY DEF BreakerInv
<1> QED
  BY <1>1, BreakerInvariance, PTL

\* The half-open slot is claimed exactly while one admitted probe is in
\* progress or since a pooled connection took it, whatever cancellations,
\* duplicates and reloads happen.
THEOREM SingleProbe == RegistrySpec => []HalfOpenOwned
<1>1. BreakerInv => HalfOpenOwned
  BY DEF BreakerInv
<1> QED
  BY <1>1, BreakerInvariance, PTL

\* Comparing attempt numbers with minValidAttempt is exactly "began before the
\* last recovery".
THEOREM FenceIsExact == RegistrySpec => []FenceSeparates
<1>1. BreakerInv => FenceSeparates
  BY DEF BreakerInv
<1> QED
  BY <1>1, BreakerInvariance, PTL

\* Late outcomes of attempts admitted before a recovery never lengthen a
\* failure streak of the recovered route.
THEOREM StaleEvidenceIgnored == RegistrySpec => NoPreRecoveryEvidence
<1> DEFINE A == \A c \in preRecovery :
                  Attempting(c) /\ phase'[c] = "idle"
                  => /\ route'[at[c]].consecutiveFailures <= route[at[c]].consecutiveFailures
                     /\ route'[at[c]].relayFailures <= route[at[c]].relayFailures
<1>1. BreakerInv /\ [RegistryNext]_(registryVars) => [A]_(registryVars)
  <2> SUFFICES ASSUME BreakerInv, RegistryNext, NEW c \in preRecovery,
                      Attempting(c), phase'[c] = "idle"
               PROVE  /\ route'[at[c]].consecutiveFailures <= route[at[c]].consecutiveFailures
                      /\ route'[at[c]].relayFailures <= route[at[c]].relayFailures
    BY DEF registryVars
  <2> DEFINE s == route[at[c]]
             n == id[c]
  <2>1. c \in Client /\ at[c] \in Route /\ s \in RouteState /\ n \in Nat
    BY AttemptsBounded, BreakerAssumption DEF BreakerInv, RegistryTypeOK
  <2>2. n < s.minValidAttempt
    BY <2>1 DEF BreakerInv, FenceSeparates
  <2>3. Dialing(c) => ~OwnsProbe(s, n)
    BY <2>1, <2>2, ProbeIsOwner DEF BreakerInv, ProbeNewest, RouteState
  <2>4. /\ Dialing(c) => /\ AfterNeutral(s, n) = s /\ AfterReachable(s, n) = s
                         /\ AfterSuccess(s, n) = s /\ AfterFailure(s, n) = s
        /\ AfterReportFailure(s, n) = s /\ AfterReportSuccess(s, n) = s
    BY <2>2, <2>3 DEF AfterNeutral, AfterReachable, AfterSuccess, AfterFailure,
       AfterReportFailure, AfterReportSuccess, ObserveIgnored, ReportIgnored
  <2>5. s.consecutiveFailures \in Nat /\ s.relayFailures \in Nat
    BY <2>1, AttemptsBounded, BreakerAssumption DEF RouteState
  <2> SUFFICES /\ route'[at[c]].consecutiveFailures = s.consecutiveFailures
               /\ route'[at[c]].relayFailures = s.relayFailures
    BY <2>5
  \* phase changes for the acting client only, except in a reload
  <2>6. CASE Reload
    <3> DEFINE u == ReleaseProbe(s)
    <3>1. /\ u \in RouteState
          /\ u.consecutiveFailures = s.consecutiveFailures
          /\ u.relayFailures = s.relayFailures
      BY <2>1 DEF ReleaseProbe, RouteState
    <3>2. route'[at[c]] = [u EXCEPT !.minValidAttempt = 0]
      BY <2>1, <2>6 DEF Reload
    <3> HIDE DEF u
    <3> QED
      BY <3>1, <3>2 DEF RouteState
  <2>7. CASE RegistryTick
    BY <2>7 DEF RegistryTick, Attempting
  <2>8. ASSUME NEW d \in Client,
               \/ BeginReused(d) \/ RefuseReused(d)
               \/ \E r \in Route : Begin(d, r) \/ PopPooled(d, r)
        PROVE  FALSE
    BY <2>1, <2>8
       DEF Begin, BeginReused, RefuseReused, PopPooled, SetPhase, Attempting,
       BreakerInv, RegistryTypeOK
  <2>9. ASSUME NEW d \in Client, Observe(d) \/ Report(d)
        PROVE  route'[at[c]] = s
    <3>1. \E p : phase' = [phase EXCEPT ![d] = p]
      BY <2>9 DEF Observe, ObserveNeutral, ObserveReachable, ObserveSuccess,
         ObserveFailure, Report, ReportFailure, ReportSuccess, EndRelay, SetPhase
    <3>2. d = c
      BY <2>1, <3>1 DEF BreakerInv, RegistryTypeOK, Attempting
    <3>3. CASE Report(c)
      BY <2>1, <2>4, <3>3
         DEF Report, ReportFailure, ReportSuccess, EndRelay, SetRoute,
         BreakerInv, RegistryTypeOK
    <3>4. CASE Observe(c)
      BY <2>1, <2>4, <3>4
         DEF Dialing, Observe, ObserveNeutral, ObserveReachable, ObserveSuccess,
         ObserveFailure, SetRoute, BreakerInv, RegistryTypeOK
    <3> QED
      BY <2>9, <3>2, <3>3, <3>4
  <2> QED
    <3>1. CASE \E d \in Client : Observe(d) \/ Report(d)
      BY <2>9, <3>1
    <3>2. CASE \E d \in Client : \/ BeginReused(d) \/ RefuseReused(d)
                                \/ \E r \in Route : Begin(d, r) \/ PopPooled(d, r)
      BY <2>8, <3>2
    <3> QED
      BY <2>6, <2>7, <3>1, <3>2 DEF RegistryNext
<1> QED
  BY <1>1, BreakerInvariance, PTL DEF RegistrySpec, NoPreRecoveryEvidence

\* No open circuit without a bounded cooldown, no closed one with an exhausted
\* streak.
THEOREM BreakerStaysConsistent == RegistrySpec => []BreakerConsistent
<1>1. BreakerInv => BreakerConsistent
  BY DEF BreakerInv
<1> QED
  BY <1>1, BreakerInvariance, PTL

\* The three together: whatever arrives in whatever order, the half-open slot of
\* a circuit has one owner, an admitted probe or a pooled connection that took
\* it, and there is a bounded cooldown and no exhausted streak.
THEOREM BreakerStaysSound == RegistrySpec => []BreakerSound
  BY BreakerTypes, SingleProbe, BreakerStaysConsistent, PTL DEF BreakerSound

\* While a circuit is open only the end of its probe can close it or start its
\* cooldown again: late outcomes of other attempts, relay reports, reloads and
\* the passing of time cannot.
THEOREM OnlyTheProbeDecides == RegistrySpec => OnlyProbeDecides
<1> DEFINE A == \A r \in Route :
                  /\ route[r].circuitOpen
                  /\ ~route'[r].circuitOpen \/ route'[r].left > route[r].left
                  => /\ route[r].halfOpen
                     /\ \E c \in Probers(r) : c \notin Probers(r)'
<1>1. BreakerInv /\ [RegistryNext]_(registryVars) => [A]_(registryVars)
  <2> SUFFICES ASSUME BreakerInv, RegistryNext, NEW r \in Route, route[r].circuitOpen,
                      ~route'[r].circuitOpen \/ route'[r].left > route[r].left
               PROVE  route[r].halfOpen /\ \E c \in Probers(r) : c \notin Probers(r)'
    BY DEF registryVars
  <2> DEFINE s == route[r]
  <2>1. s \in RouteState /\ s.left \in Nat /\ route \in [Route -> RouteState]
    BY DEF BreakerInv, RegistryTypeOK, RouteState
  <2>2. route'[r] # s
    BY <2>1
  <2>3. CASE Reload
    <3> DEFINE u == ReleaseProbe(s)
    <3>1. /\ u.circuitOpen = s.circuitOpen /\ u.left = s.left /\ u \in RouteState
      BY <2>1 DEF ReleaseProbe, RouteState
    <3>2. route'[r] = [u EXCEPT !.minValidAttempt = 0]
      BY <2>3 DEF Reload
    <3> HIDE DEF u
    <3>3. route'[r].circuitOpen = s.circuitOpen /\ route'[r].left = s.left
      BY <3>1, <3>2 DEF RouteState
    <3> QED
      BY <2>1, <3>3
  <2>4. CASE RegistryTick
    <3>1. route'[r] = AfterTick(s)
      BY <2>4 DEF RegistryTick
    <3>2. route'[r].circuitOpen = s.circuitOpen /\ route'[r].left <= s.left
          /\ route'[r].left \in Nat
      BY <2>1, <3>1 DEF AfterTick, RouteState
    <3> QED
      BY <2>1, <3>2
  <2>5. ASSUME NEW c \in Client,
               \/ BeginReused(c) \/ RefuseReused(c)
               \/ \E q \in Route : Begin(c, q) \/ PopPooled(c, q)
        PROVE  FALSE
    <3>1. route'[r] = s \/ route'[r] = AfterBegin(s, nextAttempt + 1)
      BY <2>1, <2>5 DEF Begin, BeginReused, RefuseReused, PopPooled, SetRoute
    <3>2. /\ AfterBegin(s, nextAttempt + 1).circuitOpen = s.circuitOpen
          /\ AfterBegin(s, nextAttempt + 1).left = s.left
      BY <2>1 DEF AfterBegin, RouteState
    <3>3. route'[r].circuitOpen = s.circuitOpen /\ route'[r].left = s.left
      BY <3>1, <3>2
    <3> QED
      BY <2>1, <3>3
  <2>6. ASSUME NEW c \in Client, Report(c) PROVE FALSE
    <3>1. at[c] \in Route
      BY DEF BreakerInv, RegistryTypeOK
    <3>2. route'[r] \in {s, AfterReportFailure(s, id[c]), AfterReportSuccess(s, id[c])}
      BY <2>1, <2>6, <3>1
         DEF Report, ReportFailure, ReportSuccess, EndRelay, SetRoute
    <3>3. AfterReportFailure(s, id[c]) = s /\ AfterReportSuccess(s, id[c]) = s
      BY DEF AfterReportFailure, AfterReportSuccess, ReportIgnored
    <3> QED
      BY <2>2, <3>2, <3>3
  <2>7. ASSUME NEW c \in Client, Observe(c)
        PROVE  s.halfOpen /\ c \in Probers(r) /\ c \notin Probers(r)'
    <3> DEFINE n == id[c]
    <3>1. /\ at[c] \in Route
          /\ phase \in [Client -> {"idle", "pooled", "dialing", "probing", "relaying"}]
      BY DEF BreakerInv, RegistryTypeOK
    <3>2. Dialing(c) /\ Attempting(c) /\ at' = at
      BY <2>7
         DEF Observe, ObserveNeutral, ObserveReachable, ObserveSuccess, ObserveFailure,
         Dialing, Attempting
    <3>3. route'[r] # s => at[c] = r
      BY <2>1, <2>7, <3>1
         DEF Observe, ObserveNeutral, ObserveReachable, ObserveSuccess,
         ObserveFailure, SetRoute
    <3>4. at[c] = r
      BY <2>2, <3>3
    <3>5. route'[r] \in {AfterNeutral(s, n), AfterReachable(s, n), AfterSuccess(s, n),
                         AfterFailure(s, n)}
      BY <2>1, <2>7, <3>4
         DEF Observe, ObserveNeutral, ObserveReachable, ObserveSuccess,
         ObserveFailure, SetRoute
    <3>6. OwnsProbe(s, n)
      BY <2>2, <3>5 DEF AfterNeutral, AfterReachable, AfterSuccess, AfterFailure,
         ObserveIgnored
    <3>7. s.halfOpen /\ phase[c] = "probing" /\ c \in Probers(r)
      BY <3>2, <3>4, <3>6, ProbeIsOwner DEF OwnsProbe, Probers
    <3>8. phase'[c] # "probing"
      BY <2>7, <3>1 DEF Observe, ObserveNeutral, ObserveReachable, ObserveSuccess,
         ObserveFailure, SetPhase
    <3> QED
      BY <3>7, <3>8 DEF Probers
  <2> QED
    BY <2>3, <2>4, <2>5, <2>6, <2>7 DEF RegistryNext
<1> QED
  BY <1>1, BreakerInvariance, PTL DEF RegistrySpec, OnlyProbeDecides

=============================================================================
