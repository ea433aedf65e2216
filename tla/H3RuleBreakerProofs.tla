------------------------- MODULE H3RuleBreakerProofs -------------------------
(***************************************************************************)
(* Cohorts, probations and leases of the HTTP/3 rule breaker are accounted *)
(* for exactly, and evidence counts only for what produced it, for every   *)
(* number of requests and connections and all durations.                   *)
(*                                                                         *)
(* The parts of the invariant take the state as parameters: n tokens given *)
(* out, the rule s, the requests rq, the maintenance probes mt and the     *)
(* connections cn.  An action is then a composition of small changes, each *)
(* of which has a lemma.                                                   *)
(*                                                                         *)
(* A second invariant ties the sample that is under way to the probation   *)
(* in which it was read; it is shown for each step from what the step does *)
(* to the probation, to its request and to the connection.                 *)
(***************************************************************************)
EXTENDS H3RuleBreaker, FiniteSetTheorems, TLAPS

EvalStages == {"validate", "check1", "retain1", "dial", "check2", "retain2", "complete"}
ArmStages == {"take", "arm", "finish"}

ProbationRec(n) ==
    [token : 0..n, key : Key \cup {None}, gen : Gen \cup {None},
     healthy : 0..HealthyCount, elapsed : 0..MaxDuration]

RuleRec(n) ==
    [phase : {"closed", "evaluating", "cooldown", "probation"},
     failures : 0..Len(Steps), retryIn : Nat, recent : [Gen -> 0..Window],
     probation : ProbationRec(n),
     evalToken : 0..n, evalInFlight : Nat, evalDeadline : Off..Grace, evalHoles : SUBSET Gen,
     owned : BOOLEAN,
     committed : SUBSET Gen, commitToken : 0..n, armInFlight : Nat, armed : BOOLEAN,
     routeToken : 0..n, routeKey : Key \cup {None}]

ReqRec(n) ==
    [st : {"idle", "leased", "validate", "probe", "tunnel", "take", "finish"},
     token : 0..n, key : Key \cup {None}, gen : Gen \cup {None}, armed : BOOLEAN]

MntRec(n) ==
    [st : {"off", "check1", "retain1", "dial", "check2", "retain2", "complete",
           "take", "arm", "finish"},
     token : 0..n, stale : SUBSET Gen, armed : BOOLEAN]

ConnMap == [Gen -> {"ok", "degraded", "reported", "hole", "gone"}]

Typed(n, s, rq, mt, cn) ==
    /\ n \in 0..MaxToken
    /\ s \in RuleRec(n)
    /\ rq \in [Request -> ReqRec(n)]
    /\ mt \in [Gen -> MntRec(n)]
    /\ cn \in ConnMap

\* Which fields are in use in which phase.
PhaseOK(s) ==
    /\ s.phase = "evaluating" => s.evalToken # 0
    /\ s.phase # "evaluating" => s.evalInFlight = 0
    /\ s.commitToken # 0 => s.phase = "cooldown"
    /\ s.commitToken = 0 => s.armInFlight = 0 /\ s.committed = {}

\* Both counters count their cohorts.
HoldersIn(rq, mt, token, stages) ==
    {q \in Request : rq[q].st \in stages /\ rq[q].token = token}
        \cup {g \in Gen : mt[g].st \in stages /\ mt[g].token = token}

CountersOK(s, rq, mt) ==
    /\ s.phase = "evaluating" =>
         s.evalInFlight = Cardinality(HoldersIn(rq, mt, s.evalToken, EvalStages))
    /\ s.commitToken # 0 =>
         s.armInFlight = Cardinality(HoldersIn(rq, mt, s.commitToken, ArmStages))

\* The arming that follows a commit is over before the cooldown ends: whoever
\* arms does so for the commit that stands, and the black holes it committed
\* wait for the one request that is to take them.
ArmsFor(s, token) ==
    s.phase = "cooldown" /\ s.retryIn > 0 /\ s.commitToken # 0 /\ token = s.commitToken

ReqArmingOK(s, r) ==
    /\ r.st = "finish" => ArmsFor(s, r.token)
    /\ r.st = "take" => /\ s.phase = "cooldown" /\ s.retryIn > 0
                        /\ s.commitToken # 0 => r.token = s.commitToken /\ s.committed # {}

MntArmingOK(s, m) ==
    m.st \in ArmStages /\ (m.token # 0 \/ m.st # "finish") => ArmsFor(s, m.token)

OneTakes(rq, mt) ==
    /\ \A q, r \in Request : rq[q].st = "take" /\ rq[r].st = "take" => q = r
    /\ \A q \in Request, g \in Gen : ~(rq[q].st = "take" /\ mt[g].st = "take")

ArmingOK(s, rq, mt) ==
    /\ \A q \in Request : ReqArmingOK(s, rq[q])
    /\ \A g \in Gen : MntArmingOK(s, mt[g])
    /\ OneTakes(rq, mt)

\* ProbationOwned
Owns(s, r) ==
    r.token = s.probation.token /\ r.gen = s.probation.gen /\ r.st \in {"probe", "tunnel"}
Leases(s, r) == r.st = "leased" /\ r.token = s.routeToken

OwnersOK(s, rq) ==
    /\ s.phase = "probation" => \E q \in Request : Owns(s, rq[q])
    /\ s.routeToken # 0 => s.phase = "cooldown" /\ \E q \in Request : Leases(s, rq[q])

\* The scopes of an evaluation are black holes, or were; what a check found
\* stale is gone for good.
StaleOK(mt, cn) == \A g \in Gen : \A h \in mt[g].stale : cn[h] = "gone"
HolesOK(s, mt, cn) ==
    /\ \A g \in s.evalHoles : cn[g] \in {"hole", "gone"}
    /\ StaleOK(mt, cn)

Inv(n, s, rq, mt, cn) ==
    /\ Typed(n, s, rq, mt, cn)
    /\ PhaseOK(s)
    /\ CountersOK(s, rq, mt)
    /\ ArmingOK(s, rq, mt)
    /\ OwnersOK(s, rq)
    /\ HolesOK(s, mt, cn)

\* The inductive invariant.
IInv == Inv(nextToken, rule, req, mnt, conn)

-----------------------------------------------------------------------------
(* What the transitions of a rule leave in its fields. *)

Cleared(t) ==
    /\ t.evalToken = 0 /\ t.evalInFlight = 0 /\ t.evalDeadline = Off /\ t.evalHoles = {}
    /\ t.committed = {} /\ t.commitToken = 0 /\ t.armInFlight = 0 /\ t.routeToken = 0
    /\ t.probation = NoProbation

LEMMA ConstantsTyped ==
    /\ Len(Steps) \in Nat \ {0} /\ \A i \in 1..Len(Steps) : Steps[i] \in Nat \ {0}
    /\ AbortDelay \in Nat \ {0} /\ Window \in Nat \ {0} /\ Grace \in Nat \ {0}
    /\ MaxDuration \in Nat \ {0} /\ HealthyCount \in Nat \ {0} /\ MaxToken \in Nat
    /\ Off \in Off..Grace /\ Grace \in Off..Grace
<1>1. Steps \in Seq(Nat \ {0}) /\ Steps # <<>>
  BY RuleAssumption
<1>2. Len(Steps) \in Nat \ {0} /\ \A i \in 1..Len(Steps) : Steps[i] \in Nat \ {0}
  BY <1>1
<1> QED
  BY <1>2, RuleAssumption DEF Off

LEMMA NoProbationTyped ==
    ASSUME NEW n \in Nat
    PROVE  NoProbation \in ProbationRec(n)
BY ConstantsTyped DEF NoProbation, ProbationRec

LEMMA ClearFacts ==
    ASSUME NEW n \in Nat, NEW s \in RuleRec(n)
    PROVE  /\ Clear(s) \in RuleRec(n) /\ Cleared(Clear(s))
           /\ Clear(s).phase = s.phase /\ Clear(s).failures = s.failures
           /\ Clear(s).retryIn = s.retryIn /\ Clear(s).recent = s.recent
<1>1. NoProbation \in ProbationRec(n) /\ Off \in Off..Grace /\ 0 \in 0..n
  BY NoProbationTyped, ConstantsTyped
<1> QED
  BY <1>1 DEF Clear, RuleRec, Cleared

LEMMA FailOpenFacts ==
    ASSUME NEW n \in Nat, NEW s \in RuleRec(n)
    PROVE  /\ FailOpen(s) \in RuleRec(n) /\ Cleared(FailOpen(s))
           /\ FailOpen(s).phase = "closed" /\ FailOpen(s).recent = s.recent
<1> DEFINE c == Clear(s)
<1>1. c \in RuleRec(n) /\ Cleared(c) /\ c.recent = s.recent
  BY ClearFacts
<1> DEFINE t == [c EXCEPT !.phase = "closed", !.failures = 0, !.retryIn = 0]
<1>2. FailOpen(s) = t
  BY DEF FailOpen
<1>3. 0 \in 0..Len(Steps)
  BY ConstantsTyped
<1> HIDE DEF c
<1>4. t \in RuleRec(n)
  BY <1>1, <1>3 DEF RuleRec
<1>5. Cleared(t)
  BY <1>1 DEF RuleRec, Cleared
<1>6. t.phase = "closed" /\ t.recent = s.recent
  BY <1>1 DEF RuleRec
<1> HIDE DEF t
<1> QED
  BY <1>2, <1>4, <1>5, <1>6

LEMMA ReenterFacts ==
    ASSUME NEW n \in Nat, NEW s \in RuleRec(n)
    PROVE  /\ Reenter(s) \in RuleRec(n) /\ Cleared(Reenter(s))
           /\ Reenter(s).phase = "cooldown"
<1> DEFINE c == Clear(s)
           f == IF s.failures < Len(Steps) THEN s.failures + 1 ELSE s.failures
<1>1. c \in RuleRec(n) /\ Cleared(c)
  BY ClearFacts
<1>2. s.failures \in 0..Len(Steps)
  BY DEF RuleRec
<1>3. f \in 1..Len(Steps) /\ f \in 0..Len(Steps) /\ Steps[f] \in Nat
  BY <1>2, ConstantsTyped
<1>4. Reenter(s) = [c EXCEPT !.phase = "cooldown", !.failures = f, !.retryIn = Steps[f]]
  BY DEF Reenter
<1> HIDE DEF c, f
<1>5. Reenter(s) \in RuleRec(n)
  BY <1>1, <1>3, <1>4 DEF RuleRec
<1>6. Cleared(Reenter(s)) /\ Reenter(s).phase = "cooldown"
  BY <1>1, <1>4 DEF RuleRec, Cleared
<1> QED
  BY <1>5, <1>6

LEMMA AbortFacts ==
    ASSUME NEW n \in Nat, NEW s \in RuleRec(n)
    PROVE  /\ Abort(s) \in RuleRec(n) /\ Cleared(Abort(s)) /\ Abort(s).phase = "cooldown"
<1> DEFINE c == Clear(s)
<1>1. c \in RuleRec(n) /\ Cleared(c)
  BY ClearFacts
<1>2. Abort(s) = [c EXCEPT !.phase = "cooldown", !.retryIn = AbortDelay]
  BY DEF Abort
<1>3. AbortDelay \in Nat
  BY ConstantsTyped
<1> HIDE DEF c
<1>4. Abort(s) \in RuleRec(n)
  BY <1>1, <1>2, <1>3 DEF RuleRec
<1>5. Cleared(Abort(s)) /\ Abort(s).phase = "cooldown"
  BY <1>1, <1>2 DEF RuleRec, Cleared
<1> QED
  BY <1>4, <1>5

\* A commit by one that reports with the evaluation's token.
LEMMA CommitFacts ==
    ASSUME NEW n \in Nat, NEW s \in RuleRec(n), s.evalToken # 0
    PROVE  LET t == CommitCooldown(s) IN
           /\ t \in RuleRec(n) /\ t.phase = "cooldown" /\ t.retryIn > 0
           /\ t.committed = s.evalHoles /\ t.evalHoles = {} /\ t.evalInFlight = 0
           /\ t.routeToken = 0
           /\ s.evalHoles = {} => t.commitToken = 0 /\ t.armInFlight = 0
           /\ s.evalHoles # {} => t.commitToken = s.evalToken /\ t.armInFlight = 1
<1> DEFINE c == Clear(s)
           k == IF s.evalHoles = {} THEN 0 ELSE s.evalToken
           a == IF s.evalHoles = {} THEN 0 ELSE 1
<1>1. c \in RuleRec(n) /\ Cleared(c)
  BY ClearFacts
<1>2. 1 \in 0..Len(Steps) /\ Steps[1] \in Nat \ {0} /\ k \in 0..n /\ a \in Nat
      /\ s.evalHoles \in SUBSET Gen
  BY ConstantsTyped DEF RuleRec
<1>3. CommitCooldown(s) = [c EXCEPT !.phase = "cooldown", !.failures = 1, !.retryIn = Steps[1],
        !.committed = s.evalHoles, !.commitToken = k, !.armInFlight = a]
  BY DEF CommitCooldown
<1>4. /\ s.evalHoles = {} => k = 0 /\ a = 0
      /\ s.evalHoles # {} => k = s.evalToken /\ a = 1
  OBVIOUS
<1> HIDE DEF c, k, a
<1> DEFINE t == [c EXCEPT !.phase = "cooldown", !.failures = 1, !.retryIn = Steps[1],
        !.committed = s.evalHoles, !.commitToken = k, !.armInFlight = a]
<1>5. t \in RuleRec(n)
  BY <1>1, <1>2 DEF RuleRec
<1>6. /\ t.phase = "cooldown" /\ t.retryIn = Steps[1] /\ t.committed = s.evalHoles
      /\ t.commitToken = k /\ t.armInFlight = a
  BY <1>1 DEF RuleRec
<1>7. t.evalHoles = {} /\ t.evalInFlight = 0 /\ t.routeToken = 0
  BY <1>1 DEF RuleRec, Cleared
<1> HIDE DEF t
<1>8. CommitCooldown(s) = t
  BY <1>3 DEF t
<1> QED
  BY <1>2, <1>4, <1>5, <1>6, <1>7, <1>8

-----------------------------------------------------------------------------
(* Counting the cohorts. *)

LEMMA HoldersFinite ==
    ASSUME NEW rq, NEW mt, NEW token, NEW stages
    PROVE  LET H == HoldersIn(rq, mt, token, stages) IN
           /\ IsFiniteSet(H)
           /\ Cardinality(H) \in 0..(Cardinality(Request) + Cardinality(Gen))
<1> DEFINE H == HoldersIn(rq, mt, token, stages)
<1>1. IsFiniteSet(Request) /\ IsFiniteSet(Gen) /\ Request \cap Gen = {}
  BY RuleAssumption
<1>2. /\ IsFiniteSet(Request \cup Gen)
      /\ Cardinality(Request \cup Gen)
           = Cardinality(Request) + Cardinality(Gen) - Cardinality(Request \cap Gen)
  BY <1>1, FS_Union
<1>3. Cardinality(Request) \in Nat /\ Cardinality(Gen) \in Nat /\ Cardinality(Request \cap Gen) = 0
  BY <1>1, FS_CardinalityType, FS_EmptySet
<1>4. H \in SUBSET (Request \cup Gen)
  BY DEF HoldersIn
<1>5. IsFiniteSet(H) /\ Cardinality(H) <= Cardinality(Request \cup Gen)
  BY <1>2, <1>4, FS_Subset
<1>6. Cardinality(H) \in Nat
  BY <1>5, FS_CardinalityType
<1> QED
  BY <1>2, <1>3, <1>5, <1>6

In(x, token, stages) == x.st \in stages /\ x.token = token

\* One request or one probe enters a cohort, leaves it or stays as it was.
OneMoves(H, K, before, after) ==
    /\ (before <=> after) => K = H
    /\ after /\ ~before => Cardinality(K) = Cardinality(H) + 1
    /\ before /\ ~after => Cardinality(K) = Cardinality(H) - 1 /\ Cardinality(H) > 0

LEMMA OneElement ==
    ASSUME NEW H, NEW K, IsFiniteSet(H), NEW x, NEW before \in BOOLEAN, NEW after \in BOOLEAN,
           before <=> x \in H, K = IF after THEN H \cup {x} ELSE H \ {x}
    PROVE  OneMoves(H, K, before, after)
<1>1. Cardinality(H) \in Nat
  BY FS_CardinalityType
<1>2. (before <=> after) => K = H
  OBVIOUS
<1>3. after /\ ~before => Cardinality(K) = Cardinality(H) + 1
  BY FS_AddElement
<1>4. before /\ ~after => Cardinality(K) = Cardinality(H) - 1 /\ Cardinality(H) > 0
  <2> SUFFICES ASSUME before, ~after
               PROVE  Cardinality(K) = Cardinality(H) - 1 /\ Cardinality(H) > 0
    OBVIOUS
  <2>1. Cardinality(K) = Cardinality(H) - 1 /\ IsFiniteSet(K)
    BY FS_RemoveElement
  <2>2. Cardinality(K) \in Nat
    BY <2>1, FS_CardinalityType
  <2> QED
    BY <1>1, <2>1, <2>2
<1> QED
  BY <1>2, <1>3, <1>4 DEF OneMoves

LEMMA ReqCounts ==
    ASSUME NEW rq, NEW mt, NEW n, rq \in [Request -> ReqRec(n)], NEW q \in Request, NEW r,
           NEW token, NEW stages
    PROVE  OneMoves(HoldersIn(rq, mt, token, stages),
                    HoldersIn([rq EXCEPT ![q] = r], mt, token, stages),
                    In(rq[q], token, stages), In(r, token, stages))
<1> DEFINE H == HoldersIn(rq, mt, token, stages)
           K == HoldersIn([rq EXCEPT ![q] = r], mt, token, stages)
<1>1. IsFiniteSet(H)
  BY HoldersFinite
<1>2. q \notin Gen
  BY RuleAssumption
<1>3. In(rq[q], token, stages) <=> q \in H
  BY <1>2 DEF In, HoldersIn
<1>4. K = IF In(r, token, stages) THEN H \cup {q} ELSE H \ {q}
  BY <1>2 DEF In, HoldersIn
<1>5. In(rq[q], token, stages) \in BOOLEAN /\ In(r, token, stages) \in BOOLEAN
  BY DEF In
<1> HIDE DEF H, K
<1>6. OneMoves(H, K, In(rq[q], token, stages), In(r, token, stages))
  BY <1>1, <1>3, <1>4, <1>5, OneElement
<1> QED
  BY <1>6 DEF H, K

LEMMA MntCounts ==
    ASSUME NEW rq, NEW mt, NEW n, mt \in [Gen -> MntRec(n)], NEW g \in Gen, NEW m,
           NEW token, NEW stages
    PROVE  OneMoves(HoldersIn(rq, mt, token, stages),
                    HoldersIn(rq, [mt EXCEPT ![g] = m], token, stages),
                    In(mt[g], token, stages), In(m, token, stages))
<1> DEFINE H == HoldersIn(rq, mt, token, stages)
           K == HoldersIn(rq, [mt EXCEPT ![g] = m], token, stages)
<1>1. IsFiniteSet(H)
  BY HoldersFinite
<1>2. g \notin Request
  BY RuleAssumption
<1>3. In(mt[g], token, stages) <=> g \in H
  BY <1>2 DEF In, HoldersIn
<1>4. K = IF In(m, token, stages) THEN H \cup {g} ELSE H \ {g}
  BY <1>2 DEF In, HoldersIn
<1>5. In(mt[g], token, stages) \in BOOLEAN /\ In(m, token, stages) \in BOOLEAN
  BY DEF In
<1> HIDE DEF H, K
<1>6. OneMoves(H, K, In(mt[g], token, stages), In(m, token, stages))
  BY <1>1, <1>3, <1>4, <1>5, OneElement
<1> QED
  BY <1>6 DEF H, K

\* Nobody holds a token that was not given out.
LEMMA FreshCohort ==
    ASSUME NEW n \in Nat, NEW rq \in [Request -> ReqRec(n)], NEW mt \in [Gen -> MntRec(n)],
           NEW stages, NEW k \in Nat, k > n
    PROVE  HoldersIn(rq, mt, k, stages) = {}
<1>1. \A q \in Request : rq[q].token # k
  BY DEF ReqRec
<1>2. \A g \in Gen : mt[g].token # k
  BY DEF MntRec
<1> QED
  BY <1>1, <1>2 DEF HoldersIn

-----------------------------------------------------------------------------
(* Small changes. *)

\* Nobody is arming for a commit.
NoArming(rq, mt) ==
    /\ \A q \in Request : rq[q].st \notin ArmStages
    /\ \A g \in Gen : mt[g].st \in ArmStages => mt[g].st = "finish" /\ mt[g].token = 0

\* The rule opens to HTTP/3 or enters a cooldown that no black hole was committed to.
LEMMA ResetKeeps ==
    ASSUME NEW n, NEW t, NEW rq, NEW mt, NEW cn, Typed(n, t, rq, mt, cn),
           Cleared(t), t.phase \in {"closed", "cooldown"},
           NoArming(rq, mt), StaleOK(mt, cn)
    PROVE  Inv(n, t, rq, mt, cn)
<1>1. PhaseOK(t)
  BY DEF PhaseOK, Cleared
<1>2. CountersOK(t, rq, mt)
  BY DEF CountersOK, Cleared
<1>3. ArmingOK(t, rq, mt)
  BY DEF ArmingOK, ReqArmingOK, MntArmingOK, OneTakes, NoArming, ArmStages
<1>4. OwnersOK(t, rq) /\ HolesOK(t, mt, cn)
  BY DEF OwnersOK, HolesOK, Cleared
<1> QED
  BY <1>1, <1>2, <1>3, <1>4 DEF Inv

\* Outside of a cooldown, and when it is over, nobody is arming.
LEMMA NobodyArms ==
    ASSUME NEW n, NEW s, NEW rq, NEW mt, NEW cn, Inv(n, s, rq, mt, cn),
           s.phase # "cooldown" \/ s.retryIn = 0
    PROVE  NoArming(rq, mt)
<1>1. ~(s.phase = "cooldown" /\ s.retryIn > 0)
  OBVIOUS
<1>2. ASSUME NEW q \in Request PROVE rq[q].st \notin ArmStages
  <2>1. rq[q] \in ReqRec(n) /\ ReqArmingOK(s, rq[q])
    BY DEF Inv, Typed, ArmingOK
  <2> QED
    BY <1>1, <2>1 DEF ReqArmingOK, ArmsFor, ArmStages, ReqRec
<1>3. ASSUME NEW g \in Gen, mt[g].st \in ArmStages PROVE mt[g].st = "finish" /\ mt[g].token = 0
  BY <1>1, <1>3 DEF Inv, ArmingOK, MntArmingOK, ArmsFor
<1> QED
  BY <1>2, <1>3 DEF NoArming

LEMMA MoreTokens ==
    ASSUME NEW n, NEW s, NEW rq, NEW mt, NEW cn, Inv(n, s, rq, mt, cn), n < MaxToken
    PROVE  Inv(n + 1, s, rq, mt, cn)
<1>1. n \in Nat /\ n + 1 \in 0..MaxToken /\ 0..n \in SUBSET (0..(n + 1))
  BY ConstantsTyped DEF Inv, Typed
<1>2. s \in RuleRec(n + 1)
  <2>1. s \in RuleRec(n)
    BY DEF Inv, Typed
  <2>2. s.probation \in ProbationRec(n + 1)
    <3>1. s.probation \in ProbationRec(n)
      BY <2>1 DEF RuleRec
    <3> QED
      BY <1>1, <3>1 DEF ProbationRec
  <2> QED
    BY <1>1, <2>1, <2>2 DEF RuleRec
<1>3. \A q \in Request : rq[q] \in ReqRec(n + 1)
  BY <1>1 DEF Inv, Typed, ReqRec
<1>4. \A g \in Gen : mt[g] \in MntRec(n + 1)
  BY <1>1 DEF Inv, Typed, MntRec
<1>5. Typed(n + 1, s, rq, mt, cn)
  BY <1>1, <1>2, <1>3, <1>4 DEF Inv, Typed
<1> QED
  BY <1>5 DEF Inv

\* A connection changes under a rule and probes that do not rely on it.
LEMMA ConnMoves ==
    ASSUME NEW n, NEW s, NEW rq, NEW mt, NEW cn, Inv(n, s, rq, mt, cn), NEW g \in Gen,
           NEW c \in {"ok", "degraded", "reported", "hole", "gone"}, cn[g] # "gone",
           g \in s.evalHoles => c \in {"hole", "gone"}
    PROVE  Inv(n, s, rq, mt, [cn EXCEPT ![g] = c])
<1> DEFINE d == [cn EXCEPT ![g] = c]
<1>1. cn \in ConnMap
  BY DEF Inv, Typed
<1>2. d \in ConnMap /\ d[g] = c /\ \A h \in Gen \ {g} : d[h] = cn[h]
  BY <1>1 DEF ConnMap
<1> HIDE DEF d
<1>3. s.evalHoles \in SUBSET Gen
  BY DEF Inv, Typed, RuleRec
<1>5. HolesOK(s, mt, d)
  <2>1. \A h \in s.evalHoles : d[h] \in {"hole", "gone"}
    BY <1>2, <1>3 DEF Inv, HolesOK
  <2>2. ASSUME NEW i \in Gen, NEW h \in mt[i].stale PROVE d[h] = "gone"
    <3>1. h \in Gen /\ cn[h] = "gone"
      BY DEF Inv, Typed, MntRec, HolesOK, StaleOK
    <3> QED
      BY <1>2, <3>1
  <2> QED
    BY <2>1, <2>2 DEF HolesOK, StaleOK
<1>6. Typed(n, s, rq, mt, d)
  BY <1>2 DEF Inv, Typed
<1>7. Inv(n, s, rq, mt, d)
  BY <1>5, <1>6 DEF Inv
<1> QED
  BY <1>7 DEF d

\* A request that changes no count goes on with the record r.
LEMMA ReqMoves ==
    ASSUME NEW n, NEW s, NEW rq, NEW mt, NEW cn, Inv(n, s, rq, mt, cn), NEW q \in Request,
           NEW r \in ReqRec(n),
           s.phase = "evaluating" =>
             (In(rq[q], s.evalToken, EvalStages) <=> In(r, s.evalToken, EvalStages)),
           s.commitToken # 0 =>
             (In(rq[q], s.commitToken, ArmStages) <=> In(r, s.commitToken, ArmStages)),
           ReqArmingOK(s, r), r.st # "take",
           s.phase = "probation" /\ Owns(s, rq[q]) => Owns(s, r),
           s.routeToken # 0 /\ Leases(s, rq[q]) => Leases(s, r)
    PROVE  Inv(n, s, [rq EXCEPT ![q] = r], mt, cn)
<1> DEFINE p == [rq EXCEPT ![q] = r]
<1>1. rq \in [Request -> ReqRec(n)]
  BY DEF Inv, Typed
<1>2. p \in [Request -> ReqRec(n)] /\ p[q] = r /\ \A x \in Request \ {q} : p[x] = rq[x]
  BY <1>1
<1>3. CountersOK(s, p, mt)
  <2>1. s.phase = "evaluating" =>
          HoldersIn(p, mt, s.evalToken, EvalStages) = HoldersIn(rq, mt, s.evalToken, EvalStages)
    <3>1. OneMoves(HoldersIn(rq, mt, s.evalToken, EvalStages), HoldersIn(p, mt, s.evalToken, EvalStages),
                   In(rq[q], s.evalToken, EvalStages), In(r, s.evalToken, EvalStages))
      BY <1>1, ReqCounts
    <3> QED
      BY <3>1 DEF OneMoves
  <2>2. s.commitToken # 0 =>
          HoldersIn(p, mt, s.commitToken, ArmStages) = HoldersIn(rq, mt, s.commitToken, ArmStages)
    <3>1. OneMoves(HoldersIn(rq, mt, s.commitToken, ArmStages), HoldersIn(p, mt, s.commitToken, ArmStages),
                   In(rq[q], s.commitToken, ArmStages), In(r, s.commitToken, ArmStages))
      BY <1>1, ReqCounts
    <3> QED
      BY <3>1 DEF OneMoves
  <2> QED
    BY <2>1, <2>2 DEF Inv, CountersOK
<1> HIDE DEF p
<1>4. ArmingOK(s, p, mt)
  BY <1>2 DEF Inv, ArmingOK, OneTakes
<1>5. OwnersOK(s, p)
  <2>1. s.phase = "probation" => \E x \in Request : Owns(s, p[x])
    BY <1>2 DEF Inv, OwnersOK
  <2>2. s.routeToken # 0 => s.phase = "cooldown" /\ \E x \in Request : Leases(s, p[x])
    BY <1>2 DEF Inv, OwnersOK
  <2> QED
    BY <2>1, <2>2 DEF OwnersOK
<1>6. Typed(n, s, p, mt, cn)
  BY <1>2 DEF Inv, Typed
<1>7. Inv(n, s, p, mt, cn)
  BY <1>3, <1>4, <1>5, <1>6 DEF Inv
<1> QED
  BY <1>7 DEF p

\* So does a probe with m.
LEMMA MntMoves ==
    ASSUME NEW n, NEW s, NEW rq, NEW mt, NEW cn, Inv(n, s, rq, mt, cn), NEW g \in Gen,
           NEW m \in MntRec(n),
           s.phase = "evaluating" =>
             (In(mt[g], s.evalToken, EvalStages) <=> In(m, s.evalToken, EvalStages)),
           s.commitToken # 0 =>
             (In(mt[g], s.commitToken, ArmStages) <=> In(m, s.commitToken, ArmStages)),
           MntArmingOK(s, m), m.st # "take", \A h \in m.stale : cn[h] = "gone"
    PROVE  Inv(n, s, rq, [mt EXCEPT ![g] = m], cn)
<1> DEFINE p == [mt EXCEPT ![g] = m]
<1>1. mt \in [Gen -> MntRec(n)]
  BY DEF Inv, Typed
<1>2. p \in [Gen -> MntRec(n)] /\ p[g] = m /\ \A x \in Gen \ {g} : p[x] = mt[x]
  BY <1>1
<1>3. CountersOK(s, rq, p)
  <2>1. s.phase = "evaluating" =>
          HoldersIn(rq, p, s.evalToken, EvalStages) = HoldersIn(rq, mt, s.evalToken, EvalStages)
    <3>1. OneMoves(HoldersIn(rq, mt, s.evalToken, EvalStages), HoldersIn(rq, p, s.evalToken, EvalStages),
                   In(mt[g], s.evalToken, EvalStages), In(m, s.evalToken, EvalStages))
      BY <1>1, MntCounts
    <3> QED
      BY <3>1 DEF OneMoves
  <2>2. s.commitToken # 0 =>
          HoldersIn(rq, p, s.commitToken, ArmStages) = HoldersIn(rq, mt, s.commitToken, ArmStages)
    <3>1. OneMoves(HoldersIn(rq, mt, s.commitToken, ArmStages), HoldersIn(rq, p, s.commitToken, ArmStages),
                   In(mt[g], s.commitToken, ArmStages), In(m, s.commitToken, ArmStages))
      BY <1>1, MntCounts
    <3> QED
      BY <3>1 DEF OneMoves
  <2> QED
    BY <2>1, <2>2 DEF Inv, CountersOK
<1> HIDE DEF p
<1>4. ArmingOK(s, rq, p)
  BY <1>2 DEF Inv, ArmingOK, OneTakes
<1>5. HolesOK(s, p, cn)
  BY <1>2 DEF Inv, HolesOK, StaleOK
<1>6. Typed(n, s, rq, p, cn)
  BY <1>2 DEF Inv, Typed
<1>7. Inv(n, s, rq, p, cn)
  BY <1>3, <1>4, <1>5, <1>6 DEF Inv
<1> QED
  BY <1>7 DEF p

\* The rule keeps its phase, tokens and counters; its committed black holes may
\* have been taken and a lease may have been given or returned.
SameControl(s, t) ==
    /\ t.phase = s.phase /\ t.evalToken = s.evalToken /\ t.evalInFlight = s.evalInFlight
    /\ t.commitToken = s.commitToken /\ t.armInFlight = s.armInFlight
    /\ t.probation.token = s.probation.token /\ t.probation.gen = s.probation.gen

LEMMA RuleMoves ==
    ASSUME NEW n, NEW s, NEW rq, NEW mt, NEW cn, Inv(n, s, rq, mt, cn), NEW t \in RuleRec(n),
           SameControl(s, t),
           \A g \in t.evalHoles : cn[g] \in {"hole", "gone"},
           \/ t.committed = s.committed
           \/ t.committed = {} /\ \A q \in Request : rq[q].st # "take",
           \/ t.routeToken = s.routeToken
           \/ t.routeToken # 0 => t.phase = "cooldown" /\ \E q \in Request : Leases(t, rq[q]),
           t.retryIn > 0 \/ t.retryIn = s.retryIn \/ NoArming(rq, mt)
    PROVE  Inv(n, t, rq, mt, cn)
<1>1. Typed(n, t, rq, mt, cn)
  BY DEF Inv, Typed
<1>2. PhaseOK(t)
  BY DEF Inv, PhaseOK, SameControl
<1>3. CountersOK(t, rq, mt)
  BY DEF Inv, CountersOK, SameControl
<1>4. ArmingOK(t, rq, mt)
  <2>1. ASSUME NEW q \in Request PROVE ReqArmingOK(t, rq[q])
    BY DEF Inv, ArmingOK, ReqArmingOK, ArmsFor, SameControl, NoArming, ArmStages
  <2>2. ASSUME NEW g \in Gen PROVE MntArmingOK(t, mt[g])
    BY DEF Inv, ArmingOK, MntArmingOK, ArmsFor, SameControl, NoArming
  <2> QED
    BY <2>1, <2>2 DEF Inv, ArmingOK
<1>5. OwnersOK(t, rq)
  BY DEF Inv, OwnersOK, SameControl, Owns, Leases
<1>6. HolesOK(t, mt, cn)
  BY DEF Inv, HolesOK, SameControl
<1> QED
  BY <1>1, <1>2, <1>3, <1>4, <1>5, <1>6 DEF Inv

\* An evaluation whose cohort is counted.
LEMMA EvaluationKeeps ==
    ASSUME NEW n, NEW t, NEW rq, NEW mt, NEW cn, Typed(n, t, rq, mt, cn),
           t.phase = "evaluating", t.evalToken # 0, t.commitToken = 0, t.armInFlight = 0,
           t.committed = {}, t.routeToken = 0,
           t.evalInFlight = Cardinality(HoldersIn(rq, mt, t.evalToken, EvalStages)),
           \A g \in t.evalHoles : cn[g] \in {"hole", "gone"},
           NoArming(rq, mt), StaleOK(mt, cn)
    PROVE  Inv(n, t, rq, mt, cn)
<1>1. PhaseOK(t) /\ CountersOK(t, rq, mt)
  BY DEF PhaseOK, CountersOK
<1>2. ArmingOK(t, rq, mt)
  BY DEF ArmingOK, ReqArmingOK, MntArmingOK, OneTakes, NoArming, ArmStages
<1>3. OwnersOK(t, rq) /\ HolesOK(t, mt, cn)
  BY DEF OwnersOK, HolesOK
<1> QED
  BY <1>1, <1>2, <1>3 DEF Inv

\* A probation with its request.
LEMMA ProbationKeeps ==
    ASSUME NEW n, NEW t, NEW rq, NEW mt, NEW cn, Typed(n, t, rq, mt, cn),
           t.phase = "probation", t.evalInFlight = 0, t.commitToken = 0, t.armInFlight = 0,
           t.committed = {}, t.routeToken = 0, \A g \in t.evalHoles : cn[g] \in {"hole", "gone"},
           \E q \in Request : Owns(t, rq[q]),
           NoArming(rq, mt), StaleOK(mt, cn)
    PROVE  Inv(n, t, rq, mt, cn)
<1>1. PhaseOK(t) /\ CountersOK(t, rq, mt)
  BY DEF PhaseOK, CountersOK
<1>2. ArmingOK(t, rq, mt)
  BY DEF ArmingOK, ReqArmingOK, MntArmingOK, OneTakes, NoArming, ArmStages
<1>3. OwnersOK(t, rq) /\ HolesOK(t, mt, cn)
  BY DEF OwnersOK, HolesOK
<1> QED
  BY <1>1, <1>2, <1>3 DEF Inv

\* A cooldown with those that arm for it.
LEMMA CooldownKeeps ==
    ASSUME NEW n, NEW t, NEW rq, NEW mt, NEW cn, Typed(n, t, rq, mt, cn),
           t.phase = "cooldown", PhaseOK(t), OwnersOK(t, rq), ArmingOK(t, rq, mt),
           t.commitToken # 0 =>
             t.armInFlight = Cardinality(HoldersIn(rq, mt, t.commitToken, ArmStages)),
           HolesOK(t, mt, cn)
    PROVE  Inv(n, t, rq, mt, cn)
BY DEF Inv, CountersOK

-----------------------------------------------------------------------------
(* The parts of the invariant that the actions use. *)

LEMMA Facts ==
    ASSUME NEW n, NEW s, NEW rq, NEW mt, NEW cn, Inv(n, s, rq, mt, cn)
    PROVE  /\ n \in Nat /\ s \in RuleRec(n) /\ cn \in ConnMap
           /\ rq \in [Request -> ReqRec(n)] /\ mt \in [Gen -> MntRec(n)]
           /\ StaleOK(mt, cn) /\ PhaseOK(s)
           /\ \A g \in s.evalHoles : cn[g] \in {"hole", "gone"}
BY DEF Inv, Typed, HolesOK

LEMMA IdleTyped ==
    ASSUME NEW n \in Nat
    PROVE  Idle \in ReqRec(n) /\ NoWork \in MntRec(n)
BY DEF Idle, NoWork, ReqRec, MntRec

\* A request ends that nobody counts or waits for.
LEMMA ReqEnds ==
    ASSUME NEW n, NEW s, NEW rq, NEW mt, NEW cn, Inv(n, s, rq, mt, cn), NEW q \in Request,
           ~(s.phase = "evaluating" /\ In(rq[q], s.evalToken, EvalStages)),
           ~(s.commitToken # 0 /\ In(rq[q], s.commitToken, ArmStages)),
           ~(s.phase = "probation" /\ Owns(s, rq[q])),
           ~(s.routeToken # 0 /\ Leases(s, rq[q]))
    PROVE  Inv(n, s, [rq EXCEPT ![q] = Idle], mt, cn)
<1>1. Idle \in ReqRec(n)
  BY Facts, IdleTyped
<1>2. Idle.st = "idle"
  BY DEF Idle
<1>3. ReqArmingOK(s, Idle) /\ Idle.st # "take"
  BY <1>2 DEF ReqArmingOK
<1>4. ~In(Idle, s.evalToken, EvalStages) /\ ~In(Idle, s.commitToken, ArmStages)
  BY <1>2 DEF In, EvalStages, ArmStages
<1> QED
  BY <1>1, <1>3, <1>4, ReqMoves

LEMMA MntEnds ==
    ASSUME NEW n, NEW s, NEW rq, NEW mt, NEW cn, Inv(n, s, rq, mt, cn), NEW g \in Gen,
           ~(s.phase = "evaluating" /\ In(mt[g], s.evalToken, EvalStages)),
           ~(s.commitToken # 0 /\ In(mt[g], s.commitToken, ArmStages))
    PROVE  Inv(n, s, rq, [mt EXCEPT ![g] = NoWork], cn)
<1>1. NoWork \in MntRec(n)
  BY Facts, IdleTyped
<1>2. NoWork.st = "off" /\ NoWork.stale = {}
  BY DEF NoWork
<1>3. MntArmingOK(s, NoWork) /\ NoWork.st # "take" /\ \A h \in NoWork.stale : cn[h] = "gone"
  BY <1>2 DEF MntArmingOK, ArmStages
<1>4. ~In(NoWork, s.evalToken, EvalStages) /\ ~In(NoWork, s.commitToken, ArmStages)
  BY <1>2 DEF In, EvalStages, ArmStages
<1> QED
  BY <1>1, <1>3, <1>4, MntMoves

\* A member of the cohort is counted.
LEMMA Counted ==
    ASSUME NEW n, NEW s, NEW rq, NEW mt, NEW cn, Inv(n, s, rq, mt, cn), s.phase = "evaluating",
           \/ \E q \in Request : In(rq[q], s.evalToken, EvalStages)
           \/ \E g \in Gen : In(mt[g], s.evalToken, EvalStages)
    PROVE  s.evalInFlight > 0
<1> DEFINE H == HoldersIn(rq, mt, s.evalToken, EvalStages)
<1>1. H # {}
  BY DEF HoldersIn, In
<1>2. IsFiniteSet(H) /\ Cardinality(H) \in Nat
  BY HoldersFinite
<1>3. s.evalInFlight = Cardinality(H)
  BY DEF Inv, CountersOK
<1> HIDE DEF H
<1>4. Cardinality(H) # 0
  BY <1>1, <1>2, FS_EmptySet
<1> QED
  BY <1>2, <1>3, <1>4

\* Ending one request or one probe leaves nobody arming, if nobody else was.
LEMMA EndsQuietly ==
    ASSUME NEW n, NEW rq \in [Request -> ReqRec(n)], NEW mt \in [Gen -> MntRec(n)], NEW cn,
           NoArming(rq, mt), StaleOK(mt, cn)
    PROVE  /\ \A q \in Request : \A r : r.st \notin ArmStages => NoArming([rq EXCEPT ![q] = r], mt)
           /\ \A g \in Gen : /\ NoArming(rq, [mt EXCEPT ![g] = NoWork])
                             /\ StaleOK([mt EXCEPT ![g] = NoWork], cn)
<1>1. NoWork.st = "off" /\ NoWork.stale = {}
  BY DEF NoWork
<1>2. ASSUME NEW q \in Request, NEW r, r.st \notin ArmStages
      PROVE  NoArming([rq EXCEPT ![q] = r], mt)
  BY <1>2 DEF NoArming
<1>3. ASSUME NEW g \in Gen PROVE NoArming(rq, [mt EXCEPT ![g] = NoWork])
  BY <1>1 DEF NoArming, ArmStages
<1>4. ASSUME NEW g \in Gen PROVE StaleOK([mt EXCEPT ![g] = NoWork], cn)
  BY <1>1 DEF StaleOK
<1> QED
  BY <1>2, <1>3, <1>4

\* expireEvaluationLocked
LEMMA ExpireKeeps ==
    ASSUME NEW n, NEW s, NEW rq, NEW mt, NEW cn, Inv(n, s, rq, mt, cn)
    PROVE  /\ Inv(n, Expire(s), rq, mt, cn) /\ ~Expired(Expire(s))
           /\ s.phase # "evaluating" => Expire(s) = s
<1>1. CASE Expired(s)
  <2>1. s.phase = "evaluating" /\ Expire(s) = FailOpen(s)
    BY <1>1 DEF Expired, Expire
  <2>2. /\ FailOpen(s) \in RuleRec(n) /\ Cleared(FailOpen(s)) /\ FailOpen(s).phase = "closed"
    BY Facts, FailOpenFacts
  <2>3. NoArming(rq, mt)
    BY <2>1, NobodyArms
  <2>4. Typed(n, FailOpen(s), rq, mt, cn)
    BY <2>2 DEF Inv, Typed
  <2>5. Inv(n, FailOpen(s), rq, mt, cn)
    BY <2>2, <2>3, <2>4, Facts, ResetKeeps
  <2> QED
    BY <2>1, <2>2, <2>5 DEF Expired
<1>2. CASE ~Expired(s)
  BY <1>2 DEF Expire
<1> QED
  BY <1>1, <1>2

\* A phase is over, and with it the request that ended it or that is too late.
LEMMA ResetReq ==
    ASSUME NEW n, NEW s, NEW rq, NEW mt, NEW cn, Inv(n, s, rq, mt, cn), NEW q \in Request,
           s.phase # "cooldown", NEW t \in {FailOpen(s), Reenter(s), Abort(s)}
    PROVE  Inv(n, t, [rq EXCEPT ![q] = Idle], mt, cn)
<1>1. t \in RuleRec(n) /\ Cleared(t) /\ t.phase \in {"closed", "cooldown"}
  BY Facts, FailOpenFacts, ReenterFacts, AbortFacts
<1>2. NoArming(rq, mt)
  BY NobodyArms
<1>3. Idle \in ReqRec(n) /\ Idle.st \notin ArmStages
  BY Facts, IdleTyped DEF Idle, ArmStages
<1>4. NoArming([rq EXCEPT ![q] = Idle], mt)
  BY <1>2, <1>3, Facts, EndsQuietly
<1>5. Typed(n, t, [rq EXCEPT ![q] = Idle], mt, cn)
  BY <1>1, <1>3 DEF Inv, Typed
<1> QED
  BY <1>1, <1>4, <1>5, Facts, ResetKeeps

LEMMA ResetMnt ==
    ASSUME NEW n, NEW s, NEW rq, NEW mt, NEW cn, Inv(n, s, rq, mt, cn), NEW g \in Gen,
           s.phase # "cooldown"
    PROVE  Inv(n, FailOpen(s), rq, [mt EXCEPT ![g] = NoWork], cn)
<1> DEFINE t == FailOpen(s)
<1>1. t \in RuleRec(n) /\ Cleared(t) /\ t.phase = "closed"
  BY Facts, FailOpenFacts
<1>2. NoArming(rq, mt)
  BY NobodyArms
<1>3. NoArming(rq, [mt EXCEPT ![g] = NoWork]) /\ StaleOK([mt EXCEPT ![g] = NoWork], cn)
  BY <1>2, Facts, EndsQuietly
<1>4. Typed(n, t, rq, [mt EXCEPT ![g] = NoWork], cn)
  BY <1>1, Facts, IdleTyped DEF Inv, Typed
<1> HIDE DEF t
<1>5. Inv(n, t, rq, [mt EXCEPT ![g] = NoWork], cn)
  BY <1>1, <1>3, <1>4, ResetKeeps
<1> QED
  BY <1>5 DEF t

-----------------------------------------------------------------------------
(* The actions of requests. *)

LEMMA JoinKeeps ==
    ASSUME IInv, NEW q \in Request, JoinEvaluation(q)
    PROVE  IInv'
<1> DEFINE r == [Idle EXCEPT !.st = "validate", !.token = rule.evalToken]
           d == IF rule.evalDeadline = Off THEN Grace ELSE rule.evalDeadline
           t == [rule EXCEPT !.evalInFlight = rule.evalInFlight + 1, !.evalDeadline = d]
           p == [req EXCEPT ![q] = r]
           H == HoldersIn(req, mnt, rule.evalToken, EvalStages)
           K == HoldersIn(p, mnt, rule.evalToken, EvalStages)
<1>1. Inv(nextToken, rule, req, mnt, conn) /\ req[q].st = "idle" /\ rule.phase = "evaluating"
  BY DEF IInv, JoinEvaluation
<1>2. /\ rule' = t /\ req' = p
      /\ nextToken' = nextToken /\ mnt' = mnt /\ conn' = conn
  BY DEF JoinEvaluation
<1>0. rule \in RuleRec(nextToken) /\ Idle \in ReqRec(nextToken)
  BY <1>1, Facts, IdleTyped
<1>3. d \in Off..Grace /\ rule.evalInFlight + 1 \in Nat /\ rule.evalToken \in 0..nextToken
  BY <1>0, ConstantsTyped DEF RuleRec
<1>4. r \in ReqRec(nextToken) /\ r.st = "validate" /\ r.token = rule.evalToken
  BY <1>0, <1>3 DEF ReqRec
<1>5. p \in [Request -> ReqRec(nextToken)]
  BY <1>1, <1>4, Facts
<1>6. In(r, rule.evalToken, EvalStages) /\ ~In(req[q], rule.evalToken, EvalStages)
  BY <1>1, <1>4 DEF In, EvalStages
<1>7. Cardinality(K) = Cardinality(H) + 1
  <2>1. OneMoves(H, K, In(req[q], rule.evalToken, EvalStages), In(r, rule.evalToken, EvalStages))
    BY <1>1, Facts, ReqCounts
  <2> QED
    BY <1>6, <2>1 DEF OneMoves
<1>8. rule.evalInFlight = Cardinality(H)
  BY <1>1 DEF Inv, CountersOK
<1>9. NoArming(req, mnt)
  BY <1>1, NobodyArms
<1>10. NoArming(p, mnt)
  BY <1>1, <1>4, <1>9, Facts, EndsQuietly DEF ArmStages
<1> HIDE DEF d, p, H, r
<1>11. /\ t \in RuleRec(nextToken) /\ t.phase = "evaluating" /\ t.evalToken = rule.evalToken
       /\ t.commitToken = rule.commitToken /\ t.armInFlight = rule.armInFlight
       /\ t.committed = rule.committed /\ t.routeToken = rule.routeToken
       /\ t.evalHoles = rule.evalHoles /\ t.evalInFlight = rule.evalInFlight + 1
  BY <1>0, <1>1, <1>3 DEF RuleRec
<1>12. /\ rule.evalToken # 0 /\ rule.commitToken = 0 /\ rule.armInFlight = 0
       /\ rule.committed = {} /\ rule.routeToken = 0
  BY <1>1 DEF Inv, PhaseOK, OwnersOK
<1> HIDE DEF t
<1>13. Typed(nextToken, t, p, mnt, conn)
  BY <1>1, <1>5, <1>11 DEF Inv, Typed
<1>14. Inv(nextToken, t, p, mnt, conn)
  BY <1>1, <1>7, <1>8, <1>10, <1>11, <1>12, <1>13, Facts, EvaluationKeeps
<1> QED
  BY <1>2, <1>14 DEF IInv

LEMMA ClaimKeeps ==
    ASSUME IInv, NEW q \in Request, NEW k \in Key, ClaimRouteProbe(q, k)
    PROVE  IInv'
<1> DEFINE n == nextToken + 1
           r == [Idle EXCEPT !.st = "leased", !.token = n, !.key = k]
           t == [rule EXCEPT !.routeToken = n, !.routeKey = k]
           p == [req EXCEPT ![q] = r]
<1>1. /\ Inv(nextToken, rule, req, mnt, conn) /\ req[q].st = "idle" /\ nextToken < MaxToken
      /\ rule.phase = "cooldown" /\ rule.retryIn = 0
  BY DEF IInv, ClaimRouteProbe
<1>2. /\ rule' = t /\ req' = p /\ nextToken' = n /\ mnt' = mnt /\ conn' = conn
  BY DEF ClaimRouteProbe
<1>3. Inv(n, rule, req, mnt, conn) /\ n \in Nat /\ n # 0
  BY <1>1, MoreTokens, Facts
<1> HIDE DEF n
<1>0. rule \in RuleRec(n) /\ Idle \in ReqRec(n) /\ n \in 0..n
  BY <1>3, Facts, IdleTyped
<1>4. r \in ReqRec(n) /\ r.st = "leased" /\ r.token = n
  BY <1>0 DEF ReqRec
<1> HIDE DEF r
<1>5. Inv(n, rule, p, mnt, conn)
  <2>1. /\ ~In(r, rule.commitToken, ArmStages) /\ ~In(req[q], rule.commitToken, ArmStages)
        /\ ReqArmingOK(rule, r) /\ ~Leases(rule, req[q])
    BY <1>1, <1>4 DEF In, ArmStages, ReqArmingOK, Leases
  <2> QED
    BY <1>1, <1>3, <1>4, <2>1, ReqMoves
<1>6. p[q] = r
  BY <1>3, Facts
<1> HIDE DEF p
<1>7. /\ t \in RuleRec(n) /\ SameControl(rule, t) /\ t.committed = rule.committed
      /\ t.evalHoles = rule.evalHoles /\ t.retryIn = rule.retryIn /\ t.routeToken = n
      /\ t.phase = rule.phase
  BY <1>0 DEF RuleRec, SameControl
<1> HIDE DEF t
<1>8. Leases(t, p[q])
  BY <1>4, <1>6, <1>7 DEF Leases
<1>9. Inv(n, t, p, mnt, conn)
  BY <1>1, <1>5, <1>7, <1>8, Facts, RuleMoves
<1> QED
  BY <1>2, <1>9 DEF IInv

LEMMA ReleaseKeeps ==
    ASSUME IInv, NEW q \in Request, ReleaseRouteProbe(q)
    PROVE  IInv'
<1> DEFINE p == [req EXCEPT ![q] = Idle]
           t == [rule EXCEPT !.routeToken = 0, !.routeKey = None, !.retryIn = AbortDelay]
<1>1. /\ Inv(nextToken, rule, req, mnt, conn) /\ req[q].st = "leased"
      /\ req' = p /\ nextToken' = nextToken /\ mnt' = mnt /\ conn' = conn
      /\ rule' = IF rule.routeToken = req[q].token THEN t ELSE rule
  BY DEF IInv, ReleaseRouteProbe
<1>2. ASSUME NEW s
      PROVE  ~In(req[q], s.evalToken, EvalStages) /\ ~In(req[q], s.commitToken, ArmStages)
             /\ ~Owns(s, req[q])
  BY <1>1 DEF In, EvalStages, ArmStages, Owns
<1>3. CASE rule.routeToken = req[q].token
  <2>1. /\ 0 \in 0..nextToken /\ AbortDelay \in Nat /\ AbortDelay > 0
        /\ rule \in RuleRec(nextToken)
    BY <1>1, Facts, ConstantsTyped
  <2>2. /\ t \in RuleRec(nextToken) /\ SameControl(rule, t) /\ t.committed = rule.committed
        /\ t.evalHoles = rule.evalHoles /\ t.retryIn = AbortDelay /\ t.routeToken = 0
    BY <2>1 DEF RuleRec, SameControl
  <2>3. rule' = t
    BY <1>1, <1>3
  <2> HIDE DEF t
  <2>4. Inv(nextToken, t, req, mnt, conn)
    BY <1>1, <2>1, <2>2, Facts, RuleMoves
  <2>5. Inv(nextToken, t, p, mnt, conn)
    BY <1>2, <2>2, <2>4, ReqEnds
  <2> QED
    BY <1>1, <2>3, <2>5 DEF IInv
<1>4. CASE rule.routeToken # req[q].token
  <2>1. ~Leases(rule, req[q])
    BY <1>4 DEF Leases
  <2>2. Inv(nextToken, rule, p, mnt, conn)
    BY <1>1, <1>2, <2>1, ReqEnds
  <2> QED
    BY <1>1, <1>4, <2>2 DEF IInv
<1> QED
  BY <1>3, <1>4

LEMMA BeginProbationKeeps ==
    ASSUME IInv, NEW q \in Request, NEW k \in Key, BeginProbation(q, k)
    PROVE  IInv'
<1> DEFINE n == nextToken + 1
           b == [NoProbation EXCEPT !.token = n, !.key = k]
           c == Clear(rule)
           t == [c EXCEPT !.phase = "probation", !.probation = b]
           r == [Idle EXCEPT !.st = "probe", !.token = n, !.key = k]
           p == [req EXCEPT ![q] = r]
<1>1. /\ Inv(nextToken, rule, req, mnt, conn) /\ nextToken < MaxToken /\ rule.retryIn = 0
      /\ rule' = t /\ req' = p /\ nextToken' = n /\ mnt' = mnt /\ conn' = conn
  BY DEF IInv, BeginProbation
<1>2. Inv(n, rule, req, mnt, conn) /\ n \in Nat
  BY <1>1, MoreTokens, Facts
<1>3. NoArming(req, mnt)
  BY <1>1, NobodyArms
<1> HIDE DEF n
<1>0. /\ NoProbation \in ProbationRec(n) /\ NoProbation.gen = None
      /\ Idle \in ReqRec(n) /\ Idle.gen = None /\ n \in 0..n
  <2>1. NoProbation \in ProbationRec(n) /\ Idle \in ReqRec(n) /\ n \in 0..n
    BY <1>2, NoProbationTyped, IdleTyped
  <2>2. NoProbation.gen = None /\ Idle.gen = None
    BY DEF NoProbation, Idle
  <2> QED
    BY <2>1, <2>2
<1>4. b \in ProbationRec(n) /\ b.token = n /\ b.gen = None
  BY <1>0 DEF ProbationRec
<1>5. r \in ReqRec(n) /\ r.st = "probe" /\ r.token = n /\ r.gen = None
  BY <1>0 DEF ReqRec
<1>6. c \in RuleRec(n) /\ Cleared(c)
  BY <1>2, Facts, ClearFacts
<1> HIDE DEF b, r, c
<1>7. /\ t \in RuleRec(n) /\ t.phase = "probation" /\ t.probation = b /\ t.evalInFlight = 0
      /\ t.commitToken = 0 /\ t.armInFlight = 0 /\ t.committed = {} /\ t.routeToken = 0
      /\ t.evalHoles = {}
  BY <1>4, <1>6 DEF RuleRec, Cleared
<1> HIDE DEF t
<1>8. p[q] = r /\ p \in [Request -> ReqRec(n)]
  BY <1>2, <1>5, Facts
<1>9. NoArming(p, mnt)
  BY <1>2, <1>3, <1>5, Facts, EndsQuietly DEF ArmStages
<1> HIDE DEF p
<1>10. Owns(t, p[q])
  BY <1>4, <1>5, <1>7, <1>8 DEF Owns
<1>11. Typed(n, t, p, mnt, conn)
  BY <1>2, <1>7, <1>8 DEF Inv, Typed
<1>12. Inv(n, t, p, mnt, conn)
  BY <1>2, <1>7, <1>9, <1>10, <1>11, Facts, ProbationKeeps
<1> QED
  BY <1>1, <1>12 DEF IInv

\* A probe whose probation was taken over ends alone.
LEMMA LostProbeEnds ==
    ASSUME IInv, NEW q \in Request, req[q].st \in {"probe", "tunnel"}, ~Probation(req[q].token)
    PROVE  Inv(nextToken, rule, [req EXCEPT ![q] = Idle], mnt, conn)
<1>1. ~In(req[q], rule.evalToken, EvalStages) /\ ~In(req[q], rule.commitToken, ArmStages)
      /\ ~Leases(rule, req[q])
  BY DEF In, EvalStages, ArmStages, Leases
<1>2. ~(rule.phase = "probation" /\ Owns(rule, req[q]))
  BY DEF Probation, Owns
<1> QED
  BY <1>1, <1>2, ReqEnds DEF IInv

LEMMA ProbeConnectsKeeps ==
    ASSUME IInv, NEW q \in Request, ProbeConnects(q)
    PROVE  IInv'
<1>1. /\ Inv(nextToken, rule, req, mnt, conn) /\ req[q].st = "probe"
      /\ nextToken' = nextToken /\ mnt' = mnt /\ conn' = conn
  BY DEF IInv, ProbeConnects
<1>2. PICK g \in Gen :
           IF Probation(req[q].token)
           THEN /\ rule' = [rule EXCEPT !.probation = [@ EXCEPT !.gen = g, !.elapsed = 0]]
                /\ req' = [req EXCEPT ![q].st = "tunnel", ![q].gen = g]
           ELSE UNCHANGED rule /\ req' = [req EXCEPT ![q] = Idle]
  BY DEF ProbeConnects
<1>3. CASE ~Probation(req[q].token)
  BY <1>1, <1>2, <1>3, LostProbeEnds DEF IInv
<1>4. CASE Probation(req[q].token)
  <2> DEFINE b == [rule.probation EXCEPT !.gen = g, !.elapsed = 0]
             t == [rule EXCEPT !.probation = b]
             r == [req[q] EXCEPT !.st = "tunnel", !.gen = g]
             p == [req EXCEPT ![q] = r]
  <2>1. rule.phase = "probation" /\ rule.probation.token = req[q].token
    BY <1>4 DEF Probation
  <2>2. rule' = t /\ req' = p
    <3>1. req \in [Request -> ReqRec(nextToken)]
      BY <1>1, Facts
    <3> QED
      BY <1>2, <1>4, <3>1
  <2>3. b \in ProbationRec(nextToken) /\ b.token = rule.probation.token /\ b.gen = g
    <3>1. rule.probation \in ProbationRec(nextToken) /\ 0 \in 0..MaxDuration
      BY <1>1, Facts, ConstantsTyped DEF RuleRec
    <3> QED
      BY <3>1 DEF ProbationRec
  <2>0. rule \in RuleRec(nextToken) /\ req \in [Request -> ReqRec(nextToken)]
    BY <1>1, Facts
  <2>4. r \in ReqRec(nextToken) /\ r.st = "tunnel" /\ r.token = req[q].token /\ r.gen = g
    <3>1. req[q] \in ReqRec(nextToken)
      BY <2>0
    <3> QED
      BY <3>1 DEF ReqRec
  <2>5. p \in [Request -> ReqRec(nextToken)] /\ p[q] = r
    BY <2>0, <2>4
  <2>6. NoArming(p, mnt)
    <3>1. NoArming(req, mnt)
      BY <1>1, <2>1, NobodyArms
    <3> QED
      BY <1>1, <2>4, <3>1, Facts, EndsQuietly DEF ArmStages
  <2> HIDE DEF b, r, p
  <2>7. /\ t \in RuleRec(nextToken) /\ t.phase = "probation" /\ t.probation = b
        /\ t.evalInFlight = rule.evalInFlight /\ t.commitToken = rule.commitToken
        /\ t.armInFlight = rule.armInFlight /\ t.committed = rule.committed
        /\ t.routeToken = rule.routeToken /\ t.evalHoles = rule.evalHoles
    BY <2>0, <2>1, <2>3 DEF RuleRec
  <2>8. /\ rule.evalInFlight = 0 /\ rule.commitToken = 0 /\ rule.armInFlight = 0
        /\ rule.committed = {} /\ rule.routeToken = 0
    BY <1>1, <2>1 DEF Inv, PhaseOK, OwnersOK
  <2> HIDE DEF t
  <2>9. Owns(t, p[q])
    BY <2>1, <2>3, <2>4, <2>5, <2>7 DEF Owns
  <2>10. Typed(nextToken, t, p, mnt, conn)
    BY <1>1, <2>5, <2>7 DEF Inv, Typed
  <2>11. Inv(nextToken, t, p, mnt, conn)
    BY <1>1, <2>6, <2>7, <2>8, <2>9, <2>10, Facts, ProbationKeeps
  <2> QED
    BY <1>1, <2>2, <2>11 DEF IInv
<1> QED
  BY <1>3, <1>4

LEMMA ProbeEndsKeeps ==
    ASSUME IInv, NEW q \in Request, ProbeFails(q) \/ CloseTunnel(q)
    PROVE  IInv'
<1>1. /\ req[q].st \in {"probe", "tunnel"} /\ req' = [req EXCEPT ![q] = Idle]
      /\ nextToken' = nextToken /\ mnt' = mnt /\ conn' = conn
      /\ rule' \in (IF Probation(req[q].token) THEN {Reenter(rule), Abort(rule)} ELSE {rule})
  BY DEF ProbeFails, CloseTunnel
<1>2. CASE ~Probation(req[q].token)
  BY <1>1, <1>2, LostProbeEnds DEF IInv
<1>3. CASE Probation(req[q].token)
  <2>1. rule.phase # "cooldown" /\ rule' \in {FailOpen(rule), Reenter(rule), Abort(rule)}
    BY <1>1, <1>3 DEF Probation
  <2>2. Inv(nextToken, rule', [req EXCEPT ![q] = Idle], mnt, conn)
    BY <2>1, ResetReq DEF IInv
  <2> QED
    BY <1>1, <2>2 DEF IInv
<1> QED
  BY <1>2, <1>3

LEMMA NoArmers ==
    ASSUME NEW rq, NEW mt, NoArming(rq, mt), NEW token, token # 0
    PROVE  /\ HoldersIn(rq, mt, token, ArmStages) = {}
           /\ Cardinality(HoldersIn(rq, mt, token, ArmStages)) = 0
<1>1. HoldersIn(rq, mt, token, ArmStages) = {}
  BY DEF HoldersIn, NoArming
<1> QED
  BY <1>1, FS_EmptySet

\* One report less, of a request or a probe that has left the cohort.
LEMMA CohortShrinks ==
    ASSUME NEW n, NEW s, NEW rq, NEW mt, NEW cn, Inv(n, s, rq, mt, cn), NEW p, NEW o,
           s.phase = "evaluating", p \in [Request -> ReqRec(n)], o \in [Gen -> MntRec(n)],
           NoArming(p, o), StaleOK(o, cn), NEW t \in RuleRec(n),
           t.phase = s.phase, t.evalToken = s.evalToken, t.commitToken = s.commitToken,
           t.armInFlight = s.armInFlight, t.committed = s.committed,
           t.routeToken = s.routeToken, t.evalHoles \in SUBSET s.evalHoles,
           t.evalInFlight = s.evalInFlight - 1,
           Cardinality(HoldersIn(p, o, s.evalToken, EvalStages))
             = Cardinality(HoldersIn(rq, mt, s.evalToken, EvalStages)) - 1
    PROVE  Inv(n, t, p, o, cn)
<1>1. s.evalInFlight = Cardinality(HoldersIn(rq, mt, s.evalToken, EvalStages))
  BY DEF Inv, CountersOK
<1>2. /\ s.evalToken # 0 /\ s.commitToken = 0 /\ s.armInFlight = 0 /\ s.committed = {}
      /\ s.routeToken = 0
  BY DEF Inv, PhaseOK, OwnersOK
<1>3. Typed(n, t, p, o, cn) /\ \A g \in t.evalHoles : cn[g] \in {"hole", "gone"}
  BY DEF Inv, Typed, HolesOK
<1> QED
  BY <1>1, <1>2, <1>3, EvaluationKeeps

LEMMA ObserveKeeps ==
    ASSUME IInv, NEW q \in Request, NEW reachable \in BOOLEAN, ObserveValidation(q, reachable)
    PROVE  IInv'
<1> DEFINE p == [req EXCEPT ![q] = Idle]
           valid == Validating(req[q].token)
<1>1. /\ Inv(nextToken, rule, req, mnt, conn) /\ req[q].st = "validate"
      /\ nextToken' = nextToken /\ mnt' = mnt /\ conn' = conn
  BY DEF IInv, ObserveValidation
<1>2. /\ rule \in RuleRec(nextToken) /\ req \in [Request -> ReqRec(nextToken)]
      /\ Idle \in ReqRec(nextToken) /\ nextToken \in Nat /\ mnt \in [Gen -> MntRec(nextToken)]
      /\ StaleOK(mnt, conn)
  BY <1>1, Facts, IdleTyped
<1>3. CASE ~valid
  <2>1. rule' = rule /\ req' = p
    BY <1>3 DEF ObserveValidation
  <2>2. ~(rule.phase = "evaluating" /\ In(req[q], rule.evalToken, EvalStages))
    BY <1>1, <1>3, Counted DEF Validating, In
  <2>3. /\ ~In(req[q], rule.commitToken, ArmStages) /\ ~Owns(rule, req[q])
        /\ ~Leases(rule, req[q])
    BY <1>1 DEF In, ArmStages, Owns, Leases
  <2>4. Inv(nextToken, rule, p, mnt, conn)
    BY <1>1, <2>2, <2>3, ReqEnds
  <2> QED
    BY <1>1, <2>1, <2>4 DEF IInv
<1>4. CASE valid /\ Expired(rule)
  <2>1. rule' = FailOpen(rule) /\ req' = p
    BY <1>4 DEF ObserveValidation
  <2>2. rule.phase # "cooldown"
    BY <1>4 DEF Expired
  <2>3. Inv(nextToken, FailOpen(rule), p, mnt, conn)
    BY <1>1, <2>2, ResetReq
  <2> QED
    BY <1>1, <2>1, <2>3 DEF IInv
<1>5. CASE valid /\ ~Expired(rule)
  <2>1. /\ rule.phase = "evaluating" /\ req[q].token = rule.evalToken
        /\ rule.evalInFlight > 0 /\ rule.evalToken # 0
    BY <1>1, <1>5 DEF Validating, Inv, PhaseOK
  <2>2. NoArming(req, mnt)
    BY <1>1, <2>1, NobodyArms
  <2>3. CASE reachable
    <3> DEFINE t == CommitCooldown(rule)
               r == [req[q] EXCEPT !.st = "take"]
               c == [req EXCEPT ![q] = r]
    <3>1. rule' = t /\ req' = c
      BY <1>2, <1>5, <2>3 DEF ObserveValidation
    <3>2. /\ t \in RuleRec(nextToken) /\ t.phase = "cooldown" /\ t.retryIn > 0
          /\ t.committed = rule.evalHoles /\ t.evalHoles = {} /\ t.evalInFlight = 0
          /\ t.routeToken = 0
          /\ rule.evalHoles = {} => t.commitToken = 0 /\ t.armInFlight = 0
          /\ rule.evalHoles # {} => t.commitToken = rule.evalToken /\ t.armInFlight = 1
      BY <1>2, <2>1, CommitFacts
    <3>3. r \in ReqRec(nextToken) /\ r.st = "take" /\ r.token = rule.evalToken
      <4>1. req[q] \in ReqRec(nextToken)
        BY <1>2
      <4> QED
        BY <2>1, <4>1 DEF ReqRec
    <3>4. /\ c \in [Request -> ReqRec(nextToken)] /\ c[q] = r
          /\ \A x \in Request \ {q} : c[x] = req[x]
      BY <1>2, <3>3
    <3>5. t.commitToken # 0 =>
            t.armInFlight = Cardinality(HoldersIn(c, mnt, t.commitToken, ArmStages))
      <4> SUFFICES ASSUME t.commitToken # 0
                   PROVE  Cardinality(HoldersIn(c, mnt, t.commitToken, ArmStages)) = 1
        BY <3>2
      <4>1. In(r, t.commitToken, ArmStages) /\ ~In(req[q], t.commitToken, ArmStages)
        BY <1>1, <3>2, <3>3 DEF In, ArmStages
      <4>2. OneMoves(HoldersIn(req, mnt, t.commitToken, ArmStages),
                     HoldersIn(c, mnt, t.commitToken, ArmStages),
                     In(req[q], t.commitToken, ArmStages), In(r, t.commitToken, ArmStages))
        BY <1>2, ReqCounts
      <4>3. Cardinality(HoldersIn(req, mnt, t.commitToken, ArmStages)) = 0
        BY <2>2, NoArmers
      <4> QED
        BY <4>1, <4>2, <4>3 DEF OneMoves
    <3> HIDE DEF t, r, c
    <3>6. ArmingOK(t, c, mnt)
      <4>1. \A x \in Request : ReqArmingOK(t, c[x])
        BY <2>2, <3>2, <3>3, <3>4 DEF ReqArmingOK, NoArming, ArmStages
      <4>2. \A g \in Gen : MntArmingOK(t, mnt[g])
        BY <2>2 DEF MntArmingOK, NoArming
      <4>3. OneTakes(c, mnt)
        BY <2>2, <3>4 DEF OneTakes, NoArming, ArmStages
      <4> QED
        BY <4>1, <4>2, <4>3 DEF ArmingOK
    <3>7. PhaseOK(t) /\ OwnersOK(t, c) /\ HolesOK(t, mnt, conn)
      BY <1>2, <2>1, <3>2 DEF PhaseOK, OwnersOK, HolesOK
    <3>8. Typed(nextToken, t, c, mnt, conn)
      BY <1>1, <3>2, <3>4 DEF Inv, Typed
    <3>9. Inv(nextToken, t, c, mnt, conn)
      BY <3>2, <3>5, <3>6, <3>7, <3>8, CooldownKeeps
    <3> QED
      BY <1>1, <3>1, <3>9 DEF IInv
  <2>4. CASE ~reachable
    <3> DEFINE t == [rule EXCEPT !.evalInFlight = rule.evalInFlight - 1]
    <3>1. rule' = t /\ req' = p
      BY <1>5, <2>4 DEF ObserveValidation
    <3>2. rule.evalInFlight - 1 \in Nat
      BY <1>2, <2>1 DEF RuleRec
    <3>3. /\ t \in RuleRec(nextToken) /\ t.phase = rule.phase /\ t.evalToken = rule.evalToken
          /\ t.commitToken = rule.commitToken /\ t.armInFlight = rule.armInFlight
          /\ t.committed = rule.committed /\ t.routeToken = rule.routeToken
          /\ t.evalHoles = rule.evalHoles /\ t.evalInFlight = rule.evalInFlight - 1
      BY <1>2, <3>2 DEF RuleRec
    <3>4. Idle.st = "idle"
      BY DEF Idle
    <3>5. NoArming(p, mnt) /\ p \in [Request -> ReqRec(nextToken)]
      BY <1>2, <2>2, <3>4, EndsQuietly DEF ArmStages
    <3>6. In(req[q], rule.evalToken, EvalStages) /\ ~In(Idle, rule.evalToken, EvalStages)
      BY <1>1, <2>1, <3>4 DEF In, EvalStages
    <3>7. OneMoves(HoldersIn(req, mnt, rule.evalToken, EvalStages),
                   HoldersIn(p, mnt, rule.evalToken, EvalStages),
                   In(req[q], rule.evalToken, EvalStages), In(Idle, rule.evalToken, EvalStages))
      BY <1>2, ReqCounts
    <3>8. Cardinality(HoldersIn(p, mnt, rule.evalToken, EvalStages))
            = Cardinality(HoldersIn(req, mnt, rule.evalToken, EvalStages)) - 1
      BY <3>6, <3>7 DEF OneMoves
    <3> HIDE DEF t, p
    <3>9. Inv(nextToken, t, p, mnt, conn)
      BY <1>1, <1>2, <2>1, <3>3, <3>5, <3>8, CohortShrinks
    <3> QED
      BY <1>1, <3>1, <3>9 DEF IInv
  <2> QED
    BY <2>3, <2>4
<1> QED
  BY <1>3, <1>4, <1>5

\* takeCommittedUDPBlackholes by anyone, once the request that was to take them
\* has moved on.
LEMMA TakenKeeps ==
    ASSUME NEW n, NEW s, NEW rq, NEW mt, NEW cn, Inv(n, s, rq, mt, cn),
           \A q \in Request : rq[q].st # "take"
    PROVE  Inv(n, [s EXCEPT !.committed = {}], rq, mt, cn)
<1> DEFINE t == [s EXCEPT !.committed = {}]
<1>1. s \in RuleRec(n) /\ \A g \in s.evalHoles : cn[g] \in {"hole", "gone"}
  BY Facts
<1>2. /\ t \in RuleRec(n) /\ SameControl(s, t) /\ t.committed = {} /\ t.evalHoles = s.evalHoles
      /\ t.routeToken = s.routeToken /\ t.retryIn = s.retryIn
  BY <1>1 DEF RuleRec, SameControl
<1> HIDE DEF t
<1>3. Inv(n, t, rq, mt, cn)
  BY <1>1, <1>2, RuleMoves
<1> QED
  BY <1>3 DEF t

LEMMA TakeKeeps ==
    ASSUME IInv, NEW q \in Request, TakeCommitted(q)
    PROVE  IInv'
<1> DEFINE f == [req[q] EXCEPT !.st = "finish", !.armed = Armable(rule.committed)]
           p == [req EXCEPT ![q] = IF rule.committed = {} THEN Idle ELSE f]
<1>1. /\ Inv(nextToken, rule, req, mnt, conn) /\ req[q].st = "take"
      /\ nextToken' = nextToken /\ mnt' = mnt /\ conn' = conn
      /\ rule' = [rule EXCEPT !.committed = {}] /\ req' = p
  BY Facts DEF IInv, TakeCommitted
<1>2. /\ rule \in RuleRec(nextToken) /\ req \in [Request -> ReqRec(nextToken)]
      /\ nextToken \in Nat /\ Idle \in ReqRec(nextToken) /\ Idle.st = "idle"
  BY <1>1, Facts, IdleTyped DEF Idle
<1>3. /\ rule.phase = "cooldown" /\ rule.retryIn > 0
      /\ rule.commitToken # 0 => req[q].token = rule.commitToken /\ rule.committed # {}
      /\ rule.commitToken = 0 => rule.committed = {}
      /\ \A x \in Request : req[x].st = "take" => x = q
  BY <1>1 DEF Inv, ArmingOK, ReqArmingOK, OneTakes, PhaseOK
<1>4. Inv(nextToken, rule, p, mnt, conn) /\ \A x \in Request : p[x].st # "take"
  <2>1. CASE rule.committed = {}
    <3>1. /\ ~Owns(rule, req[q]) /\ ~Leases(rule, req[q]) /\ rule.commitToken = 0
          /\ p = [req EXCEPT ![q] = Idle]
      BY <1>1, <1>3, <2>1 DEF Owns, Leases
    <3>2. Inv(nextToken, rule, p, mnt, conn)
      BY <1>1, <1>3, <3>1, ReqEnds
    <3> QED
      BY <1>2, <1>3, <3>1, <3>2
  <2>2. CASE rule.committed # {}
    <3>1. p = [req EXCEPT ![q] = f]
      BY <2>2
    <3>2. f \in ReqRec(nextToken) /\ f.st = "finish" /\ f.token = req[q].token
      <4>1. req[q] \in ReqRec(nextToken) /\ Armable(rule.committed) \in BOOLEAN
        BY <1>2 DEF Armable
      <4> QED
        BY <4>1 DEF ReqRec
    <3> HIDE DEF f
    <3>3. /\ ReqArmingOK(rule, f) /\ ~Leases(rule, req[q])
          /\ In(req[q], rule.commitToken, ArmStages) /\ In(f, rule.commitToken, ArmStages)
      BY <1>1, <1>3, <2>2, <3>2 DEF ReqArmingOK, ArmsFor, Leases, In, ArmStages
    <3>4. Inv(nextToken, rule, [req EXCEPT ![q] = f], mnt, conn)
      BY <1>1, <1>3, <3>2, <3>3, ReqMoves
    <3>5. \A x \in Request : p[x].st # "take"
      BY <1>2, <1>3, <3>1, <3>2
    <3> QED
      BY <3>1, <3>4, <3>5
  <2> QED
    BY <2>1, <2>2
<1> HIDE DEF p
<1>5. Inv(nextToken, [rule EXCEPT !.committed = {}], p, mnt, conn)
  BY <1>4, TakenKeeps
<1> QED
  BY <1>1, <1>5 DEF IInv

\* finishUDPBlackholeArming by one that leaves the cohort of the commit that stands.
LEMMA ArmLeaves ==
    ASSUME NEW n, NEW s, NEW rq, NEW mt, NEW cn, Inv(n, s, rq, mt, cn), NEW token,
           ArmsFor(s, token), NEW armed \in BOOLEAN,
           NEW p \in [Request -> ReqRec(n)], NEW o \in [Gen -> MntRec(n)],
           Cardinality(HoldersIn(p, o, s.commitToken, ArmStages))
             = Cardinality(HoldersIn(rq, mt, s.commitToken, ArmStages)) - 1,
           ArmingOK(s, p, o), OwnersOK(s, p), StaleOK(o, cn)
    PROVE  Inv(n, FinishArming(s, token, armed), p, o, cn)
<1> DEFINE a == IF s.armInFlight > 0 THEN s.armInFlight - 1 ELSE 0
           b == s.armed \/ armed
           t == [s EXCEPT !.armInFlight = a, !.armed = b]
           H == HoldersIn(p, o, s.commitToken, ArmStages)
<1>1. s.phase = "cooldown" /\ s.retryIn > 0 /\ s.commitToken # 0 /\ token = s.commitToken
  BY DEF ArmsFor
<1>2. s \in RuleRec(n) /\ n \in Nat /\ PhaseOK(s) /\ cn \in ConnMap
      /\ \A g \in s.evalHoles : cn[g] \in {"hole", "gone"}
  BY Facts
<1>3. s.armInFlight = Cardinality(HoldersIn(rq, mt, s.commitToken, ArmStages))
  BY <1>1 DEF Inv, CountersOK
<1>4. IsFiniteSet(H) /\ Cardinality(H) \in Nat
  BY HoldersFinite
<1>5. a \in Nat /\ a = Cardinality(H)
  BY <1>2, <1>3, <1>4 DEF RuleRec
<1>6. FinishArming(s, token, armed) = IF t.armInFlight = 0 /\ ~t.armed THEN FailOpen(t) ELSE t
  BY <1>1 DEF FinishArming
<1>7. b \in BOOLEAN
  BY <1>2 DEF RuleRec
<1> HIDE DEF a, b, H
<1>8. /\ t \in RuleRec(n) /\ t.phase = s.phase /\ t.retryIn = s.retryIn
      /\ t.commitToken = s.commitToken /\ t.committed = s.committed
      /\ t.armInFlight = a /\ t.routeToken = s.routeToken /\ t.evalHoles = s.evalHoles
      /\ t.evalInFlight = s.evalInFlight
  BY <1>2, <1>5, <1>7 DEF RuleRec
<1> HIDE DEF t
<1>9. Inv(n, t, p, o, cn)
  <2>1. ArmingOK(t, p, o)
    BY <1>8 DEF ArmingOK, ReqArmingOK, MntArmingOK, ArmsFor
  <2>2. PhaseOK(t) /\ OwnersOK(t, p) /\ HolesOK(t, o, cn)
    BY <1>1, <1>2, <1>8 DEF PhaseOK, OwnersOK, Leases, HolesOK
  <2>3. Typed(n, t, p, o, cn)
    BY <1>8 DEF Inv, Typed
  <2> QED
    BY <1>1, <1>5, <1>8, <2>1, <2>2, <2>3, CooldownKeeps DEF H
<1>10. CASE t.armInFlight = 0
  <2>1. H = {}
    BY <1>4, <1>5, <1>8, <1>10, FS_EmptySet
  <2>2. NoArming(p, o)
    <3>1. ASSUME NEW q \in Request, p[q].st \in ArmStages PROVE FALSE
      <4>1. p[q].st \in {"take", "finish"} /\ ReqArmingOK(s, p[q])
        BY <3>1 DEF ReqRec, ArmStages, ArmingOK
      <4>2. p[q].token = s.commitToken
        BY <1>1, <4>1 DEF ReqArmingOK, ArmsFor
      <4> QED
        BY <2>1, <3>1, <4>2 DEF H, HoldersIn
    <3>2. ASSUME NEW g \in Gen, o[g].st \in ArmStages
          PROVE  o[g].st = "finish" /\ o[g].token = 0
      <4>1. MntArmingOK(s, o[g])
        BY DEF ArmingOK
      <4>2. o[g].token # s.commitToken
        BY <2>1, <3>2 DEF H, HoldersIn
      <4> QED
        BY <3>2, <4>1, <4>2 DEF MntArmingOK, ArmsFor
    <3> QED
      BY <3>1, <3>2 DEF NoArming
  <2>3. /\ FailOpen(t) \in RuleRec(n) /\ Cleared(FailOpen(t)) /\ FailOpen(t).phase = "closed"
    BY <1>2, <1>8, FailOpenFacts
  <2>4. Typed(n, FailOpen(t), p, o, cn)
    BY <2>3 DEF Inv, Typed
  <2>5. Inv(n, FailOpen(t), p, o, cn)
    BY <2>2, <2>3, <2>4, ResetKeeps
  <2> QED
    BY <1>6, <1>9, <2>5
<1> QED
  BY <1>6, <1>9, <1>10

LEMMA FinishRequestKeeps ==
    ASSUME IInv, NEW q \in Request, FinishRequest(q)
    PROVE  IInv'
<1> DEFINE p == [req EXCEPT ![q] = Idle]
           token == req[q].token
<1>1. /\ Inv(nextToken, rule, req, mnt, conn) /\ req[q].st = "finish"
      /\ nextToken' = nextToken /\ mnt' = mnt /\ conn' = conn
      /\ rule' = FinishArming(rule, token, req[q].armed) /\ req' = p
  BY DEF IInv, FinishRequest
<1>2. /\ req \in [Request -> ReqRec(nextToken)] /\ mnt \in [Gen -> MntRec(nextToken)]
      /\ Idle \in ReqRec(nextToken) /\ StaleOK(mnt, conn)
  BY <1>1, Facts, IdleTyped
<1>3. ArmsFor(rule, token)
  BY <1>1 DEF Inv, ArmingOK, ReqArmingOK
<1>4. req[q].armed \in BOOLEAN
  BY <1>2 DEF ReqRec
<1>5. Idle.st = "idle"
  BY DEF Idle
<1>6. Cardinality(HoldersIn(p, mnt, rule.commitToken, ArmStages))
        = Cardinality(HoldersIn(req, mnt, rule.commitToken, ArmStages)) - 1
  <2>1. In(req[q], rule.commitToken, ArmStages) /\ ~In(Idle, rule.commitToken, ArmStages)
    BY <1>1, <1>3, <1>5 DEF In, ArmStages, ArmsFor
  <2>2. OneMoves(HoldersIn(req, mnt, rule.commitToken, ArmStages),
                 HoldersIn(p, mnt, rule.commitToken, ArmStages),
                 In(req[q], rule.commitToken, ArmStages), In(Idle, rule.commitToken, ArmStages))
    BY <1>2, ReqCounts
  <2> QED
    BY <2>1, <2>2 DEF OneMoves
<1>7. /\ p \in [Request -> ReqRec(nextToken)] /\ p[q] = Idle
      /\ \A x \in Request \ {q} : p[x] = req[x]
  BY <1>2
<1> HIDE DEF p
<1>8. ArmingOK(rule, p, mnt)
  <2>1. ReqArmingOK(rule, Idle)
    BY <1>5 DEF ReqArmingOK
  <2> QED
    BY <1>1, <1>5, <1>7, <2>1 DEF Inv, ArmingOK, OneTakes
<1>9. OwnersOK(rule, p)
  <2>1. \A x \in Request : Leases(rule, req[x]) => Leases(rule, p[x])
    BY <1>1, <1>7 DEF Leases
  <2> QED
    BY <1>1, <1>3, <2>1 DEF Inv, OwnersOK, ArmsFor
<1>10. Inv(nextToken, FinishArming(rule, token, req[q].armed), p, mnt, conn)
  BY <1>1, <1>2, <1>3, <1>4, <1>6, <1>7, <1>8, <1>9, ArmLeaves
<1> QED
  BY <1>1, <1>10 DEF IInv

LEMMA ExpireActionKeeps ==
    ASSUME IInv, ExpireEvaluation
    PROVE  IInv'
<1>1. Expire(rule) = FailOpen(rule)
  BY DEF ExpireEvaluation, Expire
<1>2. Inv(nextToken, FailOpen(rule), req, mnt, conn)
  BY <1>1, ExpireKeeps DEF IInv
<1> QED
  BY <1>2 DEF IInv, ExpireEvaluation

-----------------------------------------------------------------------------
(* The actions of maintenance probes. *)

LEMMA CheckKeeps ==
    ASSUME IInv, NEW g \in Gen, NEW from \in {"check1", "check2"},
           NEW retain \in {"retain1", "retain2"}, NEW next \in {"dial", "complete"},
           CheckScopes(g, from, retain, next)
    PROVE  IInv'
<1> DEFINE scopes == IF Evaluating(mnt[g].token) THEN rule.evalHoles ELSE {}
           stale == {h \in scopes : conn[h] # "hole"}
           a == [mnt[g] EXCEPT !.st = next]
           b == [mnt[g] EXCEPT !.st = retain, !.stale = stale]
<1>1. /\ Inv(nextToken, rule, req, mnt, conn) /\ mnt[g].st = from
      /\ nextToken' = nextToken /\ req' = req /\ conn' = conn /\ rule' = rule
      /\ mnt' = [mnt EXCEPT ![g] = a] \/ mnt' = [mnt EXCEPT ![g] = b]
  BY DEF IInv, CheckScopes
<1>2. /\ rule \in RuleRec(nextToken) /\ mnt \in [Gen -> MntRec(nextToken)]
      /\ StaleOK(mnt, conn) /\ \A h \in rule.evalHoles : conn[h] \in {"hole", "gone"}
  BY <1>1, Facts
<1>3. mnt[g] \in MntRec(nextToken) /\ rule.evalHoles \in SUBSET Gen
  BY <1>2 DEF RuleRec
<1>4. stale \in SUBSET Gen /\ \A h \in stale : conn[h] = "gone"
  BY <1>2, <1>3
<1> HIDE DEF stale
<1>5. /\ a \in MntRec(nextToken) /\ a.st = next /\ a.token = mnt[g].token
      /\ a.stale = mnt[g].stale
  BY <1>3 DEF MntRec
<1>6. /\ b \in MntRec(nextToken) /\ b.st = retain /\ b.token = mnt[g].token /\ b.stale = stale
  BY <1>3, <1>4 DEF MntRec
<1> HIDE DEF a, b
<1>7. ASSUME NEW m \in {a, b} PROVE Inv(nextToken, rule, req, [mnt EXCEPT ![g] = m], conn)
  <2>1. m \in MntRec(nextToken) /\ m.token = mnt[g].token /\ \A h \in m.stale : conn[h] = "gone"
    BY <1>2, <1>4, <1>5, <1>6 DEF StaleOK
  <2>2. m.st \in {"dial", "complete", "retain1", "retain2"}
    BY <1>5, <1>6
  <2>3. /\ In(mnt[g], rule.evalToken, EvalStages) <=> In(m, rule.evalToken, EvalStages)
        /\ ~In(mnt[g], rule.commitToken, ArmStages) /\ ~In(m, rule.commitToken, ArmStages)
        /\ MntArmingOK(rule, m) /\ m.st # "take"
    BY <1>1, <2>1, <2>2 DEF In, EvalStages, ArmStages, MntArmingOK
  <2> QED
    BY <1>1, <2>1, <2>3, MntMoves
<1>8. Inv(nextToken, rule, req, mnt', conn)
  BY <1>1, <1>7
<1> QED
  BY <1>1, <1>8 DEF IInv

\* The rule forgets some of the black holes under evaluation.
LEMMA HolesForgotten ==
    ASSUME NEW n, NEW s, NEW rq, NEW mt, NEW cn, Inv(n, s, rq, mt, cn),
           NEW holes \in SUBSET s.evalHoles
    PROVE  LET t == [s EXCEPT !.evalHoles = holes] IN
           /\ Inv(n, t, rq, mt, cn) /\ SameControl(s, t)
<1> DEFINE t == [s EXCEPT !.evalHoles = holes]
<1>1. s \in RuleRec(n) /\ \A g \in s.evalHoles : cn[g] \in {"hole", "gone"}
  BY Facts
<1>2. holes \in SUBSET Gen
  BY <1>1 DEF RuleRec
<1>3. /\ t \in RuleRec(n) /\ SameControl(s, t) /\ t.committed = s.committed
      /\ t.evalHoles = holes /\ t.routeToken = s.routeToken /\ t.retryIn = s.retryIn
  BY <1>1, <1>2 DEF RuleRec, SameControl
<1> HIDE DEF t
<1>4. Inv(n, t, rq, mt, cn)
  BY <1>1, <1>3, RuleMoves
<1> QED
  BY <1>3, <1>4 DEF t

\* A probe of the cohort ends: one report less.
LEMMA ReportsOnce ==
    ASSUME NEW n, NEW s, NEW rq, NEW mt, NEW cn, Inv(n, s, rq, mt, cn), NEW g \in Gen,
           s.phase = "evaluating", In(mt[g], s.evalToken, EvalStages)
    PROVE  /\ s.evalInFlight > 0
           /\ Inv(n, [s EXCEPT !.evalInFlight = s.evalInFlight - 1], rq,
                  [mt EXCEPT ![g] = NoWork], cn)
<1> DEFINE t == [s EXCEPT !.evalInFlight = s.evalInFlight - 1]
           o == [mt EXCEPT ![g] = NoWork]
<1>1. s.evalInFlight > 0
  BY Counted
<1>2. /\ s \in RuleRec(n) /\ rq \in [Request -> ReqRec(n)] /\ mt \in [Gen -> MntRec(n)]
      /\ n \in Nat /\ NoWork \in MntRec(n) /\ StaleOK(mt, cn)
  BY Facts, IdleTyped
<1>3. s.evalInFlight - 1 \in Nat
  BY <1>1, <1>2 DEF RuleRec
<1>4. /\ t \in RuleRec(n) /\ t.phase = s.phase /\ t.evalToken = s.evalToken
      /\ t.commitToken = s.commitToken /\ t.armInFlight = s.armInFlight
      /\ t.committed = s.committed /\ t.routeToken = s.routeToken
      /\ t.evalHoles = s.evalHoles /\ t.evalInFlight = s.evalInFlight - 1
  BY <1>2, <1>3 DEF RuleRec
<1>5. NoArming(rq, mt)
  BY NobodyArms
<1>6. NoArming(rq, o) /\ StaleOK(o, cn) /\ o \in [Gen -> MntRec(n)]
  BY <1>2, <1>5, EndsQuietly
<1>7. ~In(NoWork, s.evalToken, EvalStages)
  BY DEF In, NoWork, EvalStages
<1>8. OneMoves(HoldersIn(rq, mt, s.evalToken, EvalStages),
               HoldersIn(rq, o, s.evalToken, EvalStages),
               In(mt[g], s.evalToken, EvalStages), In(NoWork, s.evalToken, EvalStages))
  BY <1>2, MntCounts
<1>9. Cardinality(HoldersIn(rq, o, s.evalToken, EvalStages))
        = Cardinality(HoldersIn(rq, mt, s.evalToken, EvalStages)) - 1
  BY <1>7, <1>8 DEF OneMoves
<1> HIDE DEF t, o
<1>10. Inv(n, t, rq, o, cn)
  BY <1>2, <1>4, <1>6, <1>9, CohortShrinks
<1> QED
  BY <1>1, <1>10 DEF t, o

LEMMA LeaveKeeps ==
    ASSUME NEW n, NEW s, NEW rq, NEW mt, NEW cn, Inv(n, s, rq, mt, cn), NEW g \in Gen,
           s.phase = "evaluating", In(mt[g], s.evalToken, EvalStages)
    PROVE  Inv(n, Leave(s), rq, [mt EXCEPT ![g] = NoWork], cn)
<1>1. CASE s.owned
  <2>1. Inv(n, FailOpen(s), rq, [mt EXCEPT ![g] = NoWork], cn)
    BY ResetMnt
  <2> QED
    BY <1>1, <2>1 DEF Leave
<1>2. CASE ~s.owned
  <2>1. Leave(s) = [s EXCEPT !.evalInFlight = s.evalInFlight - 1]
    BY <1>2, ReportsOnce DEF Leave
  <2> QED
    BY <2>1, ReportsOnce
<1> QED
  BY <1>1, <1>2

\* A probe ends whose evaluation is over.
LEMMA LateProbeEnds ==
    ASSUME IInv, NEW g \in Gen, mnt[g].st \in EvalStages, ~Evaluating(mnt[g].token)
    PROVE  Inv(nextToken, rule, req, [mnt EXCEPT ![g] = NoWork], conn)
<1>1. ~(rule.phase = "evaluating" /\ In(mnt[g], rule.evalToken, EvalStages))
  BY DEF Evaluating, In
<1>2. ~In(mnt[g], rule.commitToken, ArmStages)
  BY DEF In, EvalStages, ArmStages
<1> QED
  BY <1>1, <1>2, MntEnds DEF IInv

\* A probe goes on with the stage st.
LEMMA StageMoves ==
    ASSUME NEW n, NEW s, NEW rq, NEW mt, NEW cn, Inv(n, s, rq, mt, cn), NEW g \in Gen,
           mt[g].st \in EvalStages, NEW st \in {"dial", "check2", "complete"},
           NEW m, m = [mt[g] EXCEPT !.st = st]
                  \/ m = [mt[g] EXCEPT !.st = st, !.stale = {}]
    PROVE  Inv(n, s, rq, [mt EXCEPT ![g] = m], cn)
<1>1. mt[g] \in MntRec(n) /\ StaleOK(mt, cn)
  BY Facts
<1>2. /\ m \in MntRec(n) /\ m.st = st /\ m.token = mt[g].token
      /\ m.stale \in {{}, mt[g].stale}
  BY <1>1 DEF MntRec
<1>3. \A h \in m.stale : cn[h] = "gone"
  BY <1>1, <1>2 DEF StaleOK
<1>4. /\ In(mt[g], s.evalToken, EvalStages) <=> In(m, s.evalToken, EvalStages)
      /\ ~In(mt[g], s.commitToken, ArmStages) /\ ~In(m, s.commitToken, ArmStages)
      /\ MntArmingOK(s, m) /\ m.st # "take"
  BY <1>2 DEF In, EvalStages, ArmStages, MntArmingOK
<1> QED
  BY <1>2, <1>3, <1>4, MntMoves

LEMMA RetainKeeps ==
    ASSUME IInv, NEW g \in Gen, NEW from \in {"retain1", "retain2"},
           NEW next \in {"dial", "complete"}, RetainScopes(g, from, next)
    PROVE  IInv'
<1> DEFINE kept == rule.evalHoles \ mnt[g].stale
           t == [rule EXCEPT !.evalHoles = kept]
           m == [mnt[g] EXCEPT !.st = next, !.stale = {}]
<1>1. /\ Inv(nextToken, rule, req, mnt, conn) /\ mnt[g].st = from
      /\ nextToken' = nextToken /\ req' = req /\ conn' = conn
  BY DEF IInv, RetainScopes
<1>2. mnt[g].st \in EvalStages /\ mnt \in [Gen -> MntRec(nextToken)]
  BY <1>1, Facts DEF EvalStages
<1>3. CASE ~Evaluating(mnt[g].token)
  <2>1. mnt' = [mnt EXCEPT ![g] = NoWork] /\ rule' = rule
    BY <1>3 DEF RetainScopes
  <2> QED
    BY <1>1, <1>2, <1>3, <2>1, LateProbeEnds DEF IInv
<1>4. CASE Evaluating(mnt[g].token)
  <2>1. rule.phase = "evaluating" /\ In(mnt[g], rule.evalToken, EvalStages)
    BY <1>2, <1>4 DEF Evaluating, In
  <2>2. kept \in SUBSET rule.evalHoles
    OBVIOUS
  <2>3. Inv(nextToken, t, req, mnt, conn) /\ SameControl(rule, t)
    BY <1>1, <2>2, HolesForgotten
  <2>4. CASE kept # {}
    <3>1. rule' = t /\ mnt' = [mnt EXCEPT ![g] = m]
      BY <1>2, <1>4, <2>4 DEF RetainScopes
    <3> HIDE DEF t
    <3>2. Inv(nextToken, t, req, [mnt EXCEPT ![g] = m], conn)
      BY <1>2, <2>3, StageMoves
    <3> QED
      BY <1>1, <3>1, <3>2 DEF IInv
  <2>5. CASE kept = {}
    <3>1. rule' = Leave(t) /\ mnt' = [mnt EXCEPT ![g] = NoWork]
      BY <1>4, <2>5 DEF RetainScopes
    <3> HIDE DEF t
    <3>2. Inv(nextToken, Leave(t), req, [mnt EXCEPT ![g] = NoWork], conn)
      BY <2>1, <2>3, LeaveKeeps DEF SameControl
    <3> QED
      BY <1>1, <3>1, <3>2 DEF IInv
  <2> QED
    BY <2>4, <2>5
<1> QED
  BY <1>3, <1>4

LEMMA ProbeDialKeeps ==
    ASSUME IInv, NEW g \in Gen, ProbeDial(g)
    PROVE  IInv'
<1> DEFINE m == [mnt[g] EXCEPT !.st = "check2"]
<1>1. /\ Inv(nextToken, rule, req, mnt, conn) /\ mnt[g].st = "dial"
      /\ nextToken' = nextToken /\ req' = req /\ conn' = conn
  BY DEF IInv, ProbeDial
<1>2. mnt[g].st \in EvalStages /\ mnt \in [Gen -> MntRec(nextToken)]
  BY <1>1, Facts DEF EvalStages
<1>3. CASE mnt' = [mnt EXCEPT ![g].st = "check2"] /\ rule' = rule
  <2>1. mnt' = [mnt EXCEPT ![g] = m]
    BY <1>2, <1>3
  <2>2. Inv(nextToken, rule, req, [mnt EXCEPT ![g] = m], conn)
    BY <1>1, <1>2, StageMoves
  <2> QED
    BY <1>1, <1>3, <2>1, <2>2 DEF IInv
<1>4. CASE /\ mnt' = [mnt EXCEPT ![g] = NoWork]
           /\ rule' = IF Evaluating(mnt[g].token) THEN Leave(rule) ELSE rule
  <2>1. CASE Evaluating(mnt[g].token)
    <3>1. rule.phase = "evaluating" /\ In(mnt[g], rule.evalToken, EvalStages)
      BY <1>2, <2>1 DEF Evaluating, In
    <3>2. Inv(nextToken, Leave(rule), req, [mnt EXCEPT ![g] = NoWork], conn)
      BY <1>1, <3>1, LeaveKeeps
    <3> QED
      BY <1>1, <1>4, <2>1, <3>2 DEF IInv
  <2>2. CASE ~Evaluating(mnt[g].token)
    BY <1>1, <1>2, <1>4, <2>2, LateProbeEnds DEF IInv
  <2> QED
    BY <2>1, <2>2
<1> QED
  BY <1>3, <1>4 DEF ProbeDial

LEMMA CompleteKeeps ==
    ASSUME IInv, NEW g \in Gen, NEW reachable \in BOOLEAN, CompleteValidation(g, reachable)
    PROVE  IInv'
<1> DEFINE valid == Validating(mnt[g].token)
           o == [mnt EXCEPT ![g] = NoWork]
<1>1. /\ Inv(nextToken, rule, req, mnt, conn) /\ mnt[g].st = "complete"
      /\ nextToken' = nextToken /\ req' = req /\ conn' = conn
  BY DEF IInv, CompleteValidation
<1>2. /\ rule \in RuleRec(nextToken) /\ req \in [Request -> ReqRec(nextToken)]
      /\ nextToken \in Nat /\ mnt \in [Gen -> MntRec(nextToken)]
      /\ StaleOK(mnt, conn)
  BY <1>1, Facts
<1>3. mnt[g].st \in EvalStages
  BY <1>1 DEF EvalStages
<1>4. CASE ~valid
  <2>1. rule' = rule /\ mnt' = o
    BY <1>4 DEF CompleteValidation
  <2>2. ~(rule.phase = "evaluating" /\ In(mnt[g], rule.evalToken, EvalStages))
    BY <1>1, <1>4, Counted DEF Validating, In
  <2>3. ~In(mnt[g], rule.commitToken, ArmStages)
    BY <1>1 DEF In, ArmStages
  <2>4. Inv(nextToken, rule, req, o, conn)
    BY <1>1, <2>2, <2>3, MntEnds
  <2> QED
    BY <1>1, <2>1, <2>4 DEF IInv
<1>5. CASE valid /\ (Expired(rule) \/ (~reachable /\ ~(rule.evalInFlight > 1)))
  <2>1. rule' = FailOpen(rule) /\ mnt' = o
    BY <1>5 DEF CompleteValidation
  <2>2. rule.phase # "cooldown"
    BY <1>5 DEF Validating
  <2>3. Inv(nextToken, FailOpen(rule), req, o, conn)
    BY <1>1, <2>2, ResetMnt
  <2> QED
    BY <1>1, <2>1, <2>3 DEF IInv
<1>6. CASE valid /\ ~Expired(rule) /\ ~reachable /\ rule.evalInFlight > 1
  <2>1. rule' = [rule EXCEPT !.evalInFlight = rule.evalInFlight - 1] /\ mnt' = o
    BY <1>6 DEF CompleteValidation
  <2>2. rule.phase = "evaluating" /\ In(mnt[g], rule.evalToken, EvalStages)
    BY <1>3, <1>6 DEF Validating, In
  <2>3. Inv(nextToken, [rule EXCEPT !.evalInFlight = rule.evalInFlight - 1], req, o, conn)
    BY <1>1, <2>2, ReportsOnce
  <2> QED
    BY <1>1, <2>1, <2>3 DEF IInv
<1>7. CASE valid /\ ~Expired(rule) /\ reachable
  <2> DEFINE s == CommitCooldown(rule)
             t == [s EXCEPT !.commitToken = rule.evalToken, !.armInFlight = 1]
             m == [mnt[g] EXCEPT !.st = "take"]
             c == [mnt EXCEPT ![g] = m]
  <2>1. rule' = t /\ mnt' = c
    BY <1>2, <1>7 DEF CompleteValidation
  <2>2. /\ rule.phase = "evaluating" /\ mnt[g].token = rule.evalToken /\ rule.evalToken # 0
        /\ rule.evalToken \in 0..nextToken
    BY <1>1, <1>2, <1>7 DEF Validating, Inv, PhaseOK, RuleRec
  <2>3. NoArming(req, mnt)
    BY <1>1, <2>2, NobodyArms
  <2>4. /\ s \in RuleRec(nextToken) /\ s.phase = "cooldown" /\ s.retryIn > 0
        /\ s.evalHoles = {} /\ s.evalInFlight = 0 /\ s.routeToken = 0
    BY <1>2, <2>2, CommitFacts
  <2> HIDE DEF s
  <2>5. /\ t \in RuleRec(nextToken) /\ t.phase = "cooldown" /\ t.retryIn > 0
        /\ t.evalHoles = {} /\ t.evalInFlight = 0 /\ t.routeToken = 0
        /\ t.commitToken = rule.evalToken /\ t.armInFlight = 1
    BY <2>2, <2>4 DEF RuleRec
  <2>6. /\ m \in MntRec(nextToken) /\ m.st = "take" /\ m.token = rule.evalToken
        /\ m.stale = mnt[g].stale
    <3>1. mnt[g] \in MntRec(nextToken)
      BY <1>2
    <3> QED
      BY <2>2, <3>1 DEF MntRec
  <2>7. /\ c \in [Gen -> MntRec(nextToken)] /\ c[g] = m /\ \A x \in Gen \ {g} : c[x] = mnt[x]
    BY <1>2, <2>6
  <2>8. Cardinality(HoldersIn(req, c, t.commitToken, ArmStages)) = 1
    <3>1. In(m, t.commitToken, ArmStages) /\ ~In(mnt[g], t.commitToken, ArmStages)
      BY <1>1, <2>5, <2>6 DEF In, ArmStages
    <3>2. OneMoves(HoldersIn(req, mnt, t.commitToken, ArmStages),
                   HoldersIn(req, c, t.commitToken, ArmStages),
                   In(mnt[g], t.commitToken, ArmStages), In(m, t.commitToken, ArmStages))
      BY <1>2, MntCounts
    <3>3. Cardinality(HoldersIn(req, mnt, t.commitToken, ArmStages)) = 0
      BY <2>2, <2>3, <2>5, NoArmers
    <3> QED
      BY <3>1, <3>2, <3>3 DEF OneMoves
  <2> HIDE DEF t, m, c
  <2>9. ArmingOK(t, req, c)
    <3>1. \A x \in Request : ReqArmingOK(t, req[x])
      BY <2>3 DEF ReqArmingOK, NoArming, ArmStages
    <3>2. \A x \in Gen : MntArmingOK(t, c[x])
      BY <2>2, <2>3, <2>5, <2>6, <2>7 DEF MntArmingOK, ArmsFor, NoArming
    <3>3. OneTakes(req, c)
      BY <2>3 DEF OneTakes, NoArming, ArmStages
    <3> QED
      BY <3>1, <3>2, <3>3 DEF ArmingOK
  <2>10. StaleOK(c, conn)
    BY <1>2, <2>6, <2>7 DEF StaleOK
  <2>11. PhaseOK(t) /\ OwnersOK(t, req) /\ HolesOK(t, c, conn)
    BY <2>2, <2>5, <2>10 DEF PhaseOK, OwnersOK, HolesOK
  <2>12. Typed(nextToken, t, req, c, conn)
    BY <1>1, <2>5, <2>7 DEF Inv, Typed
  <2>13. Inv(nextToken, t, req, c, conn)
    BY <2>5, <2>8, <2>9, <2>11, <2>12, CooldownKeeps
  <2> QED
    BY <1>1, <2>1, <2>13 DEF IInv
<1> QED
  BY <1>4, <1>5, <1>6, <1>7

LEMMA TakeForProbeKeeps ==
    ASSUME IInv, NEW g \in Gen, TakeForProbe(g)
    PROVE  IInv'
<1> DEFINE m == [mnt[g] EXCEPT !.st = "arm", !.armed = Armable(rule.committed)]
           c == [mnt EXCEPT ![g] = m]
<1>1. /\ Inv(nextToken, rule, req, mnt, conn) /\ mnt[g].st = "take"
      /\ nextToken' = nextToken /\ req' = req /\ conn' = conn
      /\ rule' = [rule EXCEPT !.committed = {}]
  BY DEF IInv, TakeForProbe
<1>2. mnt \in [Gen -> MntRec(nextToken)] /\ StaleOK(mnt, conn)
  BY <1>1, Facts
<1>3. mnt' = c
  BY <1>2 DEF TakeForProbe
<1>4. /\ m \in MntRec(nextToken) /\ m.st = "arm" /\ m.token = mnt[g].token
      /\ m.stale = mnt[g].stale
  <2>1. mnt[g] \in MntRec(nextToken) /\ Armable(rule.committed) \in BOOLEAN
    BY <1>2 DEF Armable
  <2> QED
    BY <2>1 DEF MntRec
<1> HIDE DEF m
<1>5. ArmsFor(rule, mnt[g].token) /\ \A q \in Request : req[q].st # "take"
  BY <1>1 DEF Inv, ArmingOK, MntArmingOK, OneTakes, ArmStages
<1>6. /\ MntArmingOK(rule, m) /\ m.st # "take" /\ rule.phase # "evaluating"
      /\ In(mnt[g], rule.commitToken, ArmStages) /\ In(m, rule.commitToken, ArmStages)
  BY <1>1, <1>4, <1>5 DEF MntArmingOK, ArmsFor, In, ArmStages
<1>7. \A h \in m.stale : conn[h] = "gone"
  BY <1>2, <1>4 DEF StaleOK
<1>8. Inv(nextToken, rule, req, c, conn)
  BY <1>1, <1>4, <1>6, <1>7, MntMoves
<1> HIDE DEF c
<1>9. Inv(nextToken, [rule EXCEPT !.committed = {}], req, c, conn)
  BY <1>5, <1>8, TakenKeeps
<1> QED
  BY <1>1, <1>3, <1>9 DEF IInv

LEMMA FinishProbeKeeps ==
    ASSUME IInv, NEW g \in Gen, FinishProbe(g)
    PROVE  IInv'
<1> DEFINE o == [mnt EXCEPT ![g] = NoWork]
           token == mnt[g].token
           armed == IF mnt[g].st = "arm" THEN mnt[g].armed ELSE Armable({g})
<1>1. /\ Inv(nextToken, rule, req, mnt, conn) /\ mnt[g].st \in {"arm", "finish"}
      /\ nextToken' = nextToken /\ req' = req /\ conn' = conn
      /\ rule' = FinishArming(rule, token, armed) /\ mnt' = o
  BY DEF IInv, FinishProbe
<1>2. /\ mnt \in [Gen -> MntRec(nextToken)] /\ req \in [Request -> ReqRec(nextToken)]
      /\ StaleOK(mnt, conn) /\ NoWork \in MntRec(nextToken)
  BY <1>1, Facts, IdleTyped
<1>3. MntArmingOK(rule, mnt[g])
  BY <1>1 DEF Inv, ArmingOK
<1>4. NoWork.st = "off" /\ NoWork.stale = {}
  BY DEF NoWork
<1>5. CASE token = 0
  <2>1. FinishArming(rule, token, armed) = rule
    BY <1>5 DEF FinishArming
  <2>2. /\ ~In(mnt[g], rule.evalToken, EvalStages)
        /\ ~(rule.commitToken # 0 /\ In(mnt[g], rule.commitToken, ArmStages))
    BY <1>1, <1>5 DEF In, EvalStages
  <2>3. Inv(nextToken, rule, req, o, conn)
    BY <1>1, <2>2, MntEnds
  <2> QED
    BY <1>1, <2>1, <2>3 DEF IInv
<1>6. CASE token # 0
  <2>1. ArmsFor(rule, token)
    BY <1>1, <1>3, <1>6 DEF MntArmingOK, ArmStages
  <2>2. armed \in BOOLEAN
    BY <1>2 DEF MntRec, Armable
  <2>3. Cardinality(HoldersIn(req, o, rule.commitToken, ArmStages))
          = Cardinality(HoldersIn(req, mnt, rule.commitToken, ArmStages)) - 1
    <3>1. In(mnt[g], rule.commitToken, ArmStages) /\ ~In(NoWork, rule.commitToken, ArmStages)
      BY <1>1, <1>4, <2>1 DEF In, ArmStages, ArmsFor
    <3>2. OneMoves(HoldersIn(req, mnt, rule.commitToken, ArmStages),
                   HoldersIn(req, o, rule.commitToken, ArmStages),
                   In(mnt[g], rule.commitToken, ArmStages),
                   In(NoWork, rule.commitToken, ArmStages))
      BY <1>2, MntCounts
    <3> QED
      BY <3>1, <3>2 DEF OneMoves
  <2>4. /\ o \in [Gen -> MntRec(nextToken)] /\ o[g] = NoWork
        /\ \A x \in Gen \ {g} : o[x] = mnt[x]
    BY <1>2
  <2> HIDE DEF o, armed
  <2>5. ArmingOK(rule, req, o)
    <3>1. MntArmingOK(rule, NoWork)
      BY <1>4 DEF MntArmingOK, ArmStages
    <3> QED
      BY <1>1, <1>4, <2>4, <3>1 DEF Inv, ArmingOK, OneTakes
  <2>6. StaleOK(o, conn)
    BY <1>2, <1>4, <2>4 DEF StaleOK
  <2>7. OwnersOK(rule, req)
    BY <1>1 DEF Inv
  <2>8. Inv(nextToken, FinishArming(rule, token, armed), req, o, conn)
    BY <1>1, <1>2, <2>1, <2>2, <2>3, <2>4, <2>5, <2>6, <2>7, ArmLeaves
  <2> QED
    BY <1>1, <2>8 DEF IInv
<1> QED
  BY <1>5, <1>6

-----------------------------------------------------------------------------
(* The events of the transports. *)

\* A phase is over while nobody arms, and a connection may have changed.
LEMMA ResetRule ==
    ASSUME NEW n, NEW s, NEW rq, NEW mt, NEW cn, Inv(n, s, rq, mt, cn),
           s.phase # "cooldown" \/ s.retryIn = 0,
           NEW t \in {FailOpen(s), Reenter(s)}, NEW d \in ConnMap, StaleOK(mt, d)
    PROVE  Inv(n, t, rq, mt, d)
<1>1. t \in RuleRec(n) /\ Cleared(t) /\ t.phase \in {"closed", "cooldown"}
  BY Facts, FailOpenFacts, ReenterFacts
<1>2. NoArming(rq, mt)
  BY NobodyArms
<1>3. Typed(n, t, rq, mt, d)
  BY <1>1 DEF Inv, Typed
<1> QED
  BY <1>1, <1>2, <1>3, ResetKeeps

\* What was found stale does not come back.
LEMMA StaleStays ==
    ASSUME NEW n, NEW s, NEW rq, NEW mt, NEW cn, Inv(n, s, rq, mt, cn), NEW g \in Gen,
           NEW c \in {"ok", "degraded", "reported", "hole", "gone"}, cn[g] # "gone"
    PROVE  [cn EXCEPT ![g] = c] \in ConnMap /\ StaleOK(mt, [cn EXCEPT ![g] = c])
<1>1. cn \in ConnMap /\ mt \in [Gen -> MntRec(n)] /\ StaleOK(mt, cn)
  BY Facts
<1>2. ASSUME NEW i \in Gen, NEW h \in mt[i].stale PROVE [cn EXCEPT ![g] = c][h] = "gone"
  <2>1. h \in Gen /\ cn[h] = "gone"
    BY <1>1 DEF StaleOK, MntRec
  <2> QED
    BY <1>1, <2>1 DEF ConnMap
<1> QED
  BY <1>1, <1>2 DEF ConnMap, StaleOK

LEMMA NoteKeeps ==
    ASSUME IInv, NEW g \in Gen, NoteDegradation(g)
    PROVE  IInv'
<1> DEFINE s == Expire(rule)
           recent == [s.recent EXCEPT ![g] = Window]
           n == nextToken + 1
           open == [Clear(s) EXCEPT !.phase = "evaluating", !.failures = 0, !.retryIn = 0,
                                    !.recent = recent, !.evalToken = n]
           noted == [s EXCEPT !.recent = recent]
<1>1. Inv(nextToken, s, req, mnt, conn)
  BY ExpireKeeps DEF IInv
<1>2. conn[g] = "ok" /\ nextToken < MaxToken /\ req' = req /\ mnt' = mnt
  BY DEF NoteDegradation
<1>3. PICK c \in {"degraded", "reported"} : conn' = [conn EXCEPT ![g] = c]
  BY DEF NoteDegradation
<1>4. conn' \in ConnMap /\ StaleOK(mnt, conn')
  BY <1>1, <1>2, <1>3, StaleStays
<1>5. \/ /\ s.phase = "probation" /\ s.probation.gen = g
         /\ rule' = Reenter(s) /\ nextToken' = nextToken
      \/ /\ ~(s.phase = "probation" /\ s.probation.gen = g)
         /\ \/ rule' = s /\ nextToken' = nextToken
            \/ rule' = open /\ nextToken' = n /\ s.phase = "closed"
            \/ rule' = noted /\ nextToken' = nextToken
  BY DEF NoteDegradation
<1>6. /\ s \in RuleRec(nextToken) /\ nextToken \in Nat /\ recent \in [Gen -> 0..Window]
      /\ \A h \in s.evalHoles : conn[h] \in {"hole", "gone"}
  <2>1. /\ s \in RuleRec(nextToken) /\ nextToken \in Nat
        /\ \A h \in s.evalHoles : conn[h] \in {"hole", "gone"}
    BY <1>1, Facts
  <2> HIDE DEF s
  <2>2. s.recent \in [Gen -> 0..Window] /\ Window \in 0..Window
    BY <2>1, ConstantsTyped DEF RuleRec
  <2> QED
    BY <2>1, <2>2
<1> HIDE DEF s, recent
<1>7. CASE s.phase = "probation" /\ s.probation.gen = g
  <2>1. rule' = Reenter(s) /\ nextToken' = nextToken
    BY <1>5, <1>7
  <2>2. Inv(nextToken, Reenter(s), req, mnt, conn')
    BY <1>1, <1>4, <1>7, ResetRule
  <2> QED
    BY <1>2, <2>1, <2>2 DEF IInv
<1>8. CASE ~(s.phase = "probation" /\ s.probation.gen = g)
  <2>1. g \notin s.evalHoles
    BY <1>2, <1>6
  <2>2. Inv(nextToken, s, req, mnt, conn')
    BY <1>1, <1>2, <1>3, <1>8, <2>1, ConnMoves
  <2>3. CASE rule' = s /\ nextToken' = nextToken
    BY <1>2, <2>2, <2>3 DEF IInv
  <2>4. CASE rule' = noted /\ nextToken' = nextToken
    <3>1. /\ noted \in RuleRec(nextToken) /\ SameControl(s, noted)
          /\ noted.committed = s.committed /\ noted.evalHoles = s.evalHoles
          /\ noted.routeToken = s.routeToken /\ noted.retryIn = s.retryIn
      BY <1>6 DEF RuleRec, SameControl
    <3> HIDE DEF noted
    <3>2. Inv(nextToken, noted, req, mnt, conn')
      BY <2>2, <3>1, Facts, RuleMoves
    <3> QED
      BY <1>2, <2>4, <3>2 DEF IInv
  <2>5. CASE rule' = open /\ nextToken' = n /\ s.phase = "closed"
    <3>1. Inv(n, s, req, mnt, conn') /\ n \in Nat /\ n # 0 /\ n > nextToken /\ n \in 0..n
      BY <1>2, <1>6, <2>2, MoreTokens
    <3> HIDE DEF n
    <3>2. /\ Clear(s) \in RuleRec(n) /\ Cleared(Clear(s)) /\ 0 \in 0..Len(Steps)
      BY <3>1, Facts, ClearFacts, ConstantsTyped
    <3>3. /\ open \in RuleRec(n) /\ open.phase = "evaluating" /\ open.evalToken = n
          /\ open.commitToken = 0 /\ open.armInFlight = 0 /\ open.committed = {}
          /\ open.routeToken = 0 /\ open.evalInFlight = 0 /\ open.evalHoles = {}
      BY <1>6, <3>1, <3>2 DEF RuleRec, Cleared
    <3>4. HoldersIn(req, mnt, n, EvalStages) = {}
      BY <1>1, <3>1, Facts, FreshCohort
    <3>5. Cardinality(HoldersIn(req, mnt, n, EvalStages)) = 0
      BY <3>4, FS_EmptySet
    <3>6. NoArming(req, mnt)
      BY <1>1, <2>5, NobodyArms
    <3>7. Typed(n, open, req, mnt, conn')
      BY <3>1, <3>3 DEF Inv, Typed
    <3> HIDE DEF open
    <3>8. Inv(n, open, req, mnt, conn')
      BY <1>4, <3>1, <3>3, <3>5, <3>6, <3>7, EvaluationKeeps
    <3> QED
      BY <1>2, <2>5, <3>8 DEF IInv
  <2> QED
    BY <1>5, <1>8, <2>3, <2>4, <2>5
<1> QED
  BY <1>7, <1>8

LEMMA UpgradeKeeps ==
    ASSUME IInv, NEW g \in Gen, BlackholeUpgrade(g)
    PROVE  IInv'
<1>1. /\ Inv(nextToken, rule, req, mnt, conn) /\ conn[g] = "degraded"
      /\ conn' = [conn EXCEPT ![g] = "reported"]
      /\ nextToken' = nextToken /\ req' = req /\ mnt' = mnt /\ rule' = rule
  BY DEF IInv, BlackholeUpgrade
<1>2. g \notin rule.evalHoles
  BY <1>1, Facts
<1>3. Inv(nextToken, rule, req, mnt, [conn EXCEPT ![g] = "reported"])
  BY <1>1, <1>2, ConnMoves
<1> QED
  BY <1>1, <1>3 DEF IInv

LEMMA HealKeeps ==
    ASSUME IInv, NEW g \in Gen, Heal(g)
    PROVE  IInv'
<1>1. /\ Inv(nextToken, rule, req, mnt, conn) /\ conn[g] = "hole"
      /\ conn' = [conn EXCEPT ![g] = "gone"]
      /\ nextToken' = nextToken /\ req' = req /\ mnt' = mnt /\ rule' = rule
  BY DEF IInv, Heal
<1>2. Inv(nextToken, rule, req, mnt, [conn EXCEPT ![g] = "gone"])
  BY <1>1, ConnMoves
<1> QED
  BY <1>1, <1>2 DEF IInv

\* What the sampler reads, and where, is not in this invariant.
LEMMA SamplerKeeps ==
    ASSUME IInv, NEW g, NEW kind, Drain(g) \/ TakeSample(g, kind)
    PROVE  IInv'
BY DEF IInv, Drain, TakeSample

\* A sample of a connection that is not well ends its probation.
LEMMA BadSampleKeeps ==
    ASSUME IInv, NEW g, NoteBadSample(g)
    PROVE  IInv'
<1>1. /\ Inv(nextToken, rule, req, mnt, conn) /\ rule.phase = "probation"
      /\ rule' = Reenter(rule)
      /\ nextToken' = nextToken /\ req' = req /\ mnt' = mnt /\ conn' = conn
  BY DEF IInv, NoteBadSample
<1>2. Inv(nextToken, Reenter(rule), req, mnt, conn)
  BY <1>1, Facts, ResetRule
<1> QED
  BY <1>1, <1>2 DEF IInv

\* The probation with k healthy samples.
Counting(k) == [rule EXCEPT !.probation = [rule.probation EXCEPT !.healthy = k]]
Healed == [FailOpen(rule) EXCEPT !.recent = [g \in Gen |-> 0]]

LEMMA SampleOutcome ==
    ASSUME NEW n \in Nat, rule \in RuleRec(n), NEW enough \in BOOLEAN, NoteSample(enough)
    PROVE  \/ rule' = rule
           \/ /\ SampleMatches(rule.probation) /\ sample.kind # "unsampled"
              /\ \/ /\ rule' = Healed /\ Elapsed(rule.probation) >= MinDuration
                    /\ CountHealthy(rule.probation) >= HealthyCount
                 \/ rule' = Reenter(rule)
                 \/ \E k \in 0..HealthyCount : rule' = Counting(k)
<1> DEFINE p == rule.probation
           h == CountHealthy(p)
           k == IF h > HealthyCount THEN HealthyCount ELSE h
<1>1. p \in ProbationRec(n)
  BY DEF RuleRec
<1>2. h \in Nat /\ HealthyCount \in Nat
  BY <1>1, ConstantsTyped DEF CountHealthy, ProbationRec
<1>3. k \in 0..HealthyCount
  <2> HIDE DEF h
  <2> QED
    BY <1>2
<1>4. Judge(enough, Elapsed(p), h) \in {Healed, Reenter(rule), Counting(k)}
  BY <1>1 DEF Judge, Healed, Counting, RuleRec, ProbationRec
<1>5. ASSUME Judge(enough, Elapsed(p), h) = Healed
      PROVE  \/ Elapsed(p) >= MinDuration /\ h >= HealthyCount
             \/ Healed \in {Reenter(rule), Counting(k)}
  BY <1>1, <1>5 DEF Judge, Counting, RuleRec, ProbationRec
<1>6. \/ rule' = rule
      \/ SampleMatches(p) /\ sample.kind # "unsampled" /\ rule' = Judge(enough, Elapsed(p), h)
  BY DEF NoteSample
<1> HIDE DEF k, h
<1> QED
  BY <1>3, <1>4, <1>5, <1>6 DEF h

LEMMA SampleKeeps ==
    ASSUME IInv, NEW enough \in BOOLEAN, NoteSample(enough)
    PROVE  IInv'
<1>1. /\ Inv(nextToken, rule, req, mnt, conn)
      /\ nextToken' = nextToken /\ req' = req /\ mnt' = mnt /\ conn' = conn
  BY DEF IInv, NoteSample
<1>2. /\ rule \in RuleRec(nextToken) /\ conn \in ConnMap /\ StaleOK(mnt, conn)
      /\ \A g \in rule.evalHoles : conn[g] \in {"hole", "gone"}
  BY <1>1, Facts
<1>3. rule.probation \in ProbationRec(nextToken) /\ nextToken \in Nat
  BY <1>1, <1>2, Facts DEF RuleRec
<1>4. \/ rule' = rule
      \/ /\ rule.phase = "probation"
         /\ \/ rule' \in {Reenter(rule), Healed}
            \/ \E k \in 0..HealthyCount : rule' = Counting(k)
  BY <1>2, <1>3, SampleOutcome DEF SampleMatches
<1>0. CASE rule' = rule
  BY <1>0, <1>1 DEF IInv
<1> SUFFICES ASSUME rule.phase = "probation" PROVE IInv'
  BY <1>0, <1>4
<1>5. CASE rule' = Reenter(rule)
  <2>1. Inv(nextToken, Reenter(rule), req, mnt, conn)
    BY <1>1, <1>2, ResetRule
  <2> QED
    BY <1>1, <1>5, <2>1 DEF IInv
<1>6. CASE rule' = Healed
  <2> DEFINE f == FailOpen(rule)
  <2>1. f \in RuleRec(nextToken) /\ Cleared(f) /\ f.phase = "closed"
    BY <1>1, Facts, FailOpenFacts
  <2>2. [g \in Gen |-> 0] \in [Gen -> 0..Window]
    BY ConstantsTyped
  <2> HIDE DEF f
  <2>3. Healed \in RuleRec(nextToken) /\ Cleared(Healed) /\ Healed.phase = "closed"
    <3>1. Healed = [f EXCEPT !.recent = [g \in Gen |-> 0]]
      BY DEF Healed, f
    <3> QED
      BY <2>1, <2>2, <3>1 DEF RuleRec, Cleared
  <2>4. NoArming(req, mnt)
    BY <1>1, NobodyArms
  <2>5. Typed(nextToken, Healed, req, mnt, conn)
    BY <1>1, <2>3 DEF Inv, Typed
  <2>6. Inv(nextToken, Healed, req, mnt, conn)
    BY <1>2, <2>3, <2>4, <2>5, ResetKeeps
  <2> QED
    BY <1>1, <1>6, <2>6 DEF IInv
<1>7. ASSUME NEW k \in 0..HealthyCount, rule' = Counting(k) PROVE IInv'
  <2> DEFINE b == [rule.probation EXCEPT !.healthy = k]
             more == [rule EXCEPT !.probation = b]
  <2>1. rule' = more
    BY <1>7 DEF Counting
  <2>2. b \in ProbationRec(nextToken) /\ b.token = rule.probation.token /\ b.gen = rule.probation.gen
    BY <1>3 DEF ProbationRec
  <2> HIDE DEF b
  <2>3. /\ more \in RuleRec(nextToken) /\ SameControl(rule, more)
        /\ more.committed = rule.committed /\ more.evalHoles = rule.evalHoles
        /\ more.routeToken = rule.routeToken /\ more.retryIn = rule.retryIn
    BY <1>2, <2>2 DEF RuleRec, SameControl
  <2> HIDE DEF more
  <2>4. Inv(nextToken, more, req, mnt, conn)
    BY <1>1, <1>2, <2>3, RuleMoves
  <2> QED
    BY <1>1, <2>1, <2>4 DEF IInv
<1> QED
  BY <1>0, <1>4, <1>5, <1>6, <1>7

\* breaker.now moves on only when the arming that follows a commit is over.
LEMMA TickKeeps ==
    ASSUME IInv, Tick
    PROVE  IInv'
<1> DEFINE less(x) == IF x > 0 THEN x - 1 ELSE x
           recent == [g \in Gen |-> less(rule.recent[g])]
           e == IF rule.probation.gen # None /\ rule.probation.elapsed < MaxDuration
                THEN rule.probation.elapsed + 1 ELSE rule.probation.elapsed
           b == [rule.probation EXCEPT !.elapsed = e]
           r == less(rule.retryIn)
           d == less(rule.evalDeadline)
           t == [rule EXCEPT !.retryIn = r, !.evalDeadline = d, !.recent = recent,
                             !.probation = b]
<1>1. /\ Inv(nextToken, rule, req, mnt, conn)
      /\ nextToken' = nextToken /\ req' = req /\ mnt' = mnt /\ conn' = conn
  BY DEF IInv, Tick
<1>2. /\ rule \in RuleRec(nextToken)
      /\ \A g \in rule.evalHoles : conn[g] \in {"hole", "gone"}
  BY <1>1, Facts
<1>3. rule.probation \in ProbationRec(nextToken)
  BY <1>2 DEF RuleRec
<1>4. rule' = t
  BY <1>2, <1>3 DEF Tick, RuleRec, ProbationRec
<1>5. NoArming(req, mnt)
  <2>1. \A q \in Request : req[q].st # "arm"
    BY <1>1, Facts DEF ReqRec
  <2> QED
    BY <2>1 DEF Tick, NoArming, ArmStages
<1>6. r \in Nat
  BY <1>2 DEF RuleRec
<1>7. d \in Off..Grace
  <2>1. rule.evalDeadline \in Off..Grace
    BY <1>2 DEF RuleRec
  <2>2. Grace \in Nat
    BY ConstantsTyped
  <2> QED
    BY <2>1, <2>2 DEF Off
<1>8. recent \in [Gen -> 0..Window]
  BY <1>2, ConstantsTyped DEF RuleRec
<1>9. b \in ProbationRec(nextToken) /\ b.token = rule.probation.token /\ b.gen = rule.probation.gen
  <2>1. e \in 0..MaxDuration
    BY <1>3, ConstantsTyped DEF ProbationRec
  <2> HIDE DEF e
  <2> QED
    BY <1>3, <2>1 DEF ProbationRec
<1> HIDE DEF r, d, recent, b
<1>10. /\ t \in RuleRec(nextToken) /\ SameControl(rule, t)
       /\ t.committed = rule.committed /\ t.evalHoles = rule.evalHoles
       /\ t.routeToken = rule.routeToken
  BY <1>2, <1>6, <1>7, <1>8, <1>9 DEF RuleRec, SameControl
<1> HIDE DEF t
<1>11. Inv(nextToken, t, req, mnt, conn)
  BY <1>1, <1>2, <1>5, <1>10, RuleMoves
<1> QED
  BY <1>1, <1>4, <1>11 DEF IInv

\* A probe joins an evaluation that nobody is in.
LEMMA ProbeOpens ==
    ASSUME NEW n, NEW s, NEW rq, NEW mt, NEW cn, Inv(n, s, rq, mt, cn), NEW g \in Gen,
           mt[g].st = "off", s.phase \in {"closed", "evaluating"}, NEW k, k # 0,
           Cardinality(HoldersIn(rq, mt, k, EvalStages)) = 0,
           NEW t \in RuleRec(n), t.phase = "evaluating", t.evalToken = k, t.evalInFlight = 1,
           t.commitToken = s.commitToken, t.armInFlight = s.armInFlight,
           t.committed = {}, t.routeToken = s.routeToken,
           \A h \in t.evalHoles : cn[h] \in {"hole", "gone"},
           NEW m \in MntRec(n), m.st = "check1", m.token = k, m.stale = {}
    PROVE  Inv(n, t, rq, [mt EXCEPT ![g] = m], cn)
<1> DEFINE o == [mt EXCEPT ![g] = m]
<1>1. mt \in [Gen -> MntRec(n)] /\ StaleOK(mt, cn)
  BY Facts
<1>2. o \in [Gen -> MntRec(n)] /\ o[g] = m /\ \A x \in Gen \ {g} : o[x] = mt[x]
  BY <1>1
<1>3. Cardinality(HoldersIn(rq, o, k, EvalStages)) = 1
  <2>1. ~In(mt[g], k, EvalStages) /\ In(m, k, EvalStages)
    BY DEF In, EvalStages
  <2>2. OneMoves(HoldersIn(rq, mt, k, EvalStages), HoldersIn(rq, o, k, EvalStages),
                 In(mt[g], k, EvalStages), In(m, k, EvalStages))
    BY <1>1, MntCounts
  <2> QED
    BY <2>1, <2>2 DEF OneMoves
<1> HIDE DEF o
<1>4. s.commitToken = 0 /\ s.armInFlight = 0 /\ s.routeToken = 0
  BY DEF Inv, PhaseOK, OwnersOK
<1>5. NoArming(rq, mt)
  BY NobodyArms
<1>6. NoArming(rq, o) /\ StaleOK(o, cn)
  BY <1>1, <1>2, <1>5 DEF NoArming, StaleOK, ArmStages
<1>7. Typed(n, t, rq, o, cn)
  BY <1>2 DEF Inv, Typed
<1>8. Inv(n, t, rq, o, cn)
  BY <1>3, <1>4, <1>6, <1>7, EvaluationKeeps
<1> QED
  BY <1>8 DEF o

\* A black hole found in a cooldown has its drain counted with the commit that
\* stands, if there is one.
LEMMA ArmJoins ==
    ASSUME NEW n, NEW s, NEW rq, NEW mt, NEW cn, Inv(n, s, rq, mt, cn), NEW g \in Gen,
           mt[g].st = "off", s.phase = "cooldown", s.retryIn > 0,
           NEW m \in MntRec(n), m.st = "finish", m.token = s.commitToken, m.stale = {}
    PROVE  Inv(n, IF s.commitToken # 0 THEN [s EXCEPT !.armInFlight = s.armInFlight + 1] ELSE s,
               rq, [mt EXCEPT ![g] = m], cn)
<1> DEFINE o == [mt EXCEPT ![g] = m]
           t == [s EXCEPT !.armInFlight = s.armInFlight + 1]
<1>1. mt \in [Gen -> MntRec(n)] /\ StaleOK(mt, cn) /\ s \in RuleRec(n)
  BY Facts
<1>2. o \in [Gen -> MntRec(n)] /\ o[g] = m /\ \A x \in Gen \ {g} : o[x] = mt[x]
  BY <1>1
<1>3. CASE s.commitToken = 0
  <2>1. MntArmingOK(s, m) /\ m.st # "take" /\ \A h \in m.stale : cn[h] = "gone"
    BY <1>3 DEF MntArmingOK
  <2>2. Inv(n, s, rq, o, cn)
    BY <1>3, <2>1, MntMoves
  <2> QED
    BY <1>3, <2>2
<1>4. CASE s.commitToken # 0
  <2>1. Cardinality(HoldersIn(rq, o, s.commitToken, ArmStages))
          = Cardinality(HoldersIn(rq, mt, s.commitToken, ArmStages)) + 1
    <3>1. ~In(mt[g], s.commitToken, ArmStages) /\ In(m, s.commitToken, ArmStages)
      BY DEF In, ArmStages
    <3>2. OneMoves(HoldersIn(rq, mt, s.commitToken, ArmStages),
                   HoldersIn(rq, o, s.commitToken, ArmStages),
                   In(mt[g], s.commitToken, ArmStages), In(m, s.commitToken, ArmStages))
      BY <1>1, MntCounts
    <3> QED
      BY <3>1, <3>2 DEF OneMoves
  <2>2. s.armInFlight = Cardinality(HoldersIn(rq, mt, s.commitToken, ArmStages))
    BY <1>4 DEF Inv, CountersOK
  <2> HIDE DEF o
  <2>3. s.armInFlight + 1 \in Nat
    BY <1>1 DEF RuleRec
  <2>4. /\ t \in RuleRec(n) /\ t.phase = s.phase /\ t.retryIn = s.retryIn
        /\ t.commitToken = s.commitToken /\ t.committed = s.committed
        /\ t.armInFlight = s.armInFlight + 1 /\ t.evalInFlight = s.evalInFlight
        /\ t.routeToken = s.routeToken /\ t.evalHoles = s.evalHoles /\ t.probation = s.probation
    BY <1>1, <2>3 DEF RuleRec
  <2> HIDE DEF t
  <2>5. PhaseOK(t) /\ OwnersOK(t, rq)
    BY <1>4, <2>4 DEF Inv, PhaseOK, OwnersOK, Leases
  <2>6. ArmingOK(t, rq, o)
    <3>1. \A q \in Request : ReqArmingOK(t, rq[q])
      BY <2>4 DEF Inv, ArmingOK, ReqArmingOK, ArmsFor
    <3>2. \A x \in Gen \ {g} : MntArmingOK(t, o[x])
      BY <1>2, <2>4 DEF Inv, ArmingOK, MntArmingOK, ArmsFor
    <3>3. MntArmingOK(t, m)
      BY <1>4, <2>4 DEF MntArmingOK, ArmsFor
    <3>4. OneTakes(rq, o)
      BY <1>2 DEF Inv, ArmingOK, OneTakes
    <3> QED
      BY <1>2, <3>1, <3>2, <3>3, <3>4 DEF ArmingOK
  <2>7. HolesOK(t, o, cn)
    BY <1>1, <1>2, <2>4, Facts DEF HolesOK, StaleOK
  <2>8. Typed(n, t, rq, o, cn)
    BY <1>2, <2>4 DEF Inv, Typed
  <2>9. Inv(n, t, rq, o, cn)
    BY <2>1, <2>2, <2>4, <2>5, <2>6, <2>7, <2>8, CooldownKeeps
  <2> QED
    BY <1>4, <2>9 DEF t, o
<1> QED
  BY <1>3, <1>4

LEMMA BeginKeeps ==
    ASSUME IInv, NEW g \in Gen, BeginBlackhole(g)
    PROVE  IInv'
<1> DEFINE s == Expire(rule)
           n == nextToken + 1
           opened == [s EXCEPT !.phase = "evaluating", !.evalToken = n, !.evalInFlight = 0,
                               !.evalHoles = {}, !.committed = {}, !.owned = TRUE]
           join(b) == [b EXCEPT !.evalHoles = @ \cup {g}]
           first(b) == [join(b) EXCEPT !.evalInFlight = 1, !.evalDeadline = Grace]
           work(st, k) == [NoWork EXCEPT !.st = st, !.token = k]
           o(m) == [mnt EXCEPT ![g] = m]
           d == [conn EXCEPT ![g] = "hole"]
<1>1. Inv(nextToken, s, req, mnt, conn)
  BY ExpireKeeps DEF IInv
<1>2. /\ conn[g] = "reported" /\ mnt[g].st = "off" /\ nextToken < MaxToken /\ req' = req
      /\ conn' = d
  BY DEF BeginBlackhole
<1>3. \/ /\ s.phase = "closed" /\ nextToken' = n
         /\ rule' = first(opened) /\ mnt' = o(work("check1", opened.evalToken))
      \/ /\ s.phase = "evaluating" /\ s.evalInFlight = 0 /\ nextToken' = nextToken
         /\ rule' = first(s) /\ mnt' = o(work("check1", s.evalToken))
      \/ /\ s.phase = "evaluating" /\ nextToken' = nextToken
         /\ rule' = join(s) /\ mnt' = mnt
      \/ /\ s.phase = "probation" \/ (s.phase = "cooldown" /\ s.retryIn = 0)
         /\ nextToken' = nextToken /\ rule' = Reenter(s) /\ mnt' = o(work("finish", 0))
      \/ /\ s.phase = "cooldown" /\ s.retryIn > 0 /\ nextToken' = nextToken
         /\ rule' = IF s.commitToken # 0 THEN [s EXCEPT !.armInFlight = s.armInFlight + 1] ELSE s
         /\ mnt' = o(work("finish", s.commitToken))
  BY DEF BeginBlackhole
<1> HIDE DEF s
<1>4. Inv(nextToken, s, req, mnt, d)
  BY <1>1, <1>2, ConnMoves
<1>5. /\ s \in RuleRec(nextToken) /\ nextToken \in Nat /\ d \in ConnMap /\ StaleOK(mnt, d)
      /\ mnt \in [Gen -> MntRec(nextToken)] /\ conn \in ConnMap
      /\ \A h \in s.evalHoles : d[h] \in {"hole", "gone"}
  BY <1>1, <1>4, Facts
<1>6. d[g] = "hole"
  BY <1>5 DEF ConnMap
<1> HIDE DEF d
<1>7. Grace \in Off..Grace
  BY ConstantsTyped
<1>8. ASSUME NEW k \in Nat, NEW x \in 0..k, NEW st \in {"check1", "finish"}
      PROVE  /\ work(st, x) \in MntRec(k) /\ work(st, x).st = st /\ work(st, x).token = x
             /\ work(st, x).stale = {}
  <2>1. NoWork \in MntRec(k) /\ NoWork.stale = {}
    BY IdleTyped DEF NoWork
  <2> QED
    BY <2>1 DEF MntRec
<1>9. CASE /\ s.phase = "closed" /\ nextToken' = n
           /\ rule' = first(opened) /\ mnt' = o(work("check1", opened.evalToken))
  <2> DEFINE t == first(opened)
  <2>1. Inv(n, s, req, mnt, d) /\ n \in Nat /\ n # 0 /\ n > nextToken /\ n \in 0..n
    BY <1>2, <1>4, <1>5, MoreTokens
  <2>2. Cardinality(HoldersIn(req, mnt, n, EvalStages)) = 0
    <3>1. HoldersIn(req, mnt, n, EvalStages) = {}
      BY <1>4, <2>1, Facts, FreshCohort
    <3> QED
      BY <3>1, FS_EmptySet
  <2> HIDE DEF n
  <2>3. s \in RuleRec(n)
    BY <2>1, Facts
  <2>4. /\ t \in RuleRec(n) /\ t.phase = "evaluating" /\ t.evalToken = n /\ t.evalInFlight = 1
        /\ t.commitToken = s.commitToken /\ t.armInFlight = s.armInFlight
        /\ t.committed = {} /\ t.routeToken = s.routeToken /\ t.evalHoles = {g}
        /\ opened.evalToken = n
    BY <1>7, <2>1, <2>3 DEF RuleRec
  <2> HIDE DEF t
  <2>5. /\ work("check1", n) \in MntRec(n) /\ work("check1", n).st = "check1"
        /\ work("check1", n).token = n /\ work("check1", n).stale = {}
    BY <1>8, <2>1
  <2> HIDE DEF work
  <2>6. Inv(n, t, req, o(work("check1", n)), d)
    BY <1>2, <1>6, <1>9, <2>1, <2>2, <2>4, <2>5, ProbeOpens
  <2>7. rule' = t /\ mnt' = o(work("check1", n))
    BY <1>9, <2>4 DEF t
  <2> QED
    BY <1>2, <1>9, <2>6, <2>7 DEF IInv
<1>10. CASE /\ s.phase = "evaluating" /\ s.evalInFlight = 0 /\ nextToken' = nextToken
            /\ rule' = first(s) /\ mnt' = o(work("check1", s.evalToken))
  <2> DEFINE t == first(s)
             k == s.evalToken
  <2>1. k # 0 /\ k \in 0..nextToken /\ s.committed = {}
    BY <1>1, <1>5, <1>10 DEF Inv, PhaseOK, RuleRec
  <2>2. Cardinality(HoldersIn(req, mnt, k, EvalStages)) = 0
    BY <1>1, <1>10 DEF Inv, CountersOK
  <2>3. /\ t \in RuleRec(nextToken) /\ t.phase = "evaluating" /\ t.evalToken = k
        /\ t.evalInFlight = 1 /\ t.commitToken = s.commitToken /\ t.armInFlight = s.armInFlight
        /\ t.committed = s.committed /\ t.routeToken = s.routeToken
        /\ t.evalHoles = s.evalHoles \cup {g}
    <3> DEFINE u == join(s)
    <3>1. /\ u \in RuleRec(nextToken) /\ u.phase = "evaluating" /\ u.evalToken = k
          /\ u.commitToken = s.commitToken /\ u.armInFlight = s.armInFlight
          /\ u.committed = s.committed /\ u.routeToken = s.routeToken
          /\ u.evalHoles = s.evalHoles \cup {g}
      BY <1>5, <1>10 DEF RuleRec
    <3>2. t = [u EXCEPT !.evalInFlight = 1, !.evalDeadline = Grace]
      OBVIOUS
    <3> HIDE DEF u, t, k
    <3> QED
      BY <1>7, <3>1, <3>2 DEF RuleRec
  <2> HIDE DEF t, k
  <2>4. /\ work("check1", k) \in MntRec(nextToken) /\ work("check1", k).st = "check1"
        /\ work("check1", k).token = k /\ work("check1", k).stale = {}
    BY <1>5, <1>8, <2>1
  <2> HIDE DEF work
  <2>5. Inv(nextToken, t, req, o(work("check1", k)), d)
    BY <1>2, <1>4, <1>5, <1>6, <1>10, <2>1, <2>2, <2>3, <2>4, ProbeOpens
  <2> QED
    BY <1>2, <1>10, <2>5 DEF IInv, t, k
<1>11. CASE /\ s.phase = "evaluating" /\ nextToken' = nextToken
            /\ rule' = join(s) /\ mnt' = mnt
  <2> DEFINE t == join(s)
  <2>1. /\ t \in RuleRec(nextToken) /\ SameControl(s, t) /\ t.committed = s.committed
        /\ t.evalHoles = s.evalHoles \cup {g} /\ t.routeToken = s.routeToken
        /\ t.retryIn = s.retryIn
    BY <1>5 DEF RuleRec, SameControl
  <2> HIDE DEF t
  <2>2. Inv(nextToken, t, req, mnt, d)
    BY <1>4, <1>5, <1>6, <2>1, RuleMoves
  <2> QED
    BY <1>2, <1>11, <2>2 DEF IInv, t
<1>12. CASE /\ s.phase = "probation" \/ (s.phase = "cooldown" /\ s.retryIn = 0)
            /\ nextToken' = nextToken /\ rule' = Reenter(s) /\ mnt' = o(work("finish", 0))
  <2> DEFINE m == work("finish", 0)
  <2>1. m \in MntRec(nextToken) /\ m.st = "finish" /\ m.token = 0 /\ m.stale = {}
    <3>1. 0 \in 0..nextToken
      BY <1>5
    <3> QED
      BY <1>5, <1>8, <3>1
  <2>2. Reenter(s).phase = "cooldown" /\ Reenter(s).commitToken = 0
    BY <1>5, ReenterFacts DEF Cleared
  <2>3. Inv(nextToken, Reenter(s), req, mnt, d)
    BY <1>4, <1>5, <1>12, ResetRule
  <2> HIDE DEF m, work
  <2>4. MntArmingOK(Reenter(s), m) /\ m.st # "take" /\ \A h \in m.stale : d[h] = "gone"
    BY <2>1 DEF MntArmingOK
  <2>5. Inv(nextToken, Reenter(s), req, o(m), d)
    BY <2>1, <2>2, <2>3, <2>4, MntMoves
  <2> QED
    BY <1>2, <1>12, <2>5 DEF IInv, m
<1>13. CASE /\ s.phase = "cooldown" /\ s.retryIn > 0 /\ nextToken' = nextToken
            /\ rule' = IF s.commitToken # 0
                       THEN [s EXCEPT !.armInFlight = s.armInFlight + 1] ELSE s
            /\ mnt' = o(work("finish", s.commitToken))
  <2> DEFINE m == work("finish", s.commitToken)
  <2>1. s.commitToken \in 0..nextToken
    BY <1>5 DEF RuleRec
  <2>2. m \in MntRec(nextToken) /\ m.st = "finish" /\ m.token = s.commitToken /\ m.stale = {}
    BY <1>5, <1>8, <2>1
  <2> HIDE DEF m, work
  <2>3. Inv(nextToken, IF s.commitToken # 0
                       THEN [s EXCEPT !.armInFlight = s.armInFlight + 1] ELSE s,
            req, o(m), d)
    BY <1>2, <1>4, <1>13, <2>2, ArmJoins
  <2> QED
    BY <1>2, <1>13, <2>3 DEF IInv, m
<1> QED
  BY <1>3, <1>9, <1>10, <1>11, <1>12, <1>13

-----------------------------------------------------------------------------
(* The invariant. *)

LEMMA InitKeeps ==
    ASSUME Init
    PROVE  IInv
<1>1. 0 \in Nat /\ Idle \in ReqRec(0) /\ NoWork \in MntRec(0) /\ NoProbation \in ProbationRec(0)
  BY IdleTyped, NoProbationTyped
<1>2. [g \in Gen |-> 0] \in [Gen -> 0..Window] /\ 0 \in 0..Len(Steps) /\ Off \in Off..Grace
      /\ 0 \in 0..MaxToken
  BY ConstantsTyped
<1>3. Closed \in RuleRec(0) /\ Cleared(Closed) /\ Closed.phase = "closed"
  BY <1>1, <1>2 DEF Closed, RuleRec, Cleared
<1>4. Typed(nextToken, rule, req, mnt, conn)
  BY <1>1, <1>2, <1>3 DEF Init, Typed, ConnMap
<1>5. NoArming(req, mnt) /\ StaleOK(mnt, conn)
  BY DEF Init, NoArming, StaleOK, Idle, NoWork, ArmStages
<1>6. Cleared(rule) /\ rule.phase = "closed"
  BY <1>3 DEF Init
<1> QED
  BY <1>4, <1>5, <1>6, ResetKeeps DEF IInv

LEMMA NextKeeps ==
    ASSUME IInv, [Next]_vars
    PROVE  IInv'
<1>1. CASE UNCHANGED vars
  BY <1>1 DEF vars, IInv
<1>2. ASSUME NEW q \in Request, RequestReturns(q) PROVE IInv'
  BY <1>2, ProbeConnectsKeeps, ProbeEndsKeeps, ReleaseKeeps, ObserveKeeps, TakeKeeps,
     FinishRequestKeeps DEF RequestReturns
<1>3. ASSUME NEW g \in Gen, Maintain(g) PROVE IInv'
  BY <1>3, CheckKeeps, RetainKeeps, ProbeDialKeeps, CompleteKeeps, TakeForProbeKeeps,
     FinishProbeKeeps DEF Maintain
<1>4. ASSUME NEW q \in Request, JoinEvaluation(q) \/ CloseTunnel(q) PROVE IInv'
  BY <1>4, JoinKeeps, ProbeEndsKeeps
<1>5. ASSUME NEW q \in Request, NEW k \in Key, ClaimRouteProbe(q, k) \/ BeginProbation(q, k)
      PROVE  IInv'
  BY <1>5, ClaimKeeps, BeginProbationKeeps
<1>6. ASSUME NEW g \in Gen,
             \/ NoteDegradation(g) \/ BlackholeUpgrade(g) \/ BeginBlackhole(g) \/ Heal(g)
             \/ Drain(g) \/ NoteBadSample(g)
             \/ \E kind \in {"healthy", "poor", "unsampled"} : TakeSample(g, kind)
      PROVE  IInv'
  BY <1>6, NoteKeeps, UpgradeKeeps, BeginKeeps, HealKeeps, SamplerKeeps, BadSampleKeeps
<1>7. ASSUME NEW enough \in BOOLEAN, NoteSample(enough) PROVE IInv'
  BY <1>7, SampleKeeps
<1>8. CASE ExpireEvaluation \/ Tick
  BY <1>8, ExpireActionKeeps, TickKeeps
<1> QED
  BY <1>1, <1>2, <1>3, <1>4, <1>5, <1>6, <1>7, <1>8 DEF Next

\* The inductive invariant holds in every state of the rule's breaker.
THEOREM Invariance == Spec => []IInv
<1>1. Init => IInv
  BY InitKeeps
<1>2. IInv /\ [Next]_vars => IInv'
  BY NextKeeps
<1> QED
  BY <1>1, <1>2, PTL DEF Spec

-----------------------------------------------------------------------------
(* What a step may never do. *)

\* Most steps do not end an evaluation with a cooldown, do not end a probation with
\* HTTP/3, and leave the scopes of an evaluation in it.
Quiet(s, t) ==
    /\ s.phase = "evaluating" => t.phase # "cooldown"
    /\ s.phase = "probation" => t.phase # "closed"
    /\ t.phase = "evaluating" /\ t.evalToken = s.evalToken => s.evalHoles \subseteq t.evalHoles

\* They neither begin a probation nor bind one to a connection.
Steady(s, t) ==
    t.phase = "probation" =>
        /\ s.phase = "probation"
        /\ t.probation.token = s.probation.token /\ t.probation.gen = s.probation.gen

LEMMA ResetIsQuiet ==
    ASSUME NEW n \in Nat, NEW s \in RuleRec(n)
    PROVE  /\ s.phase # "probation" => Quiet(s, FailOpen(s))
           /\ s.phase # "evaluating" => Quiet(s, Reenter(s)) /\ Quiet(s, Abort(s))
           /\ Steady(s, FailOpen(s)) /\ Steady(s, Reenter(s)) /\ Steady(s, Abort(s))
BY FailOpenFacts, ReenterFacts, AbortFacts DEF Quiet, Steady

LEMMA ArmingIsQuiet ==
    ASSUME NEW n \in Nat, NEW s \in RuleRec(n), NEW token, NEW armed \in BOOLEAN
    PROVE  /\ Quiet(s, FinishArming(s, token, armed))
           /\ Steady(s, FinishArming(s, token, armed))
<1> DEFINE a == IF s.armInFlight > 0 THEN s.armInFlight - 1 ELSE 0
           b == s.armed \/ armed
           t == [s EXCEPT !.armInFlight = a, !.armed = b]
<1>1. \/ FinishArming(s, token, armed) = s
      \/ s.phase = "cooldown" /\ FinishArming(s, token, armed) \in {t, FailOpen(t)}
  BY DEF FinishArming
<1>2. a \in Nat /\ b \in BOOLEAN
  BY DEF RuleRec
<1> HIDE DEF a, b
<1>3. t \in RuleRec(n) /\ t.phase = s.phase
  BY <1>2 DEF RuleRec
<1>4. FailOpen(t).phase = "closed"
  BY <1>3, FailOpenFacts
<1> HIDE DEF t
<1> QED
  BY <1>1, <1>3, <1>4 DEF Quiet, Steady

LEMMA RequestIsQuiet ==
    ASSUME IInv, NEW q \in Request,
           \/ JoinEvaluation(q) \/ CloseTunnel(q) \/ ProbeConnects(q) \/ ProbeFails(q)
           \/ ReleaseRouteProbe(q) \/ TakeCommitted(q) \/ FinishRequest(q)
    PROVE  /\ Quiet(rule, rule')
           /\ Steady(rule, rule') \/ ProbeConnects(q)
<1>1. rule \in RuleRec(nextToken) /\ nextToken \in Nat
  BY Facts DEF IInv
<1>2. CASE JoinEvaluation(q)
  BY <1>1, <1>2 DEF JoinEvaluation, RuleRec, Quiet, Steady
<1>3. CASE CloseTunnel(q) \/ ProbeFails(q)
  BY <1>1, <1>3, ResetIsQuiet DEF CloseTunnel, ProbeFails, Probation, Quiet, Steady
<1>4. CASE ProbeConnects(q)
  BY <1>1, <1>4 DEF ProbeConnects, RuleRec, Quiet, Steady
<1>5. CASE ReleaseRouteProbe(q)
  BY <1>1, <1>5 DEF ReleaseRouteProbe, RuleRec, Quiet, Steady
<1>6. CASE TakeCommitted(q)
  BY <1>1, <1>6 DEF TakeCommitted, RuleRec, Quiet, Steady
<1>7. CASE FinishRequest(q)
  <2>1. req[q].armed \in BOOLEAN
    BY Facts DEF IInv, ReqRec
  <2> QED
    BY <1>1, <1>7, <2>1, ArmingIsQuiet DEF FinishRequest
<1> QED
  BY <1>2, <1>3, <1>4, <1>5, <1>6, <1>7

LEMMA ClaimIsQuiet ==
    ASSUME IInv, NEW q \in Request, NEW k, ClaimRouteProbe(q, k) \/ BeginProbation(q, k)
    PROVE  /\ Quiet(rule, rule')
           /\ Steady(rule, rule') \/ BeginProbation(q, k)
<1>1. rule \in RuleRec(nextToken) /\ nextToken \in Nat
  BY Facts DEF IInv
<1>2. CASE ClaimRouteProbe(q, k)
  BY <1>1, <1>2 DEF ClaimRouteProbe, RuleRec, Quiet, Steady
<1>3. CASE BeginProbation(q, k)
  <2>1. rule.phase = "cooldown" /\ rule'.phase = "probation"
    BY <1>1, <1>3, ClearFacts DEF BeginProbation, RuleRec
  <2> QED
    BY <1>3, <2>1 DEF Quiet
<1> QED
  BY <1>2, <1>3

\* A probe that leaves its evaluation.
LEMMA LeaveIsQuiet ==
    ASSUME NEW n \in Nat, NEW s \in RuleRec(n), s.phase = "evaluating"
    PROVE  /\ Quiet(s, Leave(s)) /\ Leave(s).phase \in {"closed", "evaluating"}
           /\ Steady(s, Leave(s))
<1>1. FailOpen(s).phase = "closed"
  BY FailOpenFacts
<1> QED
  BY <1>1 DEF Leave, RuleRec, Quiet, Steady

LEMMA GenIsQuiet ==
    ASSUME IInv, NEW g \in Gen,
           NEW from, NEW retain, NEW next,
           \/ NoteDegradation(g) \/ BlackholeUpgrade(g) \/ BeginBlackhole(g) \/ Heal(g)
           \/ Drain(g) \/ TakeSample(g, from) \/ NoteBadSample(g)
           \/ CheckScopes(g, from, retain, next) \/ ProbeDial(g)
           \/ TakeForProbe(g) \/ FinishProbe(g)
    PROVE  Quiet(rule, rule') /\ Steady(rule, rule')
<1> DEFINE s == Expire(rule)
           n == nextToken + 1
<1>1. /\ rule \in RuleRec(nextToken) /\ nextToken \in Nat /\ mnt \in [Gen -> MntRec(nextToken)]
      /\ rule.evalToken \in 0..nextToken /\ rule.evalToken # n
  <2>1. /\ rule \in RuleRec(nextToken) /\ nextToken \in Nat
        /\ mnt \in [Gen -> MntRec(nextToken)]
    BY Facts DEF IInv
  <2>2. rule.evalToken \in 0..nextToken
    BY <2>1 DEF RuleRec
  <2> QED
    BY <2>1, <2>2
<1>2. \/ s = rule
      \/ rule.phase = "evaluating" /\ s.phase = "closed"
  BY <1>1, FailOpenFacts DEF Expire, Expired
<1>3. s \in RuleRec(nextToken)
  BY ExpireKeeps, Facts DEF IInv
<1>4. CASE NoteDegradation(g)
  <2> DEFINE recent == [s.recent EXCEPT ![g] = Window]
             open == [Clear(s) EXCEPT !.phase = "evaluating", !.failures = 0, !.retryIn = 0,
                                      !.recent = recent, !.evalToken = n]
             noted == [s EXCEPT !.recent = recent]
  <2>1. \/ s.phase = "probation" /\ rule' = Reenter(s)
        \/ rule' = s
        \/ rule' = open /\ s.phase = "closed"
        \/ rule' = noted
    BY <1>4 DEF NoteDegradation
  <2> HIDE DEF s, recent, n
  <2>2. open.phase = "evaluating" /\ open.evalToken = n
    BY <1>3, ClearFacts DEF RuleRec
  <2>3. /\ noted.phase = s.phase /\ noted.evalToken = s.evalToken /\ noted.evalHoles = s.evalHoles
        /\ noted.probation = s.probation
    BY <1>3 DEF RuleRec
  <2>4. Reenter(s).phase = "cooldown"
    BY <1>1, <1>3, ReenterFacts
  <2> HIDE DEF open, noted
  <2> QED
    BY <1>1, <1>2, <2>1, <2>2, <2>3, <2>4 DEF Quiet, Steady
<1>5. CASE BeginBlackhole(g)
  <2> DEFINE opened == [s EXCEPT !.phase = "evaluating", !.evalToken = n, !.evalInFlight = 0,
                                 !.evalHoles = {}, !.committed = {}, !.owned = TRUE]
             join(b) == [b EXCEPT !.evalHoles = @ \cup {g}]
             first(b) == [join(b) EXCEPT !.evalInFlight = 1, !.evalDeadline = Grace]
             more == [s EXCEPT !.armInFlight = s.armInFlight + 1]
  <2>1. \/ s.phase = "closed" /\ rule' = first(opened)
        \/ s.phase = "evaluating" /\ rule' \in {first(s), join(s)}
        \/ s.phase \in {"probation", "cooldown"} /\ rule' = Reenter(s)
        \/ s.phase = "cooldown" /\ rule' \in {more, s}
    BY <1>5 DEF BeginBlackhole
  <2> HIDE DEF s, n
  <2>2. first(opened).phase = "evaluating" /\ first(opened).evalToken = n
    BY <1>3 DEF RuleRec
  <2>3. /\ first(s).phase = s.phase /\ s.evalHoles \subseteq first(s).evalHoles
        /\ join(s).phase = s.phase /\ s.evalHoles \subseteq join(s).evalHoles
    BY <1>3 DEF RuleRec
  <2>4. Reenter(s).phase = "cooldown"
    BY <1>1, <1>3, ReenterFacts
  <2>5. more.phase = s.phase /\ more.evalHoles = s.evalHoles
    BY <1>3 DEF RuleRec
  <2> HIDE DEF opened, join, first, more
  <2> QED
    BY <1>1, <1>2, <2>1, <2>2, <2>3, <2>4, <2>5 DEF Quiet, Steady
<1>6. CASE \/ BlackholeUpgrade(g) \/ Heal(g) \/ CheckScopes(g, from, retain, next)
           \/ Drain(g) \/ TakeSample(g, from)
  BY <1>6 DEF BlackholeUpgrade, Heal, CheckScopes, Drain, TakeSample, Quiet, Steady
<1>10. CASE NoteBadSample(g)
  BY <1>1, <1>10, ResetIsQuiet DEF NoteBadSample
<1>7. CASE ProbeDial(g)
  BY <1>1, <1>7, LeaveIsQuiet DEF ProbeDial, Evaluating, Quiet, Steady
<1>8. CASE TakeForProbe(g)
  BY <1>1, <1>8 DEF TakeForProbe, RuleRec, Quiet, Steady
<1>9. CASE FinishProbe(g)
  <2>1. (IF mnt[g].st = "arm" THEN mnt[g].armed ELSE Armable({g})) \in BOOLEAN
    BY <1>1 DEF MntRec, Armable
  <2> QED
    BY <1>1, <1>9, <2>1, ArmingIsQuiet DEF FinishProbe
<1> QED
  BY <1>4, <1>5, <1>6, <1>7, <1>8, <1>9, <1>10

LEMMA OtherIsQuiet ==
    ASSUME IInv, ExpireEvaluation \/ Tick \/ UNCHANGED vars
    PROVE  Quiet(rule, rule') /\ Steady(rule, rule')
<1>1. rule \in RuleRec(nextToken) /\ nextToken \in Nat
  BY Facts DEF IInv
<1>2. CASE ExpireEvaluation
  BY <1>1, <1>2, ResetIsQuiet DEF ExpireEvaluation, Expired
<1>3. CASE Tick
  <2>1. rule.probation \in ProbationRec(nextToken)
    BY <1>1 DEF RuleRec
  <2>2. /\ rule'.phase = rule.phase /\ rule'.evalHoles = rule.evalHoles
        /\ rule'.probation.token = rule.probation.token
        /\ rule'.probation.gen = rule.probation.gen
    BY <1>1, <1>3, <2>1 DEF Tick, RuleRec, ProbationRec
  <2> QED
    BY <2>2 DEF Quiet, Steady
<1>4. CASE UNCHANGED vars
  BY <1>4 DEF vars, Quiet, Steady
<1> QED
  BY <1>2, <1>3, <1>4

\* The steps that are not quiet are the reports of a cohort, the samples of a
\* probation and the second half of a check.
LEMMA LoudSteps ==
    ASSUME IInv, [Next]_vars
    PROVE  \/ /\ Quiet(rule, rule')
              /\ \/ Steady(rule, rule')
                 \/ \E q \in Request : ProbeConnects(q) \/ \E k \in Key : BeginProbation(q, k)
           \/ \E q \in Request, reachable \in BOOLEAN : ObserveValidation(q, reachable)
           \/ \E g \in Gen, reachable \in BOOLEAN : CompleteValidation(g, reachable)
           \/ \E enough \in BOOLEAN : NoteSample(enough)
           \/ \E g \in Gen : RetainScopes(g, "retain1", "dial") \/ RetainScopes(g, "retain2", "complete")
<1>1. ASSUME NEW q \in Request, NEW k \in Key, ClaimRouteProbe(q, k) \/ BeginProbation(q, k)
      PROVE  /\ Quiet(rule, rule')
             /\ Steady(rule, rule') \/ BeginProbation(q, k)
  BY <1>1, ClaimIsQuiet
<1>2. ASSUME NEW q \in Request,
             \/ JoinEvaluation(q) \/ CloseTunnel(q) \/ ProbeConnects(q) \/ ProbeFails(q)
             \/ ReleaseRouteProbe(q) \/ TakeCommitted(q) \/ FinishRequest(q)
      PROVE  Quiet(rule, rule') /\ (Steady(rule, rule') \/ ProbeConnects(q))
  BY <1>2, RequestIsQuiet
<1>3. ASSUME NEW g \in Gen,
             \/ NoteDegradation(g) \/ BlackholeUpgrade(g) \/ BeginBlackhole(g) \/ Heal(g)
             \/ Drain(g) \/ NoteBadSample(g)
             \/ \E kind \in {"healthy", "poor", "unsampled"} : TakeSample(g, kind)
             \/ CheckScopes(g, "check1", "retain1", "dial")
             \/ CheckScopes(g, "check2", "retain2", "complete")
             \/ ProbeDial(g) \/ TakeForProbe(g) \/ FinishProbe(g)
      PROVE  Quiet(rule, rule') /\ Steady(rule, rule')
  BY <1>3, GenIsQuiet
<1>4. CASE ExpireEvaluation \/ Tick \/ UNCHANGED vars
  BY <1>4, OtherIsQuiet
<1> QED
  BY <1>1, <1>2, <1>3, <1>4 DEF Next, RequestReturns, Maintain

LEMMA RetainOutcome ==
    ASSUME NEW n \in Nat, rule \in RuleRec(n), rule.phase = "evaluating",
           NEW g, NEW from, NEW next, Evaluating(mnt[g].token), RetainScopes(g, from, next)
    PROVE  \/ rule'.phase = "closed"
           \/ /\ rule'.phase = "evaluating"
              /\ rule'.evalHoles = rule.evalHoles \ mnt[g].stale
<1> DEFINE t == [rule EXCEPT !.evalHoles = rule.evalHoles \ mnt[g].stale]
           less == [t EXCEPT !.evalInFlight = IF t.evalInFlight > 0 THEN t.evalInFlight - 1 ELSE 0]
<1>1. rule' \in {t, FailOpen(t), less}
  BY DEF RetainScopes, Leave
<1>2. /\ t \in RuleRec(n) /\ t.phase = "evaluating"
      /\ t.evalHoles = rule.evalHoles \ mnt[g].stale
  BY DEF RuleRec
<1> HIDE DEF t
<1>3. less.phase = t.phase /\ less.evalHoles = t.evalHoles
  BY <1>2 DEF RuleRec
<1> HIDE DEF less
<1>4. FailOpen(t).phase = "closed"
  BY <1>2, FailOpenFacts
<1> QED
  BY <1>1, <1>2, <1>3, <1>4

-----------------------------------------------------------------------------
(* Samples and the probations they belong to. *)

SampleRec(n) ==
    [gen : Gen, kind : {"healthy", "poor", "unsampled"}, token : 0..n, elapsed : 0..MaxDuration]

\* No two requests have the same probation, and one that still dials has no connection.
ProbesApart ==
    \A q, r \in Request :
        /\ req[q].st \in {"probe", "tunnel"} /\ req[r].st \in {"probe", "tunnel"}
        /\ req[q].token = req[r].token
        => q = r
ProbesUnbound == \A q \in Request : req[q].st = "probe" => req[q].gen = None

\* A sample that was read in the probation of now was read after it had been bound to
\* a connection, and if it is of that one, the connection is still well.
SampleFits ==
    rule.phase = "probation" =>
        /\ rule.probation.token # 0
        /\ sample.token = rule.probation.token =>
              /\ rule.probation.gen # None
              /\ sample.gen = rule.probation.gen => conn[sample.gen] = "ok"

SamplesOK ==
    /\ serving \in SUBSET Gen
    /\ sample = NoSample \/ sample \in SampleRec(nextToken)
    /\ ProbesApart /\ ProbesUnbound
    /\ SampleFits

\* What a request does apart from BeginProbation and ProbeConnects.
ReqSteady ==
    \A q \in Request : req'[q].st \in {"probe", "tunnel"} =>
        req'[q].st = req[q].st /\ req'[q].token = req[q].token /\ req'[q].gen = req[q].gen

\* A connection degrades, and the probation on it is over.
ConnSteady ==
    \A g \in Gen : conn[g] = "ok" =>
        conn'[g] = "ok" \/ ~(rule'.phase = "probation" /\ rule'.probation.gen = g)

LEMMA OneReqSteady ==
    ASSUME NEW n, req \in [Request -> ReqRec(n)], NEW q \in Request, NEW r,
           req' = [req EXCEPT ![q] = r], r.st \notin {"probe", "tunnel"}
    PROVE  ReqSteady
BY DEF ReqSteady

LEMMA RequestsAreSteady ==
    ASSUME IInv, [Next]_vars
    PROVE  \/ ReqSteady
           \/ \E q \in Request : ProbeConnects(q) \/ \E k \in Key : BeginProbation(q, k)
<1>1. req \in [Request -> ReqRec(nextToken)] /\ \A q \in Request : req[q] \in ReqRec(nextToken)
  BY Facts DEF IInv
<1>2. CASE req' = req
  BY <1>2 DEF ReqSteady
<1>3. ASSUME NEW q \in Request,
             \/ ProbeFails(q) \/ CloseTunnel(q) \/ ReleaseRouteProbe(q) \/ FinishRequest(q)
      PROVE  ReqSteady
  <2>1. req' = [req EXCEPT ![q] = Idle]
    BY <1>3 DEF ProbeFails, CloseTunnel, ReleaseRouteProbe, FinishRequest
  <2> QED
    BY <1>1, <2>1, OneReqSteady DEF Idle
<1>4. ASSUME NEW q \in Request, NEW k \in Key, ClaimRouteProbe(q, k) PROVE ReqSteady
  <2> DEFINE r == [Idle EXCEPT !.st = "leased", !.token = nextToken + 1, !.key = k]
  <2>1. req' = [req EXCEPT ![q] = r]
    BY <1>4 DEF ClaimRouteProbe
  <2>2. r.st = "leased"
    BY DEF Idle
  <2> HIDE DEF r
  <2> QED
    BY <1>1, <2>1, <2>2, OneReqSteady
<1>5. ASSUME NEW q \in Request, JoinEvaluation(q) PROVE ReqSteady
  <2> DEFINE r == [Idle EXCEPT !.st = "validate", !.token = rule.evalToken]
  <2>1. req' = [req EXCEPT ![q] = r]
    BY <1>5 DEF JoinEvaluation
  <2>2. r.st = "validate"
    BY DEF Idle
  <2> HIDE DEF r
  <2> QED
    BY <1>1, <2>1, <2>2, OneReqSteady
<1>6. ASSUME NEW q \in Request, NEW reachable \in BOOLEAN, ObserveValidation(q, reachable)
      PROVE  ReqSteady
  <2> DEFINE taking == [req[q] EXCEPT !.st = "take"]
  <2>1. req' = [req EXCEPT ![q] = taking] \/ req' = [req EXCEPT ![q] = Idle]
    BY <1>1, <1>6 DEF ObserveValidation
  <2>2. taking.st = "take" /\ Idle.st = "idle"
    BY <1>1 DEF ReqRec, Idle
  <2> HIDE DEF taking
  <2> QED
    BY <1>1, <2>1, <2>2, OneReqSteady
<1>7. ASSUME NEW q \in Request, TakeCommitted(q) PROVE ReqSteady
  <2> DEFINE done == [req[q] EXCEPT !.st = "finish", !.armed = Armable(rule.committed)]
  <2>1. req' = [req EXCEPT ![q] = done] \/ req' = [req EXCEPT ![q] = Idle]
    BY <1>1, <1>7 DEF TakeCommitted
  <2>2. done.st = "finish" /\ Idle.st = "idle"
    BY <1>1 DEF ReqRec, Idle
  <2> HIDE DEF done
  <2> QED
    BY <1>1, <2>1, <2>2, OneReqSteady
<1>8. ASSUME NEW g \in Gen,
             \/ Maintain(g) \/ NoteDegradation(g) \/ BlackholeUpgrade(g) \/ BeginBlackhole(g)
             \/ Heal(g) \/ Drain(g) \/ NoteBadSample(g)
             \/ \E kind \in {"healthy", "poor", "unsampled"} : TakeSample(g, kind)
      PROVE  req' = req
  BY <1>8 DEF Maintain, CheckScopes, RetainScopes, ProbeDial, CompleteValidation, TakeForProbe,
     FinishProbe, NoteDegradation, BlackholeUpgrade, BeginBlackhole, Heal, Drain,
     NoteBadSample, TakeSample
<1>9. ASSUME \/ \E enough \in BOOLEAN : NoteSample(enough)
             \/ ExpireEvaluation \/ Tick \/ UNCHANGED vars
      PROVE  req' = req
  BY <1>9 DEF NoteSample, ExpireEvaluation, Tick, vars
<1> QED
  BY <1>2, <1>3, <1>4, <1>5, <1>6, <1>7, <1>8, <1>9 DEF Next, RequestReturns

LEMMA ConnectionsAreSteady ==
    ASSUME IInv, [Next]_vars
    PROVE  ConnSteady
<1>1. conn \in ConnMap /\ rule \in RuleRec(nextToken) /\ nextToken \in Nat
  BY Facts DEF IInv
<1>2. CASE conn' = conn
  BY <1>2 DEF ConnSteady
<1>3. ASSUME NEW g \in Gen, NoteDegradation(g) PROVE ConnSteady
  <2> DEFINE s == Expire(rule)
             recent == [s.recent EXCEPT ![g] = Window]
             open == [Clear(s) EXCEPT !.phase = "evaluating", !.failures = 0, !.retryIn = 0,
                                      !.recent = recent, !.evalToken = nextToken + 1]
             noted == [s EXCEPT !.recent = recent]
  <2>1. PICK c : conn' = [conn EXCEPT ![g] = c]
    BY <1>3 DEF NoteDegradation
  <2>2. \/ rule' = Reenter(s)
        \/ /\ ~(s.phase = "probation" /\ s.probation.gen = g)
           /\ rule' = s \/ rule' = open \/ rule' = noted
    BY <1>3 DEF NoteDegradation
  <2>3. s \in RuleRec(nextToken)
    BY ExpireKeeps, Facts DEF IInv
  <2> HIDE DEF s, recent
  <2>4. Reenter(s).phase = "cooldown"
    BY <1>1, <2>3, ReenterFacts
  <2>5. open.phase = "evaluating"
    BY <1>1, <2>3, ClearFacts DEF RuleRec
  <2>6. noted.phase = s.phase /\ noted.probation = s.probation
    BY <2>3 DEF RuleRec
  <2> HIDE DEF open, noted
  <2>7. ~(rule'.phase = "probation" /\ rule'.probation.gen = g)
    BY <2>2, <2>4, <2>5, <2>6
  <2> QED
    BY <1>1, <2>1, <2>7 DEF ConnSteady, ConnMap
<1>4. ASSUME NEW g \in Gen, BlackholeUpgrade(g) \/ BeginBlackhole(g) \/ Heal(g) PROVE ConnSteady
  <2>1. conn[g] # "ok" /\ \E c : conn' = [conn EXCEPT ![g] = c]
    BY <1>4 DEF BlackholeUpgrade, BeginBlackhole, Heal
  <2> QED
    BY <1>1, <2>1 DEF ConnSteady, ConnMap
<1>5. ASSUME NEW g \in Gen,
             \/ Maintain(g) \/ Drain(g) \/ NoteBadSample(g)
             \/ \E kind \in {"healthy", "poor", "unsampled"} : TakeSample(g, kind)
      PROVE  conn' = conn
  BY <1>5 DEF Maintain, CheckScopes, RetainScopes, ProbeDial, CompleteValidation, TakeForProbe,
     FinishProbe, Drain, NoteBadSample, TakeSample
<1>6. ASSUME NEW q \in Request,
             \/ JoinEvaluation(q) \/ CloseTunnel(q) \/ RequestReturns(q)
             \/ \E k \in Key : ClaimRouteProbe(q, k) \/ BeginProbation(q, k)
      PROVE  conn' = conn
  BY <1>6 DEF JoinEvaluation, CloseTunnel, RequestReturns, ProbeConnects, ProbeFails,
     ReleaseRouteProbe, ObserveValidation, TakeCommitted, FinishRequest, ClaimRouteProbe,
     BeginProbation
<1>7. ASSUME \/ \E enough \in BOOLEAN : NoteSample(enough)
             \/ ExpireEvaluation \/ Tick \/ UNCHANGED vars
      PROVE  conn' = conn
  BY <1>7 DEF NoteSample, ExpireEvaluation, Tick, vars
<1> QED
  BY <1>2, <1>3, <1>4, <1>5, <1>6, <1>7 DEF Next

\* The report of a member, to the evaluation it belongs to or to none.
LEMMA ReportOutcome ==
    ASSUME IInv,
           \/ \E q \in Request, reachable \in BOOLEAN : ObserveValidation(q, reachable)
           \/ \E g \in Gen, reachable \in BOOLEAN : CompleteValidation(g, reachable)
    PROVE  \/ rule' = rule
           \/ rule.phase = "evaluating" /\ rule'.phase \in {"closed", "cooldown"}
           \/ /\ rule.phase = "evaluating" /\ rule'.phase = "evaluating"
              /\ rule'.evalHoles = rule.evalHoles
<1> DEFINE less == [rule EXCEPT !.evalInFlight = rule.evalInFlight - 1]
           ended == [CommitCooldown(rule) EXCEPT !.commitToken = rule.evalToken, !.armInFlight = 1]
<1>1. rule \in RuleRec(nextToken) /\ nextToken \in Nat
  BY Facts DEF IInv
<1>2. \/ rule' = rule
      \/ rule.phase = "evaluating" /\ rule' \in {FailOpen(rule), CommitCooldown(rule), ended, less}
  <2>1. CASE \E q \in Request, reachable \in BOOLEAN : ObserveValidation(q, reachable)
    BY <2>1 DEF ObserveValidation, Validating
  <2>2. CASE \E g \in Gen, reachable \in BOOLEAN : CompleteValidation(g, reachable)
    BY <2>2 DEF CompleteValidation, Validating
  <2> QED
    BY <2>1, <2>2
<1>3. FailOpen(rule).phase = "closed"
  BY <1>1, FailOpenFacts
<1>4. rule.phase = "evaluating" =>
        CommitCooldown(rule).phase = "cooldown" /\ ended.phase = "cooldown"
  <2>1. ASSUME rule.phase = "evaluating" PROVE rule.evalToken # 0
    BY <2>1 DEF IInv, Inv, PhaseOK
  <2> QED
    BY <1>1, <2>1, CommitFacts DEF RuleRec
<1>5. less.phase = rule.phase /\ less.evalHoles = rule.evalHoles
  BY <1>1 DEF RuleRec
<1> HIDE DEF less, ended
<1> QED
  BY <1>2, <1>3, <1>4, <1>5

LEMMA SamplePhases ==
    ASSUME NEW n \in Nat, rule \in RuleRec(n)
    PROVE  /\ Healed.phase = "closed" /\ Reenter(rule).phase = "cooldown"
           /\ \A k \in 0..HealthyCount :
                /\ Counting(k).phase = rule.phase
                /\ Counting(k).probation.token = rule.probation.token
                /\ Counting(k).probation.gen = rule.probation.gen
<1>1. FailOpen(rule) \in RuleRec(n) /\ FailOpen(rule).phase = "closed" /\ Reenter(rule).phase = "cooldown"
  BY FailOpenFacts, ReenterFacts
<1>2. Healed.phase = "closed"
  BY <1>1 DEF Healed, RuleRec
<1>3. ASSUME NEW k \in 0..HealthyCount
      PROVE  /\ Counting(k).phase = rule.phase
             /\ Counting(k).probation.token = rule.probation.token
             /\ Counting(k).probation.gen = rule.probation.gen
  <2>1. rule.probation \in ProbationRec(n)
    BY DEF RuleRec
  <2> QED
    BY <2>1 DEF Counting, RuleRec, ProbationRec
<1> QED
  BY <1>1, <1>2, <1>3

LEMMA RuleIsSteady ==
    ASSUME IInv, [Next]_vars
    PROVE  \/ Steady(rule, rule')
           \/ \E q \in Request : ProbeConnects(q) \/ \E k \in Key : BeginProbation(q, k)
<1>1. rule \in RuleRec(nextToken) /\ nextToken \in Nat
  BY Facts DEF IInv
<1>2. ASSUME \/ \E q \in Request, reachable \in BOOLEAN : ObserveValidation(q, reachable)
             \/ \E g \in Gen, reachable \in BOOLEAN : CompleteValidation(g, reachable)
      PROVE  Steady(rule, rule')
  BY <1>2, ReportOutcome DEF Steady
<1>3. ASSUME NEW enough \in BOOLEAN, NoteSample(enough) PROVE Steady(rule, rule')
  <2>1. \/ rule' = rule \/ rule' = Healed \/ rule' = Reenter(rule)
        \/ \E k \in 0..HealthyCount : rule' = Counting(k)
    BY <1>1, <1>3, SampleOutcome
  <2> QED
    BY <1>1, <2>1, SamplePhases DEF Steady
<1>4. ASSUME NEW g \in Gen, NEW from, NEW next, RetainScopes(g, from, next)
      PROVE  Steady(rule, rule')
  <2>1. CASE ~Evaluating(mnt[g].token)
    BY <1>4, <2>1 DEF RetainScopes, Steady
  <2>2. CASE Evaluating(mnt[g].token)
    BY <1>1, <1>4, <2>2, RetainOutcome DEF Evaluating, Steady
  <2> QED
    BY <2>1, <2>2
<1> QED
  BY <1>2, <1>3, <1>4, LoudSteps

LEMMA SamplerSteps ==
    ASSUME IInv, [Next]_vars
    PROVE  /\ serving' \subseteq serving /\ nextToken' \in {nextToken, nextToken + 1}
           /\ \/ sample' = sample \/ sample' = NoSample
              \/ \E g \in Gen, kind \in {"healthy", "poor", "unsampled"} : TakeSample(g, kind)
<1>1. ASSUME NEW g \in Gen,
             \/ Maintain(g) \/ NoteDegradation(g) \/ BlackholeUpgrade(g) \/ BeginBlackhole(g)
             \/ NoteBadSample(g)
      PROVE  serving' = serving /\ sample' = sample /\ nextToken' \in {nextToken, nextToken + 1}
  <2>1. CASE Maintain(g)
    BY <2>1 DEF Maintain, CheckScopes, RetainScopes, ProbeDial, CompleteValidation, TakeForProbe,
       FinishProbe
  <2>2. CASE NoteDegradation(g)
    BY <2>2 DEF NoteDegradation
  <2>3. CASE BlackholeUpgrade(g) \/ NoteBadSample(g)
    BY <2>3 DEF BlackholeUpgrade, NoteBadSample
  <2>4. CASE BeginBlackhole(g)
    BY <2>4 DEF BeginBlackhole
  <2> QED
    BY <1>1, <2>1, <2>2, <2>3, <2>4
<1>2. ASSUME NEW g \in Gen,
             \/ Heal(g) \/ Drain(g)
             \/ \E kind \in {"healthy", "poor", "unsampled"} : TakeSample(g, kind)
      PROVE  /\ serving' \subseteq serving /\ nextToken' = nextToken
             /\ \/ sample' = sample
                \/ \E kind \in {"healthy", "poor", "unsampled"} : TakeSample(g, kind)
  BY <1>2 DEF Heal, Drain, TakeSample
<1>3. ASSUME NEW q \in Request,
             \/ JoinEvaluation(q) \/ CloseTunnel(q) \/ RequestReturns(q)
             \/ \E k \in Key : ClaimRouteProbe(q, k) \/ BeginProbation(q, k)
      PROVE  serving' = serving /\ sample' = sample /\ nextToken' \in {nextToken, nextToken + 1}
  BY <1>3 DEF JoinEvaluation, CloseTunnel, RequestReturns, ProbeConnects, ProbeFails,
     ReleaseRouteProbe, ObserveValidation, TakeCommitted, FinishRequest, ClaimRouteProbe,
     BeginProbation
<1>4. ASSUME \/ \E enough \in BOOLEAN : NoteSample(enough)
             \/ ExpireEvaluation \/ Tick \/ UNCHANGED vars
      PROVE  serving' = serving /\ sample' \in {sample, NoSample} /\ nextToken' = nextToken
  BY <1>4 DEF NoteSample, ExpireEvaluation, Tick, vars
<1> QED
  BY <1>1, <1>2, <1>3, <1>4 DEF Next

\* A sample that stays or is consumed, while the probation and its request stay too.
LEMMA SteadySamples ==
    ASSUME IInv, SamplesOK, Steady(rule, rule'), ReqSteady, ConnSteady,
           serving' \subseteq serving, nextToken' \in {nextToken, nextToken + 1},
           sample' = sample \/ sample' = NoSample
    PROVE  SamplesOK'
<1>1. nextToken \in Nat
  BY Facts DEF IInv
<1>2. sample' = NoSample \/ sample' \in SampleRec(nextToken')
  BY <1>1 DEF SamplesOK, SampleRec
<1>3. (serving \in SUBSET Gen)'
  BY DEF SamplesOK
<1>4. ProbesApart' /\ ProbesUnbound'
  BY DEF SamplesOK, ProbesApart, ProbesUnbound, ReqSteady
<1>5. SampleFits'
  <2> SUFFICES ASSUME rule'.phase = "probation"
               PROVE  /\ rule'.probation.token # 0
                      /\ sample'.token = rule'.probation.token =>
                            /\ rule'.probation.gen # None
                            /\ sample'.gen = rule'.probation.gen => conn'[sample'.gen] = "ok"
    BY DEF SampleFits
  <2>1. /\ rule.phase = "probation" /\ rule'.probation.token = rule.probation.token
        /\ rule'.probation.gen = rule.probation.gen
    BY DEF Steady
  <2>2. /\ rule.probation.token # 0
        /\ sample.token = rule.probation.token =>
              /\ rule.probation.gen # None
              /\ sample.gen = rule.probation.gen => conn[sample.gen] = "ok"
    BY <2>1 DEF SamplesOK, SampleFits
  <2>3. NoSample.token = 0
    BY DEF NoSample
  <2> SUFFICES ASSUME sample'.token = rule'.probation.token
               PROVE  /\ rule'.probation.gen # None
                      /\ sample'.gen = rule'.probation.gen => conn'[sample'.gen] = "ok"
    BY <2>1, <2>2
  <2>4. sample' = sample /\ sample.token # 0
    BY <2>1, <2>2, <2>3
  <2>5. sample.gen \in Gen
    BY <2>3, <2>4 DEF SamplesOK, SampleRec
  <2> QED
    BY <2>1, <2>2, <2>4, <2>5 DEF ConnSteady
<1> QED
  BY <1>2, <1>3, <1>4, <1>5 DEF SamplesOK

\* A new probation is younger than every sample.
LEMMA BeginSamples ==
    ASSUME IInv, SamplesOK, NEW q \in Request, NEW k, BeginProbation(q, k)
    PROVE  SamplesOK'
<1> DEFINE n == nextToken + 1
           r == [Idle EXCEPT !.st = "probe", !.token = n, !.key = k]
<1>1. /\ nextToken \in Nat /\ rule \in RuleRec(nextToken)
      /\ req \in [Request -> ReqRec(nextToken)]
  BY Facts DEF IInv
<1>2. /\ nextToken' = n /\ req' = [req EXCEPT ![q] = r]
      /\ serving' = serving /\ sample' = sample
  BY DEF BeginProbation
<1>3. rule'.probation.token = n
  <2> DEFINE b == [NoProbation EXCEPT !.token = n, !.key = k]
  <2>1. rule' = [Clear(rule) EXCEPT !.phase = "probation", !.probation = b]
    BY DEF BeginProbation
  <2>2. b.token = n
    BY DEF NoProbation
  <2>3. Clear(rule) \in RuleRec(nextToken)
    BY <1>1, ClearFacts
  <2> HIDE DEF b
  <2> QED
    BY <2>1, <2>2, <2>3 DEF RuleRec
<1>4. r.st = "probe" /\ r.token = n /\ r.gen = None
  BY DEF Idle
<1>5. \A p \in Request : req[p].token \in 0..nextToken
  BY <1>1 DEF ReqRec
<1>6. req'[q] = r /\ \A p \in Request \ {q} : req'[p] = req[p]
  BY <1>1, <1>2
<1> HIDE DEF r
<1>7. ProbesApart'
  BY <1>1, <1>4, <1>5, <1>6 DEF SamplesOK, ProbesApart
<1>8. ProbesUnbound'
  BY <1>4, <1>6 DEF SamplesOK, ProbesUnbound
<1>9. sample.token \in 0..nextToken
  BY <1>1 DEF SamplesOK, SampleRec, NoSample
<1>10. SampleFits'
  BY <1>1, <1>2, <1>3, <1>9 DEF SampleFits
<1>11. sample' = NoSample \/ sample' \in SampleRec(nextToken')
  BY <1>1, <1>2 DEF SamplesOK, SampleRec
<1> QED
  BY <1>2, <1>7, <1>8, <1>10, <1>11 DEF SamplesOK

\* The probation is bound to a connection once, and no sample is of it yet.
LEMMA ConnectSamples ==
    ASSUME IInv, SamplesOK, NEW q \in Request, ProbeConnects(q)
    PROVE  SamplesOK'
<1>1. /\ nextToken \in Nat /\ rule \in RuleRec(nextToken) /\ conn \in ConnMap
      /\ req \in [Request -> ReqRec(nextToken)]
  BY Facts DEF IInv
<1>2. /\ req[q].st = "probe" /\ nextToken' = nextToken /\ conn' = conn
      /\ serving' = serving /\ sample' = sample
  BY DEF ProbeConnects
<1>3. CASE ~Probation(req[q].token)
  <2>1. rule' = rule /\ req' = [req EXCEPT ![q] = Idle]
    BY <1>3 DEF ProbeConnects
  <2>2. Steady(rule, rule') /\ ReqSteady /\ ConnSteady
    BY <1>1, <1>2, <2>1, OneReqSteady DEF Steady, ConnSteady, Idle
  <2> QED
    BY <1>2, <2>2, SteadySamples
<1>4. CASE Probation(req[q].token)
  <2>1. PICK g \in Gen :
          /\ rule' = [rule EXCEPT !.probation = [rule.probation EXCEPT !.gen = g, !.elapsed = 0]]
          /\ req' = [req EXCEPT ![q] = [req[q] EXCEPT !.st = "tunnel", !.gen = g]]
    BY <1>1, <1>4 DEF ProbeConnects
  <2>2. rule.phase = "probation" /\ rule.probation.token = req[q].token
    BY <1>4 DEF Probation
  <2>3. rule.probation.gen = None
    <3>1. PICK p \in Request : Owns(rule, req[p])
      BY <2>2 DEF IInv, Inv, OwnersOK
    <3>2. p = q
      BY <1>2, <2>2, <3>1 DEF SamplesOK, ProbesApart, Owns
    <3> QED
      BY <1>2, <3>1, <3>2 DEF SamplesOK, ProbesUnbound, Owns
  <2>4. sample.token # rule.probation.token /\ rule.probation.token # 0
    BY <2>2, <2>3 DEF SamplesOK, SampleFits
  <2>5. rule'.probation.token = rule.probation.token
    <3>1. rule.probation \in ProbationRec(nextToken)
      BY <1>1 DEF RuleRec
    <3> QED
      BY <1>1, <2>1, <3>1 DEF RuleRec, ProbationRec
  <2>6. SampleFits'
    BY <1>2, <2>4, <2>5 DEF SampleFits
  <2>7. /\ req'[q].st = "tunnel" /\ req'[q].token = req[q].token
        /\ \A p \in Request \ {q} : req'[p] = req[p]
    BY <1>1, <2>1 DEF ReqRec
  <2>8. ProbesApart' /\ ProbesUnbound'
    BY <1>2, <2>7 DEF SamplesOK, ProbesApart, ProbesUnbound
  <2>9. sample' = NoSample \/ sample' \in SampleRec(nextToken')
    BY <1>2 DEF SamplesOK
  <2> QED
    BY <1>2, <2>6, <2>8, <2>9 DEF SamplesOK
<1> QED
  BY <1>3, <1>4

LEMMA TakeSamples ==
    ASSUME IInv, SamplesOK, NEW g \in Gen, NEW kind \in {"healthy", "poor", "unsampled"},
           TakeSample(g, kind)
    PROVE  SamplesOK'
<1> DEFINE p == rule.probation
           k == IF p.gen # None THEN p.token ELSE 0
           x == [gen |-> g, kind |-> kind, token |-> k, elapsed |-> p.elapsed]
<1>1. /\ sample' = x /\ conn[g] = "ok" /\ rule' = rule /\ nextToken' = nextToken
      /\ req' = req /\ conn' = conn /\ serving' = serving
  BY DEF TakeSample
<1>2. p \in ProbationRec(nextToken) /\ nextToken \in Nat
  BY Facts DEF IInv, RuleRec
<1>3. x \in SampleRec(nextToken)
  BY <1>2 DEF ProbationRec, SampleRec
<1>4. ProbesApart' /\ ProbesUnbound'
  BY <1>1 DEF SamplesOK, ProbesApart, ProbesUnbound
<1>5. SampleFits'
  BY <1>1 DEF SamplesOK, SampleFits
<1> QED
  BY <1>1, <1>3, <1>4, <1>5 DEF SamplesOK

LEMMA SamplesKeep ==
    ASSUME IInv, SamplesOK, [Next]_vars
    PROVE  SamplesOK'
<1>1. ASSUME NEW q \in Request, NEW k \in Key, BeginProbation(q, k) PROVE SamplesOK'
  BY <1>1, BeginSamples
<1>2. ASSUME NEW q \in Request, ProbeConnects(q) PROVE SamplesOK'
  BY <1>2, ConnectSamples
<1>3. ASSUME NEW g \in Gen, NEW kind \in {"healthy", "poor", "unsampled"}, TakeSample(g, kind)
      PROVE  SamplesOK'
  BY <1>3, TakeSamples
<1> QED
  BY <1>1, <1>2, <1>3, SamplerSteps, RuleIsSteady, RequestsAreSteady, ConnectionsAreSteady,
     SteadySamples

\* Samples and probations belong together in every state.
THEOREM SampleInvariance == Spec => []SamplesOK
<1>1. Init => SamplesOK
  BY DEF Init, SamplesOK, ProbesApart, ProbesUnbound, SampleFits, Idle, Closed
<1>2. IInv /\ SamplesOK /\ [Next]_vars => SamplesOK'
  BY SamplesKeep
<1> QED
  BY <1>1, <1>2, Invariance, PTL DEF Spec

\* The counters of an evaluation and of the arming after it count exactly those that
\* will still report with its token (beginWithLease, observeValidation,
\* retainUDPBlackholeEvaluationScopes, finishUDPBlackholeArming).
THEOREM CohortsAreExact == Spec => []CohortExact
<1> DEFINE C == Cardinality(Request) + Cardinality(Gen)
<1>1. ASSUME IInv, SamplesOK PROVE CohortExact
  <2>0. Inv(nextToken, rule, req, mnt, conn)
    BY <1>1 DEF IInv
  <2>1. /\ rule.phase = "evaluating" =>
             rule.evalInFlight = Cardinality(HoldersIn(req, mnt, rule.evalToken, EvalStages))
        /\ rule.commitToken # 0 =>
             rule.armInFlight = Cardinality(HoldersIn(req, mnt, rule.commitToken, ArmStages))
    BY <2>0 DEF Inv, CountersOK
  <2>2. \A token, stages : Holders(token, stages) = HoldersIn(req, mnt, token, stages)
    BY DEF Holders, HoldersIn
  <2>3. Cardinality(HoldersIn(req, mnt, rule.evalToken, EvalStages)) \in 0..C
        /\ Cardinality(HoldersIn(req, mnt, rule.commitToken, ArmStages)) \in 0..C
    BY HoldersFinite
  <2>4. 0 \in 0..C
    BY RuleAssumption, FS_CardinalityType
  <2> HIDE DEF C
  <2>5. rule.evalInFlight \in 0..C /\ rule.armInFlight \in 0..C
    BY <2>0, <2>1, <2>3, <2>4 DEF Inv, PhaseOK
  <2>6. Typed(nextToken, rule, req, mnt, conn)
    BY <2>0 DEF Inv
  <2>7. TypeOK
    <3>1. rule \in RuleRec(nextToken)
      BY <2>6 DEF Typed
    <3>2. /\ rule.phase \in {"closed", "evaluating", "cooldown", "probation"}
          /\ rule.failures \in 0..Len(Steps) /\ rule.retryIn \in Nat
          /\ rule.recent \in [Gen -> 0..Window]
          /\ rule.probation \in ProbationRec(nextToken)
      BY <3>1 DEF RuleRec
    <3>3. /\ {rule.evalToken, rule.commitToken, rule.routeToken} \subseteq 0..nextToken
          /\ rule.evalDeadline \in Off..Grace /\ {rule.evalHoles, rule.committed} \subseteq SUBSET Gen
          /\ {rule.owned, rule.armed} \subseteq BOOLEAN /\ rule.routeKey \in Key \cup {None}
      BY <3>1 DEF RuleRec
    <3>4. {rule.evalInFlight, rule.armInFlight} \subseteq 0..(Cardinality(Request) + Cardinality(Gen))
      BY <2>5 DEF C
    <3>5. serving \in SUBSET Gen
      BY <1>1 DEF SamplesOK
    <3>6. sample \in [gen : Gen \cup {None}, kind : {"none", "healthy", "poor", "unsampled"},
                      token : 0..nextToken, elapsed : 0..MaxDuration]
      <4>1. nextToken \in Nat /\ MaxDuration \in Nat
        BY <2>6, ConstantsTyped DEF Typed
      <4> QED
        BY <1>1, <4>1 DEF SamplesOK, SampleRec, NoSample
    <3> QED
      BY <2>6, <3>2, <3>3, <3>4, <3>5, <3>6
      DEF TypeOK, Typed, ProbationRec, ReqRec, MntRec, ConnMap
  <2> QED
    BY <2>1, <2>2, <2>7 DEF CohortExact, EvalStages, ArmStages
<1> QED
  BY <1>1, Invariance, SampleInvariance, PTL

\* A rule on probation has the one request that will end it, and a lease that keeps
\* others from HTTP/3 has the selector that will use or release it (dialForRule).
THEOREM ProbationsAreOwned == Spec => []ProbationOwned
<1>1. ASSUME IInv PROVE ProbationOwned
  BY <1>1 DEF IInv, Inv, OwnersOK, Owns, Leases, ProbationOwned
<1> QED
  BY <1>1, Invariance, PTL

\* The cooldown is entered on the word of a member of the cohort under evaluation,
\* before its deadline.  HTTP/3 returns on a healthy sample of the connection of the
\* open probation tunnel, read in this very probation and late enough in it, and that
\* connection has not degraded; however long the sample was on its way
\* (observeValidation, completeUDPBlackholeValidation, establish, noteSample).
THEOREM EvidenceCountsForItsOwn == Spec => EvidenceIsOwn
<1> DEFINE Step ==
      /\ (rule.phase = "evaluating" /\ rule'.phase = "cooldown") =>
            /\ rule.evalDeadline # 0
            /\ \/ \E q \in Request : req[q].token = rule.evalToken /\ req'[q].st = "take"
               \/ \E g \in Gen : mnt[g].token = rule.evalToken /\ mnt'[g].st = "take"
      /\ (rule.phase = "probation" /\ rule'.phase = "closed") =>
            /\ sample.kind = "healthy" /\ sample.elapsed >= MinDuration
            /\ conn[sample.gen] = "ok"
            /\ \E q \in Request : /\ req[q].st = "tunnel" /\ req[q].gen = sample.gen
                                  /\ req[q].token = sample.token
                                  /\ sample.token = rule.probation.token
<1>1. ASSUME IInv, SamplesOK, [Next]_vars PROVE Step
  <2>1. /\ rule \in RuleRec(nextToken) /\ nextToken \in Nat
        /\ req \in [Request -> ReqRec(nextToken)] /\ mnt \in [Gen -> MntRec(nextToken)]
    BY <1>1, Facts DEF IInv
  <2>2. CASE Quiet(rule, rule')
    BY <2>2 DEF Quiet
  <2>3. ASSUME NEW q \in Request, NEW reachable \in BOOLEAN, ObserveValidation(q, reachable)
        PROVE  Step
    <3>1. rule.phase = "probation" => rule' = rule
      BY <2>3 DEF ObserveValidation, Validating
    <3>2. ASSUME rule.phase = "evaluating", rule'.phase = "cooldown"
          PROVE  /\ rule.evalDeadline # 0
                 /\ req[q].token = rule.evalToken /\ req'[q].st = "take"
      <4>1. FailOpen(rule).phase = "closed"
        BY <2>1, FailOpenFacts
      <4>2. [rule EXCEPT !.evalInFlight = rule.evalInFlight - 1].phase = rule.phase
        BY <2>1 DEF RuleRec
      <4>3. Validating(req[q].token) /\ ~Expired(rule) /\ reachable
        BY <2>3, <3>2, <4>1, <4>2 DEF ObserveValidation
      <4>4. req' = [req EXCEPT ![q] = [req[q] EXCEPT !.st = "take"]]
        BY <2>1, <2>3, <4>3 DEF ObserveValidation
      <4> QED
        BY <2>1, <3>2, <4>3, <4>4 DEF Validating, Expired, ReqRec
    <3> QED
      BY <3>1, <3>2
  <2>4. ASSUME NEW g \in Gen, NEW reachable \in BOOLEAN, CompleteValidation(g, reachable)
        PROVE  Step
    <3>1. rule.phase = "probation" => rule' = rule
      BY <2>4 DEF CompleteValidation, Validating
    <3>2. ASSUME rule.phase = "evaluating", rule'.phase = "cooldown"
          PROVE  /\ rule.evalDeadline # 0
                 /\ mnt[g].token = rule.evalToken /\ mnt'[g].st = "take"
      <4>1. FailOpen(rule).phase = "closed"
        BY <2>1, FailOpenFacts
      <4>2. [rule EXCEPT !.evalInFlight = rule.evalInFlight - 1].phase = rule.phase
        BY <2>1 DEF RuleRec
      <4>3. Validating(mnt[g].token) /\ ~Expired(rule) /\ reachable
        BY <2>4, <3>2, <4>1, <4>2 DEF CompleteValidation
      <4>4. mnt' = [mnt EXCEPT ![g] = [mnt[g] EXCEPT !.st = "take"]]
        BY <2>1, <2>4, <4>3 DEF CompleteValidation
      <4> QED
        BY <2>1, <3>2, <4>3, <4>4 DEF Validating, Expired, MntRec
    <3> QED
      BY <3>1, <3>2
  <2>5. ASSUME NEW enough \in BOOLEAN, NoteSample(enough) PROVE Step
    <3> DEFINE p == rule.probation
    <3> SUFFICES ASSUME rule.phase = "probation", rule'.phase = "closed"
                 PROVE  /\ sample.kind = "healthy" /\ sample.elapsed >= MinDuration
                        /\ conn[sample.gen] = "ok"
                        /\ \E q \in Request : /\ req[q].st = "tunnel" /\ req[q].gen = sample.gen
                                              /\ req[q].token = sample.token
                                              /\ sample.token = p.token
      <4>1. ~(rule.phase = "evaluating" /\ rule'.phase = "cooldown")
        BY <2>1, <2>5, SampleOutcome DEF SampleMatches
      <4> QED
        BY <4>1
    <3>1. /\ SampleMatches(p) /\ Elapsed(p) >= MinDuration
          /\ CountHealthy(p) >= HealthyCount
      BY <2>1, <2>5, SampleOutcome, SamplePhases
    <3>2. sample.token = p.token /\ sample.elapsed >= MinDuration
      <4>1. MinDuration \in Nat
        BY RuleAssumption
      <4> QED
        BY <3>1, <4>1 DEF Elapsed
    <3>3. sample.kind = "healthy"
      BY <3>1, ConstantsTyped DEF CountHealthy
    <3>4. p.gen # None /\ sample.gen = p.gen /\ conn[sample.gen] = "ok"
      BY <1>1, <3>1, <3>2 DEF SamplesOK, SampleFits, SampleMatches
    <3>5. PICK q \in Request : Owns(rule, req[q])
      BY <1>1 DEF IInv, Inv, OwnersOK
    <3>6. req[q].st = "tunnel" /\ req[q].gen = sample.gen /\ req[q].token = sample.token
      BY <1>1, <3>2, <3>4, <3>5 DEF Owns, SamplesOK, ProbesUnbound
    <3> QED
      BY <3>2, <3>3, <3>4, <3>6
  <2>6. ASSUME NEW g \in Gen, NEW from, NEW next, RetainScopes(g, from, next)
        PROVE  Step
    <3>1. CASE ~Evaluating(mnt[g].token)
      BY <2>6, <3>1 DEF RetainScopes
    <3>2. CASE Evaluating(mnt[g].token)
      BY <2>1, <2>6, <3>2, RetainOutcome DEF Evaluating
    <3> QED
      BY <3>1, <3>2
  <2> HIDE DEF Step
  <2> QED
    BY <1>1, <2>2, <2>3, <2>4, <2>5, <2>6, LoudSteps
<1> QED
  BY <1>1, Invariance, SampleInvariance, PTL DEF Spec, EvidenceIsOwn

\* A black hole that joined an evaluation stays in it as long as it is one: what a
\* check takes out was gone when the check looked
\* (retainUDPBlackholeEvaluationScopes).
THEOREM JoinedHolesStay == Spec => JoinedHoleKept
<1> DEFINE Step ==
      \A g \in rule.evalHoles :
          conn[g] = "hole" /\ rule'.phase = "evaluating" /\ rule'.evalToken = rule.evalToken
              => g \in rule'.evalHoles
<1>1. ASSUME IInv, [Next]_vars PROVE Step
  <2>1. /\ rule \in RuleRec(nextToken) /\ nextToken \in Nat
        /\ mnt \in [Gen -> MntRec(nextToken)] /\ StaleOK(mnt, conn)
    BY <1>1, Facts DEF IInv
  <2>2. CASE Quiet(rule, rule')
    BY <2>2 DEF Quiet
  <2>3. ASSUME \/ \E q \in Request, reachable \in BOOLEAN : ObserveValidation(q, reachable)
               \/ \E g \in Gen, reachable \in BOOLEAN : CompleteValidation(g, reachable)
        PROVE  Step
    BY <1>1, <2>3, ReportOutcome
  <2>5. ASSUME NEW enough \in BOOLEAN, NoteSample(enough) PROVE Step
    BY <2>1, <2>5, SampleOutcome, SamplePhases DEF SampleMatches
  <2>4. ASSUME NEW g \in Gen, NEW from, NEW next, RetainScopes(g, from, next)
        PROVE  Step
    <3>1. CASE ~Evaluating(mnt[g].token)
      BY <2>4, <3>1 DEF RetainScopes
    <3>2. CASE Evaluating(mnt[g].token)
      <4>1. rule'.phase = "closed" \/ rule'.evalHoles = rule.evalHoles \ mnt[g].stale
        BY <2>1, <2>4, <3>2, RetainOutcome DEF Evaluating
      <4>2. \A h \in mnt[g].stale : conn[h] = "gone"
        BY <2>1 DEF StaleOK
      <4> QED
        BY <4>1, <4>2
    <3> QED
      BY <3>1, <3>2
  <2> HIDE DEF Step
  <2> QED
    BY <1>1, <2>2, <2>3, <2>4, <2>5, LoudSteps
<1> QED
  BY <1>1, Invariance, PTL DEF Spec, JoinedHoleKept
=============================================================================
