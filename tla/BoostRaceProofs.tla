-------------------------- MODULE BoostRaceProofs --------------------------
(***************************************************************************)
(* The safety of a routing decision for every finite set of targets and    *)
(* every target budget: its bounds, its leases, its outcome, and that it   *)
(* implements RaceOutcome.                                                 *)
(***************************************************************************)
EXTENDS BoostRace, FiniteSetTheorems, TLAPS

\* The parts of the invariant take the racer's variables r and the attempts a
\* as parameters: Collect and HedgeReady hand intermediate values of both to
\* Launch, and the parts hold of those values as well.
ActiveIn(a) == {t \in Target : a[t].st # "off"}

RaceType == [attempted : SUBSET Target, actual : 0..limit, hedging : BOOLEAN,
             delayedHedge : BOOLEAN, primaryFailed : BOOLEAN, stop : BOOLEAN,
             verdict : {"none", "failed", "neutral"}, timer : {"off", "idle", "armed"}]
AttType == [st : {"off", "admit", "check", "dial", "prepare", "sent"},
            delayed : BOOLEAN, res : Result]

\* Where a decision is and what it has done so far.
Early == {"claim", "claimed", "probed", "lookup", "start"}
StageOK ==
    /\ step \in Early => race = NewRace /\ att = [t \in Target |-> Off] /\ dialed = {}
    /\ winner # NoTarget => step \in {"draining", "returned", "over"}
    /\ step = "draining" /\ winner = NoTarget => ctxDone
    /\ result = "pending" <=> step \notin {"returned", "over"}
    /\ result = "won" <=> result # "pending" /\ winner # NoTarget
    /\ step \in {"returned", "over"} => Active = {}
    /\ kind = "boost" <=> step \in {"claim", "claimed", "probed", "lookup"}
    /\ kind = "cached" => cached \in Target /\ recovery = NoTarget
    /\ kind \in {"boost", "cached"} /\ result = "pending" => cache = cached
    /\ step \in {"claimed", "probed"} => recovery \in Target
    /\ step \in {"claim", "lookup", "over"} => recovery = NoTarget
    /\ recovery # NoTarget => kind \in {"boost", "fresh"}

\* The socket of a target follows its attempt; the winner's is open until the
\* decision returns; a target not attempted has none.
SocketsOK(r, a) ==
    \A t \in Target :
        /\ a[t].st \in {"admit", "dial"} => sock[t] = "none"
        /\ a[t].st = "check" => sock[t] \in {"none", "open"}
        /\ a[t].st = "prepare" => sock[t] = "open"
        /\ a[t].st = "sent" => (a[t].res = "ok" <=> sock[t] = "open")
        /\ a[t].st = "sent" /\ a[t].res \in {"target", "global"} => sock[t] = "none"
        /\ a[t].st # "off" => sock[t] # "handed" /\ t \in r.attempted /\ t # winner
        /\ a[t].st = "off" => (sock[t] = "open" <=> t = winner /\ result = "pending")
        /\ t \notin r.attempted => sock[t] = "none" /\ t \notin dialed

\* The permits, canaries and exploration leases of the attempts.
LeasesOK(a) ==
    /\ permits = {t \in Target : a[t].st \in {"check", "dial"} /\ sock[t] = "none"}
    /\ probe \subseteq ActiveIn(a) \cup {recovery}
    /\ explorer \in ActiveIn(a) \cup {NoTarget}
    /\ \A t \in Target : a[t].st = "sent" => t \notin probe /\ t # explorer

\* The places taken, given back before a dial only; canaries run alone.
BudgetOK(r, a) ==
    /\ Cardinality(ActiveIn(a)) <= Top
    /\ Cardinality(dialed \cup ActiveIn(a)) <= r.actual
    /\ \A t \in Target :
         /\ a[t].st \in {"admit", "check"} => t \notin dialed
         /\ a[t].st = "sent" /\ a[t].res \in Refusal => t \notin dialed
         /\ a[t].st = "sent" /\ a[t].res = "busy" => kind = "lazy"
         /\ a[t].st # "off" /\ t \in probe \cup {recovery} => ActiveIn(a) = {t}
    /\ recovery # NoTarget /\ step \in {"racing", "draining"} => recovery \in r.attempted
    /\ r.timer # "off" => kind = "cached" /\ ActiveIn(a) \subseteq {cached} /\ probe = {}

\* The cached race: a hedge that waits for the timer starts only beside a
\* primary that has begun its dial, and the primary's verdict is its own result.
HedgeOK(r, a) ==
    /\ \A t \in Target :
         step = "racing" /\ a[t].st = "sent" /\ a[t].res = "canceled" => ctxDone
    /\ kind = "cached" /\ step \in {"racing", "draining"} => cached \in r.attempted
    /\ kind = "cached" =>
         /\ r.timer = "armed" \/ r.delayedHedge => cached \in dialed
         /\ r.verdict = "failed" =>
              a[cached].st = "off" /\ a[cached].res \in NotStarted \cup {"fail"}
         /\ \A t \in Target \ {cached} : a[t].st # "off" =>
              r.hedging /\ (a[t].delayed => cached \in dialed)
         /\ step = "racing" /\ a[cached].st = "off" /\ cached \in dialed /\ ~ctxDone =>
              r.primaryFailed

\* A race that has nobody left to wait for has a reason.
ExhaustedOK(r, a) ==
    step = "racing" /\ ActiveIn(a) = {} /\ ~ctxDone /\ ~r.stop =>
        r.actual = limit \/ Selectable(r) = {}

IInv ==
    /\ TypeOK
    /\ StageOK
    /\ SocketsOK(race, att)
    /\ LeasesOK(att)
    /\ BudgetOK(race, att)
    /\ HedgeOK(race, att)
    /\ ExhaustedOK(race, att)
    /\ OutcomeEarned

-----------------------------------------------------------------------------
\* Cardinalities of sets of targets.
LEMMA TargetsFinite ==
    ASSUME NEW S \in SUBSET Target
    PROVE  IsFiniteSet(S) /\ Cardinality(S) \in Nat /\ (Cardinality(S) = 0 <=> S = {})
BY RaceAssumption, FS_Subset, FS_CardinalityType, FS_EmptySet

LEMMA UnionBound ==
    ASSUME NEW S \in SUBSET Target, NEW R \in SUBSET Target
    PROVE  Cardinality(S \cup R) <= Cardinality(S) + Cardinality(R)
<1>1. IsFiniteSet(S) /\ IsFiniteSet(R)
  BY TargetsFinite
<1>2. Cardinality(S \cup R) = Cardinality(S) + Cardinality(R) - Cardinality(S \cap R)
  BY <1>1, FS_Union
<1>3. Cardinality(S \cap R) \in Nat /\ Cardinality(S) \in Nat /\ Cardinality(R) \in Nat
  BY TargetsFinite
<1> QED
  BY <1>2, <1>3

LEMMA SubsetBound ==
    ASSUME NEW S \in SUBSET Target, NEW R \in SUBSET S
    PROVE  Cardinality(R) <= Cardinality(S)
<1>1. IsFiniteSet(S)
  BY TargetsFinite
<1> QED
  BY <1>1, FS_Subset

LEMMA RemoveOne ==
    ASSUME NEW S \in SUBSET Target, NEW t \in S
    PROVE  Cardinality(S \ {t}) = Cardinality(S) - 1 /\ Cardinality(S) > 0
<1>1. IsFiniteSet(S) /\ Cardinality(S) \in Nat /\ Cardinality(S) # 0
  BY TargetsFinite
<1>2. Cardinality(S \ {t}) = Cardinality(S) - 1
  BY <1>1, FS_RemoveElement
<1> QED
  BY <1>1, <1>2

\* The attempt limit is positive: a CONNECT or a rule makes at least one.
LEMMA LimitPositive ==
    ASSUME TypeOK
    PROVE  limit \in Nat /\ limit > 0
<1>1. Cardinality(Target) \in Nat
  BY TargetsFinite
<1> QED
  BY <1>1, RaceAssumption DEF TypeOK

\* What every outcome of a launch satisfies: the candidates are new, they fit
\* the Top bound and the budget, and a canary starts alone.
LEMMA LaunchOutcome ==
    ASSUME TypeOK, NEW r \in RaceType, NEW a \in [Target -> AttType],
           NEW o \in Launches(r, Cardinality(ActiveIn(a)))
    PROVE  /\ o.run \in SUBSET Selectable(r) /\ o.skip \in SUBSET Selectable(r)
           /\ o.reserved \in {NoTarget} \cup Target /\ o.explores \in {NoTarget} \cup Target
           /\ Cardinality(o.run) \in Nat
           /\ r.actual + Cardinality(o.run) \in 0..limit
           /\ Cardinality(ActiveIn(a)) <= Top =>
                Cardinality(ActiveIn(a)) + Cardinality(o.run) <= Top
           /\ o.run = {} /\ ActiveIn(a) = {} => r.actual = limit \/ o.skip = Selectable(r)
           /\ recovery \in Selectable(r) /\ o.run # {} =>
                recovery \in o.skip \/ (o.run = {recovery} /\ o.skip = {})
           /\ recovery \in Selectable(r) /\ ActiveIn(a) = {} /\ r.actual = 0 =>
                recovery \in o.skip \cup o.run
           /\ o.run \cap o.skip = {}
           /\ o.reserved # NoTarget =>
                /\ ActiveIn(a) = {} /\ recovery = NoTarget
                /\ o.reserved \in o.skip \/ o.run = {o.reserved}
           /\ o.explores # NoTarget => o.explores \in o.run
<1> DEFINE n == Cardinality(ActiveIn(a))
           free == Selectable(r)
           room == IF n >= Top \/ r.actual >= limit THEN 0
                   ELSE Smaller(Top - n, limit - r.actual)
<1>1. free \in SUBSET Target /\ ActiveIn(a) \in SUBSET Target
  BY DEF Selectable, ActiveIn
<1>2. n \in Nat /\ (n = 0 <=> ActiveIn(a) = {})
  BY <1>1, TargetsFinite
<1>3. limit \in Nat /\ limit > 0 /\ r.actual \in 0..limit
  BY LimitPositive DEF RaceType
<1>4. Top \in {1, 2}
  BY DEF Top
<1>5. o \in [run : SUBSET free, skip : SUBSET free,
             reserved : {NoTarget} \cup free, explores : {NoTarget} \cup free]
  BY DEF Launches
<1>6. /\ o.run \cap o.skip = {}
      /\ Cardinality(o.run) <= room
      /\ room > 0 /\ o.run = {} => o.skip = free
      /\ recovery \in free /\ room > 0 =>
           recovery \in o.skip \/ (o.run = {recovery} /\ o.skip = {})
      /\ o.reserved # NoTarget =>
           /\ recovery = NoTarget /\ n = 0
           /\ o.reserved \in o.skip \/ (o.run = {o.reserved} /\ o.skip = {})
      /\ o.explores # NoTarget => o.explores \in o.run
  BY DEF Launches
<1>7. o.run \in SUBSET Target
  BY <1>1, <1>5
<1>8. Cardinality(o.run) \in Nat /\ (Cardinality(o.run) = 0 <=> o.run = {})
  BY <1>7, TargetsFinite
<1> HIDE DEF n, free
<1>9. room \in Nat /\ r.actual + room \in 0..limit /\ (n <= Top => n + room <= Top)
      /\ (room = 0 <=> n >= Top \/ r.actual = limit)
  BY <1>2, <1>3, <1>4 DEF Smaller
<1> HIDE DEF room
<1>10. r.actual + Cardinality(o.run) \in 0..limit
       /\ (n <= Top => n + Cardinality(o.run) <= Top)
  BY <1>2, <1>3, <1>4, <1>6, <1>8, <1>9
<1>11. o.run = {} /\ ActiveIn(a) = {} => r.actual = limit \/ o.skip = free
  BY <1>2, <1>4, <1>6, <1>9
<1>12. o.run # {} => room > 0
  BY <1>6, <1>8, <1>9
<1>13. ActiveIn(a) = {} /\ r.actual = 0 => room > 0
  BY <1>2, <1>3, <1>4, <1>9
<1> QED
  BY <1>1, <1>2, <1>5, <1>6, <1>8, <1>10, <1>11, <1>12, <1>13 DEF n, free

\* What holds when the racer is about to launch alternatives: the parts of the
\* invariant for the values it hands to Launch, no canary among the attempts
\* that run, and a recovery that is either behind it or starts this race.
ReadyToLaunch(r, a, delayed) ==
    /\ r \in RaceType /\ a \in [Target -> AttType] /\ delayed \in BOOLEAN
    /\ SocketsOK(r, a) /\ LeasesOK(a) /\ BudgetOK(r, a) /\ HedgeOK(r, a)
    /\ r.timer = "off" /\ winner = NoTarget /\ result = "pending"
    /\ ActiveIn(a) \cap (probe \cup {recovery}) = {}
    /\ \/ recovery \in r.attempted \cup {NoTarget}
       \/ ActiveIn(a) = {} /\ r.actual = 0 /\ recovery \in Selectable(r)
    /\ \/ step = "racing"
       \/ step = "start" /\ kind # "cached" /\ ActiveIn(a) = {}
    /\ kind = "cached" => r.hedging /\ (delayed => cached \in dialed)

\* A launch of alternatives keeps every part of the invariant.
LEMMA LaunchKeeps ==
    ASSUME TypeOK, NEW r, NEW a, NEW delayed, ReadyToLaunch(r, a, delayed),
           Launch(r, a, delayed), step' = "racing",
           UNCHANGED <<outside, kind, ctxDone, winner, result, cache>>
    PROVE  /\ TypeOK' /\ SocketsOK(race, att)' /\ LeasesOK(att)' /\ BudgetOK(race, att)'
           /\ HedgeOK(race, att)' /\ ExhaustedOK(race, att)'
<1>1. PICK o \in Launches(r, Cardinality(ActiveIn(a))) :
        /\ race' = [r EXCEPT !.attempted = @ \cup o.run \cup o.skip,
                             !.actual = @ + Cardinality(o.run)]
        /\ att' = [t \in Target |-> IF t \in o.run THEN Launched(delayed) ELSE a[t]]
        /\ probe' = (probe \ o.skip) \cup (o.run \cap {o.reserved})
        /\ explorer' = IF o.explores # NoTarget THEN o.explores ELSE explorer
  BY DEF Launch, ActiveIn
<1>2. r \in RaceType /\ a \in [Target -> AttType] /\ delayed \in BOOLEAN
  BY DEF ReadyToLaunch
<1> DEFINE run == o.run
           skip == o.skip
           act == ActiveIn(a)
<1>3. /\ run \in SUBSET Selectable(r) /\ skip \in SUBSET Selectable(r)
      /\ o.reserved \in {NoTarget} \cup Target /\ o.explores \in {NoTarget} \cup Target
      /\ Cardinality(run) \in Nat
      /\ r.actual + Cardinality(run) \in 0..limit
      /\ Cardinality(act) <= Top => Cardinality(act) + Cardinality(run) <= Top
      /\ run = {} /\ act = {} => r.actual = limit \/ skip = Selectable(r)
      /\ recovery \in Selectable(r) /\ run # {} =>
           recovery \in skip \/ (run = {recovery} /\ skip = {})
      /\ recovery \in Selectable(r) /\ act = {} /\ r.actual = 0 => recovery \in skip \cup run
      /\ run \cap skip = {}
      /\ o.reserved # NoTarget =>
           /\ act = {} /\ recovery = NoTarget
           /\ o.reserved \in skip \/ run = {o.reserved}
      /\ o.explores # NoTarget => o.explores \in run
  BY <1>1, <1>2, LaunchOutcome
<1>4. Selectable(r) \in SUBSET (Target \ r.attempted)
  BY DEF Selectable
<1>5. /\ race' = [r EXCEPT !.attempted = @ \cup run \cup skip, !.actual = @ + Cardinality(run)]
      /\ att' = [t \in Target |-> IF t \in run THEN Launched(delayed) ELSE a[t]]
      /\ probe' = (probe \ skip) \cup (run \cap {o.reserved})
      /\ explorer' = IF o.explores # NoTarget THEN o.explores ELSE explorer
  BY <1>1
<1> HIDE DEF run, skip
<1>6. /\ run \in SUBSET Target /\ skip \in SUBSET Target
      /\ \A t \in run \cup skip : t \notin r.attempted /\ a[t].st = "off"
  BY <1>3, <1>4 DEF ReadyToLaunch, SocketsOK
<1>7. TypeOK'
  <2>1. race' \in RaceType'
    BY <1>2, <1>3, <1>5, <1>6 DEF RaceType, outside, config
  <2>2. att' \in [Target -> AttType]
    BY <1>2, <1>5 DEF AttType, Launched, Result
  <2>3. probe' \subseteq Target /\ explorer' \in MaybeTarget
    BY <1>3, <1>5, <1>6 DEF TypeOK, MaybeTarget
  <2> QED
    BY <2>1, <2>2, <2>3 DEF TypeOK, RaceType, AttType, Steps, outside, config
<1>8. ActiveIn(att)' = act \cup run
  BY <1>5, <1>6 DEF ActiveIn, Launched
<1> HIDE DEF act
<1>9. SocketsOK(race, att)'
  BY <1>2, <1>5, <1>6, RaceAssumption
     DEF SocketsOK, ReadyToLaunch, Launched, RaceType, outside, config
<1>10. LeasesOK(att)'
  <2>1. permits' = {t \in Target : att'[t].st \in {"check", "dial"} /\ sock'[t] = "none"}
    BY <1>5, <1>6 DEF LeasesOK, ReadyToLaunch, Launched, outside
  <2>2. probe' \subseteq ActiveIn(att)' \cup {recovery'}
    BY <1>5, <1>8 DEF LeasesOK, ReadyToLaunch, outside, act
  <2>3. explorer' \in ActiveIn(att)' \cup {NoTarget}
    BY <1>3, <1>5, <1>8 DEF LeasesOK, ReadyToLaunch, act
  <2>4. ASSUME NEW t \in Target, att'[t].st = "sent" PROVE t \notin probe' /\ t # explorer'
    BY <1>3, <1>5, <1>6, <2>4 DEF LeasesOK, ReadyToLaunch, Launched
  <2> QED
    BY <2>1, <2>2, <2>3, <2>4 DEF LeasesOK
<1>11. BudgetOK(race, att)'
  <2>1. act \in SUBSET Target /\ dialed \in SUBSET Target
    BY DEF act, ActiveIn, TypeOK
  <2>2. Cardinality(act \cup run) <= Top'
    <3>1. Cardinality(act \cup run) <= Cardinality(act) + Cardinality(run)
      BY <1>6, <2>1, UnionBound
    <3>2. Cardinality(act) <= Top /\ Top' = Top /\ Top \in {1, 2}
      BY DEF ReadyToLaunch, BudgetOK, act, Top
    <3>3. Cardinality(act) \in Nat /\ Cardinality(act \cup run) \in Nat
      BY <1>6, <2>1, TargetsFinite
    <3> QED
      BY <1>3, <3>1, <3>2, <3>3
  <2>3. Cardinality(dialed' \cup (act \cup run)) <= race'.actual
    <3>1. dialed' \cup (act \cup run) = (dialed \cup act) \cup run
      BY DEF outside
    <3>2. Cardinality((dialed \cup act) \cup run) <= Cardinality(dialed \cup act) + Cardinality(run)
      BY <1>6, <2>1, UnionBound
    <3>3. Cardinality(dialed \cup act) <= r.actual
      BY DEF ReadyToLaunch, BudgetOK, act
    <3>4. race'.actual = r.actual + Cardinality(run) /\ r.actual \in Nat
      BY <1>2, <1>5 DEF RaceType
    <3>5. Cardinality(dialed \cup act) \in Nat /\ Cardinality((dialed \cup act) \cup run) \in Nat
      BY <1>6, <2>1, TargetsFinite
    <3>6. Cardinality(run) \in Nat
      BY <1>3
    <3>7. Cardinality((dialed \cup act) \cup run) <= race'.actual
      BY <3>2, <3>3, <3>4, <3>5, <3>6
    <3> QED
      BY <3>1, <3>7
  <2>4. ASSUME NEW t \in Target
        PROVE  /\ att'[t].st \in {"admit", "check"} => t \notin dialed'
               /\ att'[t].st = "sent" /\ att'[t].res \in Refusal => t \notin dialed'
               /\ att'[t].st = "sent" /\ att'[t].res = "busy" => kind' = "lazy"
    BY <1>5, <1>6 DEF ReadyToLaunch, BudgetOK, SocketsOK, Launched, outside
  <2>5. ASSUME NEW t \in act \cup run, t \in probe' \cup {recovery'} PROVE act \cup run = {t}
    <3>1. probe \subseteq act \cup {recovery} /\ act \cap (probe \cup {recovery}) = {}
      BY DEF ReadyToLaunch, LeasesOK, act
    <3>2. t \in run
      BY <1>5, <2>5, <3>1 DEF outside
    <3>3. t \notin act
      BY <1>6, <3>2 DEF act, ActiveIn
    <3>4. CASE t = recovery
      BY <1>3, <1>4, <2>5, <3>2, <3>4, RaceAssumption, <1>6 DEF ReadyToLaunch, act
    <3>5. CASE t # recovery
      BY <1>3, <1>5, <2>5, <3>1, <3>2, <3>3, <3>5, <1>6, RaceAssumption DEF outside
    <3> QED
      BY <3>4, <3>5
  <2>6. recovery' # NoTarget => recovery' \in race'.attempted
    BY <1>2, <1>3, <1>5 DEF ReadyToLaunch, RaceType, outside, act
  <2>7. race'.timer = "off"
    BY <1>2, <1>5 DEF ReadyToLaunch, RaceType
  <2>8. ASSUME NEW t \in Target, att'[t].st # "off", t \in probe' \cup {recovery'}
        PROVE  ActiveIn(att)' = {t}
    BY <1>8, <2>5, <2>8 DEF ActiveIn
  <2> QED
    BY <1>8, <2>2, <2>3, <2>4, <2>6, <2>7, <2>8 DEF BudgetOK
<1>12. HedgeOK(race, att)'
  <2>1. ASSUME NEW t \in Target, att'[t].st = "sent", att'[t].res = "canceled" PROVE ctxDone'
    <3>1. t \notin run /\ att'[t] = a[t]
      BY <1>5, <2>1 DEF Launched
    <3> QED
      BY <2>1, <3>1 DEF ReadyToLaunch, HedgeOK, ActiveIn
  <2>2. ASSUME kind' = "cached"
        PROVE  /\ kind = "cached" /\ step = "racing" /\ cached' = cached
               /\ cached \in r.attempted /\ cached \notin run
    BY <1>6, <2>2 DEF ReadyToLaunch, HedgeOK, outside, config
  <2>3. ASSUME kind' = "cached", cached \in Target
        PROVE  /\ race'.timer = "armed" \/ race'.delayedHedge => cached' \in dialed'
               /\ race'.verdict = "failed" =>
                    att'[cached'].st = "off" /\ att'[cached'].res \in NotStarted \cup {"fail"}
               /\ \A t \in Target \ {cached'} : att'[t].st # "off" =>
                    race'.hedging /\ (att'[t].delayed => cached' \in dialed')
               /\ att'[cached'].st = "off" /\ cached' \in dialed' /\ ~ctxDone' =>
                    race'.primaryFailed
    BY <1>2, <1>5, <2>2, <2>3 DEF ReadyToLaunch, HedgeOK, RaceType, Launched, outside, config
  <2>4. kind' = "cached" => cached' \in race'.attempted /\ cached \in Target
    BY <1>2, <1>5, <2>2 DEF RaceType
  <2> QED
    BY <2>1, <2>3, <2>4 DEF HedgeOK
<1>13. ExhaustedOK(race, att)'
  <2>1. SUFFICES ASSUME act \cup run = {}, race'.actual # limit' PROVE Selectable(race)' = {}
    BY <1>8 DEF ExhaustedOK
  <2>2. run = {} /\ act = {} /\ r.actual # limit
    <3>1. run = {} /\ act = {}
      BY <2>1
    <3>2. Cardinality(run) = 0
      BY <3>1, FS_EmptySet
    <3> QED
      BY <1>2, <1>5, <2>1, <3>1, <3>2 DEF RaceType, outside, config
  <2>3. skip = Selectable(r)
    BY <1>3, <2>2
  <2> QED
    BY <1>2, <1>5, <2>3 DEF Selectable, RaceType, outside, config
<1> QED
  BY <1>7, <1>9, <1>10, <1>11, <1>12, <1>13

-----------------------------------------------------------------------------
\* The racer's variables and the attempts after an error of t has been read.
AfterError(t) == IF kind = "cached" THEN AfterCached(t) ELSE AfterFresh(t)

\* What the error of t may do to the racer's variables: only an attempt that
\* never dialled gives its place back, only a hedge refused by the bulkhead may
\* be attempted again, and whatever ends the race without a refill is recorded.
ErrorEffect(t, r) ==
    LET res == att[t].res
    IN  /\ r \in RaceType
        /\ r.timer = "off"
        /\ \/ r.attempted = race.attempted
           \/ /\ r.attempted = race.attempted \ {t} /\ kind = "cached" /\ t # cached
              /\ res \in {"target", "global"}
        /\ r.actual = race.actual \/ (r.actual = race.actual - 1 /\ t \notin dialed)
        /\ kind = "cached" =>
             /\ race.hedging => r.hedging
             /\ r.delayedHedge => race.delayedHedge
             /\ r.verdict = "failed" =>
                  race.verdict = "failed" \/ (t = cached /\ res \in NotStarted \cup {"fail"})
             /\ race.primaryFailed => r.primaryFailed
             /\ t = cached /\ t \in dialed /\ ~ctxDone => r.primaryFailed
             /\ t = cached => r.hedging \/ r.stop
             /\ res = "target" => r.hedging
             /\ res = "global" /\ ~IsDelayedMiss(t) => r.stop

LEMMA ErrorEffectHolds ==
    ASSUME IInv, step = "racing", NEW t \in Target, att[t].st = "sent", att[t].res # "ok"
    PROVE  ErrorEffect(t, AfterError(t))
<1> DEFINE r == AfterError(t)
           res == att[t].res
<1>1. /\ race \in RaceType /\ att \in [Target -> AttType]
      /\ kind \in {"boost", "cached", "fresh", "lazy", "sequential"}
  BY DEF IInv, TypeOK, RaceType, AttType
<1>2. /\ res \in Result \ {"ok"} /\ (res = "busy" => kind = "lazy")
      /\ res \in Refusal => t \notin dialed
      /\ res = "canceled" => ctxDone
      /\ kind # "boost"
  BY <1>1 DEF AttType, IInv, BudgetOK, HedgeOK, StageOK
<1>3. race.actual > 0
  <2>1. t \in dialed \cup ActiveIn(att) /\ dialed \cup ActiveIn(att) \in SUBSET Target
    BY DEF ActiveIn, IInv, TypeOK
  <2>2. Cardinality(dialed \cup ActiveIn(att)) > 0 /\ Cardinality(dialed \cup ActiveIn(att)) \in Nat
    BY <2>1, RemoveOne, TargetsFinite
  <2>3. Cardinality(dialed \cup ActiveIn(att)) <= race.actual
    BY DEF IInv, BudgetOK
  <2> QED
    BY <1>1, <2>2, <2>3 DEF RaceType
<1>4. limit \in Nat /\ race.actual \in 0..limit
  BY <1>1, LimitPositive DEF IInv, RaceType
<1>5. OneLess(race) = race.actual - 1 /\ race.actual - 1 \in 0..limit
  BY <1>3, <1>4 DEF OneLess
<1>6. CASE kind # "cached"
  <2>1. race.timer = "off"
    BY <1>1, <1>6 DEF IInv, BudgetOK, RaceType
  <2>2. CASE res \in NotStarted \cup {"target"}
    <3>1. r = [race EXCEPT !.actual = race.actual - 1]
      BY <1>5, <1>6, <2>2 DEF AfterError, AfterFresh, NotStarted
    <3> QED
      BY <1>1, <1>2, <1>5, <1>6, <2>1, <2>2, <3>1 DEF ErrorEffect, RaceType, NotStarted, Refusal
  <2>3. CASE res \in {"global", "busy"}
    <3>1. r = [race EXCEPT !.stop = TRUE]
      BY <1>6, <2>3 DEF AfterError, AfterFresh, NotStarted
    <3> QED
      BY <1>1, <1>6, <2>1, <3>1 DEF ErrorEffect, RaceType
  <2>4. CASE res \in {"fail", "neutral", "canceled"}
    <3>1. r = race
      BY <1>6, <2>4 DEF AfterError, AfterFresh, NotStarted
    <3> QED
      BY <1>1, <1>6, <2>1, <3>1 DEF ErrorEffect, RaceType
  <2> QED
    BY <1>2, <2>2, <2>3, <2>4 DEF Result, Refusal, NotStarted
<1>7. CASE kind = "cached"
  <2> DEFINE missed == [race EXCEPT !.actual = race.actual - 1]
  <2>1. t # cached => race.timer = "off"
    BY <1>1, <1>7 DEF IInv, BudgetOK, RaceType, ActiveIn
  <2>2. t = cached => race.verdict # "failed"
    BY <1>7 DEF IInv, HedgeOK
  <2>3. missed \in RaceType
    BY <1>1, <1>5 DEF RaceType
  <2>4. CASE res \in NotStarted /\ t = cached
    <3>1. r = PrimaryDown(missed, "failed")
      BY <1>5, <1>7, <2>4 DEF AfterError, AfterCached, NotStarted, IsDelayedMiss
    <3> QED
      BY <1>1, <1>2, <1>5, <1>7, <2>4, <3>1 DEF ErrorEffect, RaceType, NotStarted, Refusal, PrimaryDown
  <2>5. CASE res \in NotStarted /\ t # cached
    <3>1. r = missed
      BY <1>5, <1>7, <2>5 DEF AfterError, AfterCached, NotStarted, IsDelayedMiss
    <3> QED
      BY <1>1, <1>2, <1>5, <1>7, <2>1, <2>5, <3>1 DEF ErrorEffect, RaceType, NotStarted, Refusal
  <2>6. CASE IsDelayedMiss(t)
    <3>1. r = [missed EXCEPT !.attempted = @ \ {t}, !.delayedHedge = @ /\ ~race.primaryFailed]
      BY <1>5, <1>7, <2>6 DEF AfterError, AfterCached, NotStarted, IsDelayedMiss
    <3>2. t # cached /\ res \in {"target", "global"} /\ race.hedging
      BY <1>7, <2>6 DEF IsDelayedMiss, IInv, HedgeOK
    <3> DEFINE dh == missed.delayedHedge /\ ~race.primaryFailed
    <3>3. /\ missed.attempted = race.attempted /\ missed.actual = race.actual - 1
          /\ missed.timer = race.timer /\ missed.hedging = race.hedging
          /\ missed.delayedHedge = race.delayedHedge /\ missed.verdict = race.verdict
          /\ missed.primaryFailed = race.primaryFailed
      BY <1>1 DEF RaceType
    <3>4. r = [missed EXCEPT !.attempted = missed.attempted \ {t}, !.delayedHedge = dh]
      BY <3>1
    <3>5. dh \in BOOLEAN /\ (dh => race.delayedHedge)
      BY <3>3
    <3> HIDE DEF missed, dh, r
    <3>6. /\ r \in RaceType /\ r.timer = missed.timer /\ r.attempted = missed.attempted \ {t}
          /\ r.actual = missed.actual /\ r.hedging = missed.hedging /\ r.delayedHedge = dh
          /\ r.verdict = missed.verdict /\ r.primaryFailed = missed.primaryFailed
      BY <2>3, <3>4, <3>5 DEF RaceType
    <3> QED
      BY <1>2, <1>7, <2>1, <2>6, <3>2, <3>3, <3>5, <3>6 DEF ErrorEffect, Refusal, r
  <2>7. CASE res = "target" /\ ~IsDelayedMiss(t)
    <3>1. r = [missed EXCEPT !.delayedHedge = FALSE, !.hedging = TRUE, !.timer = "off"]
      BY <1>5, <1>7, <2>7 DEF AfterError, AfterCached, NotStarted
    <3> QED
      BY <1>1, <1>2, <1>5, <1>7, <2>7, <3>1 DEF ErrorEffect, RaceType, Refusal
  <2>8. CASE res = "global" /\ ~IsDelayedMiss(t)
    <3>1. r = [race EXCEPT !.stop = TRUE, !.timer = "off"]
      BY <1>7, <2>8 DEF AfterError, AfterCached, NotStarted
    <3> QED
      BY <1>1, <1>2, <1>7, <2>8, <3>1 DEF ErrorEffect, RaceType, Refusal
  <2>9. CASE res \in {"fail", "neutral", "canceled"} /\ t # cached
    <3>1. r = race
      BY <1>7, <2>9 DEF AfterError, AfterCached, NotStarted, IsDelayedMiss
    <3> QED
      BY <1>1, <1>7, <2>1, <2>9, <3>1 DEF ErrorEffect, RaceType
  <2>10. CASE res \in {"fail", "neutral", "canceled"} /\ t = cached
    <3> DEFINE v == CASE res = "fail" -> "failed" [] res = "neutral" -> "neutral"
                      [] res = "canceled" -> race.verdict
    <3>1. r = [PrimaryDown(race, v) EXCEPT
                 !.primaryFailed = race.primaryFailed \/ res # "canceled",
                 !.delayedHedge = IF race.stop THEN race.delayedHedge ELSE @,
                 !.hedging = race.hedging \/ ~race.stop]
      BY <1>7, <2>10 DEF AfterError, AfterCached, NotStarted, IsDelayedMiss
    <3>2. v \in {"none", "failed", "neutral"} /\ (v = "failed" => res = "fail")
      BY <1>1, <2>2, <2>10 DEF RaceType
    <3> HIDE DEF v
    <3>3. PrimaryDown(race, v) = [race EXCEPT !.verdict = v, !.primaryFailed = TRUE,
                                    !.delayedHedge = FALSE, !.hedging = TRUE, !.timer = "off"]
      BY DEF PrimaryDown
    <3>4. /\ r \in RaceType /\ r.timer = "off" /\ r.attempted = race.attempted
          /\ r.actual = race.actual /\ r.hedging = (race.hedging \/ ~race.stop)
          /\ r.primaryFailed = (race.primaryFailed \/ res # "canceled")
          /\ r.stop = race.stop /\ (r.delayedHedge => race.delayedHedge) /\ r.verdict = v
      <4>1. r \in RaceType
        <5> DEFINE down == PrimaryDown(race, v)
        <5>1. down \in RaceType
          BY <1>1, <3>2, <3>3 DEF RaceType
        <5>2. (IF race.stop THEN race.delayedHedge ELSE down.delayedHedge) \in BOOLEAN
          BY <1>1, <5>1 DEF RaceType
        <5> HIDE DEF down
        <5> QED
          BY <3>1, <5>1, <5>2 DEF RaceType, down
      <4>4. r.timer = "off" /\ r.attempted = race.attempted
            /\ r.actual = race.actual /\ r.stop = race.stop /\ r.verdict = v
        BY <1>1, <3>1, <3>3 DEF RaceType
      <4>2. r.hedging = (race.hedging \/ ~race.stop)
            /\ r.primaryFailed = (race.primaryFailed \/ res # "canceled")
        BY <1>1, <3>1, <3>3 DEF RaceType
      <4>3. r.delayedHedge => race.delayedHedge
        BY <1>1, <3>1, <3>3 DEF RaceType
      <4> QED
        BY <4>1, <4>2, <4>3, <4>4
    <3> HIDE DEF r
    <3> QED
      BY <1>1, <1>2, <1>7, <2>10, <3>2, <3>4 DEF ErrorEffect, RaceType, r
  <2>11. \/ res \in NotStarted \/ res \in {"fail", "neutral", "canceled"}
         \/ res = "target" \/ res = "global"
    BY <1>2, <1>7 DEF Result, Refusal, NotStarted
  <2> QED
    BY <2>4, <2>5, <2>6, <2>7, <2>8, <2>9, <2>10, <2>11
<1> QED
  BY <1>6, <1>7

\* An attempt whose result has been read is off; the other attempts are as they were.
LEMMA TakenEffect ==
    ASSUME IInv, NEW t \in Target, att[t].st = "sent"
    PROVE  /\ Taken(t) \in [Target -> AttType]
           /\ Taken(t)[t].st = "off"
           /\ t = cached => Taken(t)[t].res = att[t].res
           /\ \A u \in Target \ {t} : Taken(t)[u] = att[u]
           /\ ActiveIn(Taken(t)) = ActiveIn(att) \ {t}
<1>1. att \in [Target -> AttType]
  BY DEF IInv, TypeOK, AttType
<1>2. /\ Taken(t) \in [Target -> AttType]
      /\ Taken(t)[t].st = "off"
      /\ t = cached => Taken(t)[t].res = att[t].res
      /\ \A u \in Target \ {t} : Taken(t)[u] = att[u]
  <2>1. CASE t = cached
    <3>1. Taken(t) = [att EXCEPT ![t] = [Off EXCEPT !.res = att[t].res]]
      BY <2>1 DEF Taken
    <3> DEFINE kept == [Off EXCEPT !.res = att[t].res]
    <3>2. kept \in AttType /\ kept.st = "off" /\ kept.res = att[t].res
      BY <1>1 DEF Off, AttType
    <3> HIDE DEF kept
    <3> QED
      BY <1>1, <3>1, <3>2 DEF kept
  <2>2. CASE t # cached
    <3>1. Taken(t) = [att EXCEPT ![t] = Off]
      BY <2>2 DEF Taken
    <3> QED
      BY <1>1, <2>2, <3>1 DEF AttType, Off, Result
  <2> QED
    BY <2>1, <2>2
<1>3. ActiveIn(Taken(t)) = ActiveIn(att) \ {t}
  BY <1>2 DEF ActiveIn
<1> QED
  BY <1>2, <1>3

\* Reading an error keeps the parts of the invariant, leaves no canary running,
\* and when it calls for no refill the race is stopped, cancelled or still waits.
LEMMA AfterErrorKeeps ==
    ASSUME IInv, step = "racing", NEW t \in Target, att[t].st = "sent", att[t].res # "ok",
           NEW r, r = AfterError(t), NEW a, a = Taken(t)
    PROVE  /\ SocketsOK(r, a) /\ LeasesOK(a) /\ BudgetOK(r, a) /\ HedgeOK(r, a)
           /\ r \in RaceType /\ a \in [Target -> AttType]
           /\ ~Refills(t, r) => ExhaustedOK(r, a)
           /\ Refills(t, r) => ReadyToLaunch(r, a, r.delayedHedge)
<1> DEFINE res == att[t].res
<1>1. /\ race \in RaceType /\ att \in [Target -> AttType]
      /\ kind \in {"cached", "fresh", "lazy", "sequential"}
      /\ winner = NoTarget /\ result = "pending"
  BY DEF IInv, TypeOK, RaceType, AttType, StageOK
<1>2. ErrorEffect(t, r)
  BY ErrorEffectHolds
<1>3. r \in RaceType /\ r.timer = "off"
  BY <1>2 DEF ErrorEffect
<1>4. /\ a \in [Target -> AttType]
      /\ a[t].st = "off"
      /\ t = cached => a[t].res = att[t].res
      /\ \A u \in Target \ {t} : a[u] = att[u]
      /\ ActiveIn(a) = ActiveIn(att) \ {t}
  BY TakenEffect
<1>5. SocketsOK(r, a)
  <2>1. sock[t] # "open"
    BY DEF IInv, SocketsOK
  <2>2. t \notin r.attempted => sock[t] = "none" /\ t \notin dialed
    BY <1>2 DEF ErrorEffect, IInv, SocketsOK, BudgetOK, Refusal
  <2>3. ASSUME NEW u \in Target \ {t} PROVE u \in r.attempted <=> u \in race.attempted
    BY <1>2, <2>3 DEF ErrorEffect
  <2>4. t # winner
    BY <1>1, RaceAssumption
  <2> QED
    BY <1>4, <2>1, <2>2, <2>3, <2>4 DEF IInv, SocketsOK
<1>6. LeasesOK(a)
  <2>1. t \notin probe /\ t # explorer
    BY DEF IInv, LeasesOK
  <2>2. permits = {u \in Target : a[u].st \in {"check", "dial"} /\ sock[u] = "none"}
    BY <1>4 DEF IInv, LeasesOK
  <2> QED
    BY <1>4, <2>1, <2>2 DEF IInv, LeasesOK
<1>7. ActiveIn(a) \cap (probe \cup {recovery}) = {}
  <2>1. ASSUME NEW u \in ActiveIn(a), u \in probe \cup {recovery} PROVE FALSE
    <3>1. ActiveIn(att) = {u} /\ u # t
      BY <1>4, <2>1 DEF IInv, BudgetOK, ActiveIn
    <3> QED
      BY <3>1 DEF ActiveIn
  <2> QED
    BY <2>1
<1>8. BudgetOK(r, a)
  <2>1. ActiveIn(att) \in SUBSET Target /\ dialed \in SUBSET Target /\ t \in ActiveIn(att)
    BY DEF ActiveIn, IInv, TypeOK
  <2>2. Cardinality(ActiveIn(a)) <= Top
    <3>1. Cardinality(ActiveIn(att)) <= Top
      BY DEF IInv, BudgetOK
    <3>2. Cardinality(ActiveIn(a)) = Cardinality(ActiveIn(att)) - 1
          /\ Cardinality(ActiveIn(att)) \in Nat
      BY <1>4, <2>1, RemoveOne, TargetsFinite
    <3>3. Top \in {1, 2}
      BY DEF Top
    <3> QED
      BY <3>1, <3>2, <3>3
  <2>3. Cardinality(dialed \cup ActiveIn(a)) <= r.actual
    <3> DEFINE before == dialed \cup ActiveIn(att)
               after == dialed \cup ActiveIn(a)
    <3>1. Cardinality(before) <= race.actual
      BY DEF IInv, BudgetOK
    <3>2. before \in SUBSET Target /\ after \in SUBSET before /\ t \in before
      BY <1>4, <2>1
    <3>3. t \notin dialed => after = before \ {t}
      BY <1>4
    <3>4. r.actual = race.actual \/ (r.actual = race.actual - 1 /\ t \notin dialed)
      BY <1>2 DEF ErrorEffect
    <3>5. race.actual \in Int /\ r.actual \in Int
      BY <1>1, <1>3 DEF RaceType
    <3> HIDE DEF before, after
    <3>6. after \in SUBSET Target
      BY <3>2
    <3>7. Cardinality(before) \in Nat /\ Cardinality(after) \in Nat
      BY <3>2, <3>6, TargetsFinite
    <3>8. Cardinality(after) <= Cardinality(before)
      BY <3>2, SubsetBound
    <3>9. t \notin dialed => Cardinality(after) = Cardinality(before) - 1
      BY <3>2, <3>3, RemoveOne
    <3>10. Cardinality(after) <= r.actual
      BY <3>1, <3>4, <3>5, <3>7, <3>8, <3>9
    <3> QED
      BY <3>10 DEF after
  <2>4. recovery # NoTarget => recovery \in r.attempted
    <3>1. recovery # NoTarget => kind # "cached" /\ recovery \in race.attempted
      BY DEF IInv, BudgetOK, StageOK
    <3> QED
      BY <1>2, <3>1 DEF ErrorEffect
  <2> QED
    BY <1>3, <1>4, <1>7, <2>2, <2>3, <2>4 DEF IInv, BudgetOK, ActiveIn
<1>9. HedgeOK(r, a)
  <2>1. ASSUME NEW u \in Target, a[u].st = "sent", a[u].res = "canceled" PROVE ctxDone
    BY <1>4, <2>1 DEF IInv, HedgeOK
  <2>2. kind = "cached" => cached \in r.attempted
    BY <1>2 DEF ErrorEffect, IInv, HedgeOK
  <2>3. ASSUME kind = "cached"
        PROVE  /\ cached \in Target
               /\ r.timer = "armed" \/ r.delayedHedge => cached \in dialed
               /\ r.verdict = "failed" =>
                    a[cached].st = "off" /\ a[cached].res \in NotStarted \cup {"fail"}
               /\ \A u \in Target \ {cached} : a[u].st # "off" =>
                    r.hedging /\ (a[u].delayed => cached \in dialed)
               /\ a[cached].st = "off" /\ cached \in dialed /\ ~ctxDone => r.primaryFailed
    <3>1. cached \in Target
      BY <2>3 DEF IInv, StageOK
    <3>2. r.timer = "armed" \/ r.delayedHedge => cached \in dialed
      BY <1>2, <1>3, <2>3 DEF ErrorEffect, IInv, HedgeOK
    <3>3. r.verdict = "failed" =>
             a[cached].st = "off" /\ a[cached].res \in NotStarted \cup {"fail"}
      BY <1>2, <1>4, <2>3, <3>1 DEF ErrorEffect, IInv, HedgeOK
    <3>4. ASSUME NEW u \in Target \ {cached}, a[u].st # "off"
          PROVE  r.hedging /\ (a[u].delayed => cached \in dialed)
      BY <1>2, <1>4, <2>3, <3>4 DEF ErrorEffect, IInv, HedgeOK
    <3>5. a[cached].st = "off" /\ cached \in dialed /\ ~ctxDone => r.primaryFailed
      BY <1>2, <1>4, <2>3, <3>1 DEF ErrorEffect, IInv, HedgeOK
    <3> QED
      BY <3>1, <3>2, <3>3, <3>4, <3>5
  <2> QED
    BY <2>1, <2>2, <2>3 DEF HedgeOK
<1>10. kind = "cached" /\ t # cached => r.hedging
  BY <1>2 DEF ErrorEffect, IInv, HedgeOK
<1>11. ASSUME Refills(t, r) PROVE ReadyToLaunch(r, a, r.delayedHedge)
  <2>1. kind = "cached" => r.hedging
    <3>1. CASE kind = "cached" /\ t = cached
      <4>1. ~r.stop
        BY <1>11, <3>1 DEF Refills, RefillsCached, IsDelayedMiss
      <4> QED
        BY <1>2, <3>1, <4>1 DEF ErrorEffect
    <3> QED
      BY <1>10, <3>1
  <2>2. r.delayedHedge \in BOOLEAN
    BY <1>3 DEF RaceType
  <2>3. recovery \in r.attempted \cup {NoTarget}
    BY <1>8 DEF BudgetOK
  <2>4. kind = "cached" => (r.delayedHedge => cached \in dialed)
    BY <1>9 DEF HedgeOK
  <2> QED
    BY <1>1, <1>3, <1>4, <1>5, <1>6, <1>7, <1>8, <1>9, <2>1, <2>2, <2>3, <2>4
       DEF ReadyToLaunch
<1>12. ASSUME ~Refills(t, r), ActiveIn(a) = {}, ~ctxDone, ~r.stop PROVE FALSE
  <2>1. CASE kind = "sequential"
    BY <1>12, <2>1 DEF Refills, RefillsSequential
  <2>2. CASE kind \in {"fresh", "lazy"}
    BY <1>12, <2>2 DEF Refills, RefillsFresh
  <2>3. CASE kind = "cached"
    <3>1. cached \in Target /\ a[cached].st = "off"
      BY <1>12, <2>3 DEF IInv, StageOK, ActiveIn
    <3>2. ~RefillsCached(t, r)
      BY <1>12, <2>3 DEF Refills
    <3>3. CASE IsDelayedMiss(t)
      <4>1. t # cached /\ att[t].delayed
        BY <3>3 DEF IsDelayedMiss
      <4>2. cached \in dialed
        BY <2>3, <4>1 DEF IInv, HedgeOK
      <4>3. r.primaryFailed
        BY <1>9, <1>12, <2>3, <3>1, <4>2 DEF HedgeOK
      <4> QED
        BY <1>12, <3>2, <3>3, <4>3 DEF RefillsCached, IsDelayedMiss
    <3>4. CASE ~IsDelayedMiss(t)
      <4>1. res # "global"
        BY <1>2, <1>12, <2>3, <3>4 DEF ErrorEffect
      <4>2. r.hedging
        BY <1>2, <1>10, <1>12, <2>3 DEF ErrorEffect
      <4>3. CASE res = "target"
        BY <1>12, <3>2, <3>4, <4>3 DEF RefillsCached
      <4>4. CASE res # "target"
        BY <1>12, <3>2, <4>1, <4>2, <4>4 DEF RefillsCached, IsDelayedMiss
      <4> QED
        BY <4>3, <4>4
    <3> QED
      BY <3>3, <3>4
  <2> QED
    BY <1>1, <2>1, <2>2, <2>3
<1> QED
  BY <1>3, <1>4, <1>5, <1>6, <1>8, <1>9, <1>11, <1>12 DEF ExhaustedOK

-----------------------------------------------------------------------------
(* One lemma per group of actions: each keeps the invariant. *)

LEMMA InitKeeps == Init => IInv
<1> SUFFICES ASSUME Init PROVE IInv
  OBVIOUS
<1>1. Cardinality({}) = 0
  BY FS_EmptySet
<1>2. ActiveIn(att) = {} /\ Active = {}
  BY DEF Init, ActiveIn, Active, Off
<1>3. Cardinality(Target) \in Nat
  BY TargetsFinite
<1>4. TypeOK
  <2>1. limit \in Nat /\ limit \in {MaxConnect, Cardinality(Target)}
    BY <1>3, RaceAssumption DEF Init
  <2>2. kind \in {"boost", "lazy", "sequential"} /\ barred \subseteq Target
        /\ cached \in MaybeTarget
    BY RaceAssumption DEF Init, MaybeTarget
  <2>3. race \in RaceType
    BY <2>1 DEF Init, NewRace, RaceType
  <2>4. att \in [Target -> AttType]
    BY DEF Init, Off, AttType, Result
  <2> QED
    BY <2>1, <2>2, <2>3, <2>4 DEF Init, TypeOK, RaceType, AttType, MaybeTarget, Steps
<1>5. StageOK
  BY <1>2 DEF Init, StageOK, Early
<1>6. SocketsOK(race, att)
  BY RaceAssumption DEF Init, SocketsOK, Off, NewRace
<1>7. LeasesOK(att)
  BY <1>2 DEF Init, LeasesOK, Off
<1>8. BudgetOK(race, att)
  <2>1. Cardinality(dialed \cup ActiveIn(att)) = 0
    BY <1>1, <1>2 DEF Init
  <2> QED
    BY <1>1, <1>2, <2>1 DEF Init, BudgetOK, Off, NewRace, Top
<1>9. HedgeOK(race, att)
  BY DEF Init, HedgeOK, Off, NewRace
<1>10. ExhaustedOK(race, att) /\ OutcomeEarned
  BY DEF Init, ExhaustedOK, OutcomeEarned
<1> QED
  BY <1>4, <1>5, <1>6, <1>7, <1>8, <1>9, <1>10 DEF IInv

\* What the steps before the race may do: no attempt runs yet, and a canary
\* belongs to the recovery.
BeforeEffect ==
    /\ step \in Early \ {"start"} /\ step' \in Early
    /\ UNCHANGED <<config, attempts, race, ctxDone, winner, result>>
    /\ kind' \in {"boost", "cached", "fresh"}
    /\ kind' = "boost" <=> step' # "start"
    /\ kind' = "cached" => cached \in Target /\ recovery' = NoTarget
    /\ kind' \in {"boost", "cached"} => cache' = cache /\ kind = "boost"
    /\ recovery' \in Target \cup {NoTarget} /\ cache' \in {cache, NoTarget}
    /\ probe' \in SUBSET Target /\ probe' \subseteq {recovery'}
    /\ step' \in {"claimed", "probed"} => recovery' \in Target
    /\ step' \in {"claim", "lookup"} => recovery' = NoTarget

LEMMA BeforeRaceEffect ==
    ASSUME IInv, BeforeRace
    PROVE  BeforeEffect
<1>1. /\ recovery \in Target \cup {NoTarget} /\ probe \in SUBSET Target
      /\ barred \subseteq Target
  BY DEF IInv, TypeOK, MaybeTarget
<1>2. ASSUME step \in Early \ {"start"} PROVE kind = "boost" /\ probe \subseteq {recovery}
  <2>1. ActiveIn(att) = {}
    BY <1>2 DEF IInv, StageOK, ActiveIn, Off, Early
  <2> QED
    BY <1>2, <2>1 DEF IInv, StageOK, LeasesOK, Early
<1>3. ASSUME NEW t \in Target, ClaimRecovery(t) PROVE BeforeEffect
  BY <1>1, <1>2, <1>3, RaceAssumption
     DEF ClaimRecovery, BeforeEffect, Early, IInv, StageOK, LeasesOK
<1>4. CASE ClaimCanary
  BY <1>1, <1>2, <1>4 DEF ClaimCanary, BeforeEffect, Early, IInv, StageOK
<1>5. CASE KeepRecovery
  BY <1>1, <1>2, <1>5 DEF KeepRecovery, BeforeEffect, Early, IInv, StageOK
<1>6. CASE GiveUpRecovery
  BY <1>1, <1>2, <1>6 DEF GiveUpRecovery, BeforeEffect, Early, IInv, StageOK
<1>7. CASE NoRecovery
  BY <1>1, <1>2, <1>7 DEF NoRecovery, BeforeEffect, Early, IInv, StageOK
<1>8. CASE Hit
  BY <1>1, <1>2, <1>8 DEF Hit, BeforeEffect, Early, IInv, StageOK
<1>9. CASE Miss
  BY <1>1, <1>2, <1>9 DEF Miss, BeforeEffect, Early, IInv, StageOK
<1> QED
  BY <1>3, <1>4, <1>5, <1>6, <1>7, <1>8, <1>9 DEF BeforeRace

LEMMA BeforeRaceKeeps ==
    ASSUME IInv, BeforeRace
    PROVE  IInv'
<1>1. BeforeEffect
  BY BeforeRaceEffect
<1>2. /\ race' = race /\ att' = att /\ sock' = sock /\ permits' = permits
      /\ explorer' = explorer /\ dialed' = dialed /\ limit' = limit /\ barred' = barred
      /\ cached' = cached /\ ctxDone' = ctxDone /\ winner' = winner /\ result' = result
  BY <1>1 DEF BeforeEffect, config, attempts
<1>3. /\ race = NewRace /\ att = [t \in Target |-> Off] /\ dialed = {} /\ result = "pending"
      /\ winner = NoTarget
  BY <1>1 DEF BeforeEffect, IInv, StageOK, Early
<1>4. ActiveIn(att) = {} /\ Active = {}
  BY <1>3 DEF ActiveIn, Active, Off
<1>5. TypeOK'
  BY <1>1, <1>2 DEF BeforeEffect, IInv, TypeOK, MaybeTarget, Early, Steps
<1>6. StageOK'
  <2>1. Active' = {}
    BY <1>2, <1>4 DEF Active
  <2> QED
    BY <1>1, <1>2, <1>3, <2>1 DEF BeforeEffect, IInv, StageOK, Early
<1>7. SocketsOK(race, att)'
  BY <1>2 DEF IInv, SocketsOK
<1>8. LeasesOK(att)'
  BY <1>1, <1>2, <1>3, <1>4 DEF BeforeEffect, IInv, LeasesOK, ActiveIn, Off
<1>9. BudgetOK(race, att)'
  <2>1. Cardinality(ActiveIn(att)) = 0
    BY <1>4, FS_EmptySet
  <2>2. Top' \in {1, 2}
    BY DEF Top
  <2> QED
    BY <1>1, <1>2, <1>3, <1>4, <2>1, <2>2 DEF BeforeEffect, IInv, BudgetOK, ActiveIn, Off, NewRace, Early
<1>10. HedgeOK(race, att)'
  BY <1>1, <1>2, <1>3 DEF BeforeEffect, HedgeOK, Off, NewRace, Early
<1>11. ExhaustedOK(race, att)' /\ OutcomeEarned'
  BY <1>1, <1>2, <1>3 DEF BeforeEffect, ExhaustedOK, OutcomeEarned, Early
<1> QED
  BY <1>5, <1>6, <1>7, <1>8, <1>9, <1>10, <1>11 DEF IInv

\* What a step of an attempt may do: it belongs to t alone, and what t holds
\* follows its new place.
AttemptEffect(t) ==
    /\ UNCHANGED racer
    /\ att[t].st \notin {"off", "sent"} /\ att' \in [Target -> AttType]
    /\ att'[t].st # "off" /\ (att'[t].delayed <=> att[t].delayed)
    /\ \A u \in Target \ {t} : att'[u] = att[u] /\ sock'[u] = sock[u]
    /\ sock' \in [Target -> {"none", "open", "closed", "handed"}] /\ sock'[t] # "handed"
    /\ att'[t].st \in {"admit", "dial"} => sock'[t] = "none"
    /\ att'[t].st = "check" => sock'[t] \in {"none", "open"}
    /\ att'[t].st = "prepare" => sock'[t] = "open"
    /\ att'[t].st = "sent" =>
         /\ att'[t].res = "ok" <=> sock'[t] = "open"
         /\ att'[t].res \in {"target", "global"} => sock'[t] = "none"
         /\ att'[t].res \in Refusal => t \notin dialed'
         /\ att'[t].res = "busy" => kind = "lazy"
         /\ att'[t].res = "canceled" => Cancelled
         /\ t \notin probe' /\ t # explorer'
    /\ att'[t].st \in {"admit", "check"} => t \notin dialed'
    /\ probe' \in {probe, probe \ {t}} /\ explorer' \in {explorer, NoTarget}
    /\ dialed' \in {dialed, dialed \cup {t}}
    /\ permits' = IF att'[t].st \in {"check", "dial"} /\ sock'[t] = "none"
                  THEN permits \cup {t} ELSE permits \ {t}
    /\ \/ race' = race
       \/ /\ t = cached /\ cached \in dialed' /\ race.timer = "idle"
          /\ race' = [race EXCEPT !.timer = "armed"]

LEMMA SendEffect ==
    ASSUME IInv, NEW t \in Target, NEW res \in Result, Send(t, res)
    PROVE  /\ att' \in [Target -> AttType] /\ att'[t].st = "sent" /\ att'[t].res = res
           /\ att'[t].delayed = att[t].delayed
           /\ \A u \in Target \ {t} : att'[u] = att[u]
           /\ probe' = probe \ {t} /\ t # explorer' /\ explorer' \in {explorer, NoTarget}
<1>1. att \in [Target -> AttType]
  BY DEF IInv, TypeOK, AttType
<1>2. att' = [att EXCEPT ![t] = [@ EXCEPT !.st = "sent", !.res = res]]
  BY <1>1 DEF Send, AttType
<1>3. probe' = probe \ {t} /\ t # explorer' /\ explorer' \in {explorer, NoTarget}
  BY RaceAssumption DEF Send
<1> QED
  BY <1>1, <1>2, <1>3 DEF AttType

LEMMA ProceedEffect ==
    ASSUME IInv, NEW t \in Target, NEW st \in {"admit", "check", "dial", "prepare"},
           Proceed(t, st)
    PROVE  /\ att' \in [Target -> AttType] /\ att'[t].st = st
           /\ att'[t].delayed = att[t].delayed
           /\ \A u \in Target \ {t} : att'[u] = att[u]
           /\ probe' = probe /\ explorer' = explorer
BY DEF IInv, TypeOK, AttType, Proceed

LEMMA AttemptStepEffect ==
    ASSUME IInv, NEW t \in Target, AttemptStep(t)
    PROVE  AttemptEffect(t)
<1>1. /\ sock \in [Target -> {"none", "open", "closed", "handed"}]
      /\ permits = {u \in Target : att[u].st \in {"check", "dial"} /\ sock[u] = "none"}
  BY DEF IInv, TypeOK, LeasesOK
<1>2. /\ att[t].st \in {"admit", "dial"} => sock[t] = "none"
      /\ att[t].st = "check" => sock[t] \in {"none", "open"}
      /\ att[t].st = "prepare" => sock[t] = "open"
      /\ att[t].st \in {"admit", "check"} => t \notin dialed
  BY DEF IInv, SocketsOK, BudgetOK
<1>3. CASE Refused(t)
  <2>1. PICK res \in {"target", "global", "busy", "unhealthy", "canceled", "fail"} :
          /\ Send(t, res)
          /\ res = "busy" => kind = "lazy"
          /\ res = "canceled" => Cancelled
    BY <1>3 DEF Refused
  <2>2. res \in Result
    BY <2>1 DEF Result, Refusal
  <2> QED
    BY <1>1, <1>2, <1>3, <2>1, <2>2, SendEffect DEF Refused, AttemptEffect, racer
<1>4. CASE Acquire(t)
  BY <1>1, <1>2, <1>4, ProceedEffect DEF Acquire, AttemptEffect, racer
<1>5. CASE TakePooled(t)
  BY <1>1, <1>2, <1>5, ProceedEffect DEF TakePooled, AttemptEffect, racer
<1>6. CASE CheckFails(t)
  <2>1. PICK res \in {"unhealthy", "canceled", "fail", "circuit"} :
          Send(t, res) /\ (res = "canceled" => Cancelled)
    BY <1>6 DEF CheckFails
  <2>2. res \in Result
    BY <2>1 DEF Result, Refusal
  <2> QED
    BY <1>1, <1>2, <1>6, <2>1, <2>2, SendEffect DEF CheckFails, AttemptEffect, racer
<1>7. CASE Begin(t)
  BY <1>1, <1>2, <1>7, ProceedEffect DEF Begin, AttemptEffect, racer
<1>8. CASE DialSucceeds(t)
  BY <1>1, <1>2, <1>8, ProceedEffect DEF DialSucceeds, AttemptEffect, racer
<1>9. CASE DialFails(t)
  <2>1. PICK res \in {"fail", "neutral", "canceled"} :
          Send(t, res) /\ (res = "canceled" => Cancelled)
    BY <1>9 DEF DialFails
  <2>2. res \in Result
    BY <2>1 DEF Result
  <2> QED
    BY <1>1, <1>2, <1>9, <2>1, <2>2, SendEffect DEF DialFails, AttemptEffect, racer, Refusal
<1>10. CASE Prepared(t)
  <2>1. Send(t, "ok") /\ "ok" \in Result
    BY <1>10 DEF Prepared, Result
  <2> QED
    BY <1>1, <1>2, <1>10, <2>1, SendEffect DEF Prepared, AttemptEffect, racer, Refusal
<1>11. CASE PrepareFails(t)
  <2>1. PICK res \in {"fail", "canceled"} : Send(t, res) /\ (res = "canceled" => Cancelled)
    BY <1>11 DEF PrepareFails
  <2>2. res \in Result
    BY <2>1 DEF Result
  <2> QED
    BY <1>1, <1>2, <1>11, <2>1, <2>2, SendEffect DEF PrepareFails, AttemptEffect, racer, Refusal
<1> QED
  BY <1>3, <1>4, <1>5, <1>6, <1>7, <1>8, <1>9, <1>10, <1>11 DEF AttemptStep

LEMMA AttemptStepKeeps ==
    ASSUME IInv, NEW t \in Target, AttemptStep(t)
    PROVE  IInv'
<1>1. AttemptEffect(t)
  BY AttemptStepEffect
<1>2. /\ limit' = limit /\ barred' = barred /\ cached' = cached /\ kind' = kind
      /\ ctxDone' = ctxDone /\ winner' = winner /\ step' = step /\ recovery' = recovery
      /\ result' = result /\ cache' = cache
  BY <1>1 DEF AttemptEffect, racer, config
<1>3. race \in RaceType /\ att \in [Target -> AttType]
  BY DEF IInv, TypeOK, RaceType, AttType
<1>4. ActiveIn(att)' = ActiveIn(att) /\ t \in ActiveIn(att) /\ Active' = Active
  BY <1>1 DEF AttemptEffect, ActiveIn, Active
<1>5. step \in {"racing", "draining"} /\ result = "pending"
  BY <1>1, <1>4 DEF AttemptEffect, IInv, TypeOK, StageOK, Early, Steps, Off, Active, ActiveIn
<1>6. /\ race' \in RaceType /\ race'.attempted = race.attempted /\ race'.actual = race.actual
      /\ race'.stop = race.stop /\ race'.hedging = race.hedging /\ race'.verdict = race.verdict
      /\ race'.delayedHedge = race.delayedHedge /\ race'.primaryFailed = race.primaryFailed
      /\ race'.timer # "off" => race.timer # "off"
      /\ race'.timer = "armed" => race.timer = "armed" \/ cached \in dialed'
  BY <1>1, <1>3 DEF AttemptEffect, RaceType
<1>7. TypeOK'
  <2>1. probe' \subseteq Target /\ dialed' \subseteq Target /\ permits' \subseteq Target
        /\ explorer' \in MaybeTarget
    BY <1>1 DEF AttemptEffect, IInv, TypeOK, MaybeTarget
  <2>2. race' \in RaceType'
    BY <1>2, <1>6 DEF RaceType
  <2> QED
    BY <1>1, <1>2, <2>1, <2>2 DEF AttemptEffect, IInv, TypeOK, RaceType, AttType, MaybeTarget
<1>8. StageOK'
  BY <1>2, <1>4, <1>5 DEF IInv, StageOK, Early
<1>9. SocketsOK(race, att)'
  BY <1>1, <1>2, <1>6 DEF AttemptEffect, IInv, SocketsOK
<1>10. LeasesOK(att)'
  <2>1. permits' = {u \in Target : att'[u].st \in {"check", "dial"} /\ sock'[u] = "none"}
    BY <1>1 DEF AttemptEffect, IInv, LeasesOK
  <2> QED
    BY <1>1, <1>2, <1>4, <2>1, RaceAssumption DEF AttemptEffect, IInv, LeasesOK
<1>11. BudgetOK(race, att)'
  <2>1. dialed' \cup ActiveIn(att)' = dialed \cup ActiveIn(att)
    BY <1>1, <1>4 DEF AttemptEffect
  <2>2. Top' = Top
    BY <1>2 DEF Top
  <2>3. /\ Cardinality(ActiveIn(att)') <= Top'
        /\ Cardinality(dialed' \cup ActiveIn(att)') <= race'.actual
    BY <1>4, <1>6, <2>1, <2>2 DEF IInv, BudgetOK
  <2>4. ASSUME NEW u \in Target
        PROVE  /\ att'[u].st \in {"admit", "check"} => u \notin dialed'
               /\ att'[u].st = "sent" /\ att'[u].res \in Refusal => u \notin dialed'
               /\ att'[u].st = "sent" /\ att'[u].res = "busy" => kind' = "lazy"
    BY <1>1, <1>2 DEF AttemptEffect, IInv, BudgetOK
  <2>5. ASSUME NEW u \in Target, att'[u].st # "off", u \in probe' \cup {recovery'}
        PROVE  ActiveIn(att)' = {u}
    <3>1. att[u].st # "off" /\ u \in probe \cup {recovery}
      BY <1>1, <1>2, <2>5 DEF AttemptEffect
    <3> QED
      BY <1>4, <3>1 DEF IInv, BudgetOK
  <2>6. recovery' # NoTarget /\ step' \in {"racing", "draining"} => recovery' \in race'.attempted
    BY <1>2, <1>6 DEF IInv, BudgetOK
  <2>7. race'.timer # "off" => kind' = "cached" /\ ActiveIn(att)' \subseteq {cached'} /\ probe' = {}
    BY <1>1, <1>2, <1>4, <1>6 DEF AttemptEffect, IInv, BudgetOK
  <2> QED
    BY <2>3, <2>4, <2>5, <2>6, <2>7 DEF BudgetOK
<1>12. HedgeOK(race, att)'
  <2>1. ASSUME NEW u \in Target, step = "racing", att'[u].st = "sent", att'[u].res = "canceled"
        PROVE  ctxDone'
    BY <1>1, <1>2, <2>1 DEF AttemptEffect, IInv, HedgeOK, Cancelled
  <2>2. ASSUME kind = "cached"
        PROVE  /\ cached \in race'.attempted /\ cached \in Target
               /\ race'.timer = "armed" \/ race'.delayedHedge => cached \in dialed'
               /\ race'.verdict = "failed" =>
                    att'[cached].st = "off" /\ att'[cached].res \in NotStarted \cup {"fail"}
               /\ \A u \in Target \ {cached} : att'[u].st # "off" =>
                    race'.hedging /\ (att'[u].delayed => cached \in dialed')
    <3>1. cached \in Target /\ cached \in race.attempted
      BY <1>5, <2>2 DEF IInv, HedgeOK, StageOK
    <3>2. race'.verdict = "failed" => cached # t
      BY <1>1, <1>6, <2>2 DEF AttemptEffect, IInv, HedgeOK
    <3> QED
      BY <1>1, <1>6, <2>2, <3>1, <3>2 DEF AttemptEffect, IInv, HedgeOK
  <2>3. kind = "cached" /\ step = "racing" /\ att'[cached].st = "off" /\ cached \in dialed'
          /\ ~ctxDone => race'.primaryFailed
    <3>1. kind = "cached" => cached \in Target
      BY <2>2
    <3>2. kind = "cached" /\ att'[cached].st = "off" => cached # t /\ att[cached].st = "off"
      BY <1>1, <3>1 DEF AttemptEffect
    <3>3. cached # t => (cached \in dialed' <=> cached \in dialed)
      BY <1>1 DEF AttemptEffect
    <3> QED
      BY <1>6, <3>2, <3>3 DEF IInv, HedgeOK
  <2> QED
    BY <1>2, <2>1, <2>2, <2>3 DEF HedgeOK
<1>13. ExhaustedOK(race, att)' /\ OutcomeEarned'
  BY <1>2, <1>4, <1>5 DEF ExhaustedOK, OutcomeEarned
<1> QED
  BY <1>7, <1>8, <1>9, <1>10, <1>11, <1>12, <1>13 DEF IInv

\* The steps of the racer that launch: the first one of a decision, a result
\* that is an error, and the hedge.
LEMMA StartCachedKeeps ==
    ASSUME IInv, StartCached
    PROVE  IInv'
<1>1. PICK hedge \in BOOLEAN, canary \in BOOLEAN :
        /\ race' = [race EXCEPT !.attempted = {cached}, !.actual = 1,
                                !.timer = IF hedge /\ ~canary THEN "idle" ELSE "off"]
        /\ probe' = IF canary THEN {cached} ELSE {}
  BY DEF StartCached
<1>2. /\ step = "start" /\ kind = "cached" /\ step' = "racing"
      /\ att' = [att EXCEPT ![cached] = Launched(FALSE)]
      /\ limit' = limit /\ barred' = barred /\ cached' = cached /\ kind' = kind
      /\ ctxDone' = ctxDone /\ winner' = winner /\ recovery' = recovery /\ result' = result
      /\ cache' = cache /\ sock' = sock /\ permits' = permits /\ dialed' = dialed
      /\ explorer' = explorer
  BY DEF StartCached, outside, config
<1>3. /\ race = NewRace /\ att = [t \in Target |-> Off] /\ dialed = {} /\ winner = NoTarget
      /\ cached \in Target /\ recovery = NoTarget /\ result = "pending" /\ cache = cached
  BY <1>2 DEF IInv, StageOK, Early
<1>4. ActiveIn(att) = {} /\ Active = {}
  BY <1>3 DEF ActiveIn, Active, Off
<1>5. /\ att'[cached] = Launched(FALSE) /\ \A t \in Target \ {cached} : att'[t] = Off
      /\ ActiveIn(att)' = {cached}
  BY <1>2, <1>3 DEF Off, Launched, ActiveIn
<1>6. /\ race'.attempted = {cached} /\ race'.actual = 1 /\ race'.timer \in {"idle", "off"}
      /\ race'.timer # "off" => probe' = {}
      /\ race'.verdict = "none" /\ race'.delayedHedge = FALSE
  BY <1>1, <1>3 DEF NewRace
<1>7. TypeOK'
  <2>1. race' \in RaceType'
    <3>1. limit \in Nat /\ limit > 0
      BY LimitPositive DEF IInv
    <3> DEFINE tm == IF hedge /\ ~canary THEN "idle" ELSE "off"
    <3>2. tm \in {"idle", "off"} /\ race \in RaceType /\ 1 \in 0..limit
      BY <3>1 DEF IInv, TypeOK, RaceType
    <3>3. race' = [race EXCEPT !.attempted = {cached}, !.actual = 1, !.timer = tm]
      BY <1>1
    <3> HIDE DEF tm
    <3> QED
      BY <1>2, <1>3, <3>2, <3>3 DEF RaceType
  <2>2. att' \in [Target -> AttType]
    BY <1>2, <1>3 DEF AttType, Off, Launched, Result
  <2>3. probe' \subseteq Target
    BY <1>1, <1>3
  <2>4. /\ {cached, winner, explorer, recovery, cache}' \subseteq MaybeTarget
        /\ {permits, dialed}' \subseteq SUBSET Target /\ sock' = sock /\ limit' = limit
        /\ barred' = barred /\ kind' = kind /\ ctxDone' = ctxDone /\ result' = result
        /\ step' \in Steps
    BY <1>2 DEF IInv, TypeOK, Steps, MaybeTarget
  <2> QED
    BY <2>1, <2>2, <2>3, <2>4 DEF IInv, TypeOK, RaceType, AttType, MaybeTarget
<1>8. StageOK'
  BY <1>2, <1>3 DEF IInv, StageOK, Early
<1>9. SocketsOK(race, att)'
  <2>1. \A t \in Target : sock[t] = "none" /\ t \notin dialed
    BY <1>3 DEF IInv, SocketsOK, NewRace
  <2> QED
    BY <1>2, <1>3, <1>5, <1>6, <2>1, RaceAssumption DEF SocketsOK, Off, Launched
<1>10. LeasesOK(att)'
  <2>1. permits = {} /\ explorer = NoTarget
    BY <1>3, <1>4 DEF IInv, LeasesOK, Off
  <2> QED
    BY <1>1, <1>2, <1>3, <1>5, <2>1, RaceAssumption DEF LeasesOK, Off, Launched
<1>11. BudgetOK(race, att)'
  <2>1. Cardinality({cached}) = 1 /\ dialed' \cup {cached} = {cached}
    BY <1>2, <1>3, FS_Singleton
  <2>2. Top' = 2
    BY <1>2 DEF Top
  <2>3. /\ Cardinality(ActiveIn(att)') <= Top'
        /\ Cardinality(dialed' \cup ActiveIn(att)') <= race'.actual
    BY <1>5, <1>6, <2>1, <2>2
  <2>4. ASSUME NEW t \in Target
        PROVE  /\ t \notin dialed' /\ att'[t].st # "sent"
               /\ att'[t].st # "off" => ActiveIn(att)' = {t}
    BY <1>2, <1>3, <1>5 DEF Off, Launched
  <2> QED
    BY <1>2, <1>3, <1>5, <1>6, <2>3, <2>4 DEF BudgetOK
<1>12. HedgeOK(race, att)'
  BY <1>2, <1>3, <1>5, <1>6 DEF HedgeOK, Off, Launched
<1>13. ExhaustedOK(race, att)' /\ OutcomeEarned'
  BY <1>2, <1>3, <1>5 DEF ExhaustedOK, OutcomeEarned
<1> QED
  BY <1>7, <1>8, <1>9, <1>10, <1>11, <1>12, <1>13 DEF IInv

LEMMA StartFreshKeeps ==
    ASSUME IInv, StartFresh
    PROVE  IInv'
<1>1. /\ step = "start" /\ kind # "cached" /\ step' = "racing" /\ Launch(race, att, FALSE)
      /\ UNCHANGED <<outside, kind, ctxDone, winner, result, cache>>
  BY DEF StartFresh
<1>2. /\ race = NewRace /\ att = [t \in Target |-> Off] /\ dialed = {} /\ winner = NoTarget
      /\ result = "pending"
  BY <1>1 DEF IInv, StageOK, Early
<1>3. ActiveIn(att) = {}
  BY <1>2 DEF ActiveIn, Off
<1>4. race \in RaceType /\ att \in [Target -> AttType]
  BY DEF IInv, TypeOK, RaceType, AttType
<1>5. \/ recovery \in race.attempted \cup {NoTarget}
      \/ race.actual = 0 /\ recovery \in Selectable(race)
  BY <1>2 DEF NewRace, Selectable, IInv, TypeOK, MaybeTarget
<1>6. ReadyToLaunch(race, att, FALSE)
  <2>1. race.timer = "off"
    BY <1>2 DEF NewRace
  <2> QED
    BY <1>1, <1>2, <1>3, <1>4, <1>5, <2>1 DEF ReadyToLaunch, IInv
<1>7. /\ TypeOK' /\ SocketsOK(race, att)' /\ LeasesOK(att)' /\ BudgetOK(race, att)'
      /\ HedgeOK(race, att)' /\ ExhaustedOK(race, att)'
  BY <1>1, <1>6, LaunchKeeps DEF IInv
<1>8. StageOK'
  BY <1>1, <1>2 DEF IInv, StageOK, Early, outside, config
<1>9. OutcomeEarned'
  BY <1>1, <1>2 DEF OutcomeEarned
<1> QED
  BY <1>7, <1>8, <1>9 DEF IInv

LEMMA HedgeReadyKeeps ==
    ASSUME IInv, HedgeReady
    PROVE  IInv'
<1> DEFINE r == [race EXCEPT !.timer = "off", !.hedging = TRUE, !.delayedHedge = TRUE]
<1>1. /\ step = "racing" /\ step' = "racing" /\ race.timer = "armed" /\ Launch(r, att, TRUE)
      /\ UNCHANGED <<outside, kind, ctxDone, winner, result, cache>>
  BY DEF HedgeReady
<1>2. race \in RaceType /\ att \in [Target -> AttType]
  BY DEF IInv, TypeOK, RaceType, AttType
<1>3. /\ kind = "cached" /\ ActiveIn(att) \subseteq {cached} /\ probe = {} /\ cached \in dialed
      /\ recovery = NoTarget /\ winner = NoTarget /\ result = "pending"
  BY <1>1 DEF IInv, BudgetOK, HedgeOK, StageOK
<1>4. /\ r \in RaceType /\ r.attempted = race.attempted /\ r.actual = race.actual
      /\ r.timer = "off" /\ r.hedging /\ r.verdict = race.verdict
      /\ r.primaryFailed = race.primaryFailed
  BY <1>2 DEF RaceType
<1> HIDE DEF r
<1>5. SocketsOK(r, att)
  BY <1>4 DEF IInv, SocketsOK
<1>6. BudgetOK(r, att)
  BY <1>3, <1>4 DEF IInv, BudgetOK
<1>7. HedgeOK(r, att)
  BY <1>3, <1>4 DEF IInv, HedgeOK
<1>8. ActiveIn(att) \cap (probe \cup {recovery}) = {}
  BY <1>3, RaceAssumption DEF ActiveIn
<1>9. ReadyToLaunch(r, att, TRUE)
  BY <1>1, <1>2, <1>3, <1>4, <1>5, <1>6, <1>7, <1>8 DEF ReadyToLaunch, IInv
<1>10. /\ TypeOK' /\ SocketsOK(race, att)' /\ LeasesOK(att)' /\ BudgetOK(race, att)'
       /\ HedgeOK(race, att)' /\ ExhaustedOK(race, att)'
  BY <1>1, <1>9, LaunchKeeps DEF IInv
<1>11. StageOK'
  BY <1>1 DEF IInv, StageOK, Early, outside, config
<1>12. OutcomeEarned'
  BY <1>1, <1>3 DEF OutcomeEarned
<1> QED
  BY <1>10, <1>11, <1>12 DEF IInv

\* A result, whether it wins, fails or comes late, is read once.
LEMMA CollectKeeps ==
    ASSUME IInv, NEW t \in Target, Collect(t)
    PROVE  IInv'
<1>1. /\ step = "racing" /\ att[t].st = "sent"
      /\ limit' = limit /\ barred' = barred /\ cached' = cached /\ kind' = kind
      /\ ctxDone' = ctxDone /\ recovery' = recovery /\ result' = result
      /\ cache' = cache /\ sock' = sock /\ permits' = permits /\ dialed' = dialed
  BY DEF Collect, outside, config
<1>2. result = "pending" /\ winner = NoTarget
  BY <1>1 DEF IInv, StageOK
<1>3. CASE att[t].res = "ok"
  <2>1. /\ winner' = t /\ step' = "draining" /\ att' = Taken(t)
        /\ race' = race /\ probe' = probe /\ explorer' = explorer
    BY <1>3 DEF Collect
  <2>2. /\ att' \in [Target -> AttType] /\ att'[t].st = "off"
        /\ \A u \in Target \ {t} : att'[u] = att[u]
        /\ ActiveIn(att)' = ActiveIn(att) \ {t}
    BY <1>1, <2>1, TakenEffect DEF ActiveIn
  <2>3. t # NoTarget
    BY RaceAssumption
  <2>4. TypeOK'
    BY <1>1, <2>1, <2>2 DEF IInv, TypeOK, AttType, MaybeTarget, Steps
  <2>5. StageOK'
    BY <1>1, <1>2, <2>1, <2>3 DEF IInv, StageOK, Early
  <2>6. SocketsOK(race, att)'
    BY <1>1, <1>2, <1>3, <2>1, <2>2, RaceAssumption DEF IInv, SocketsOK
  <2>7. LeasesOK(att)'
    <3>1. permits = {u \in Target : att'[u].st \in {"check", "dial"} /\ sock[u] = "none"}
      BY <1>1, <2>2 DEF IInv, LeasesOK
    <3> QED
      BY <1>1, <2>1, <2>2, <3>1 DEF IInv, LeasesOK
  <2>8. BudgetOK(race, att)'
    <3>1. ActiveIn(att) \in SUBSET Target /\ dialed \in SUBSET Target
      BY DEF ActiveIn, IInv, TypeOK
    <3>2. /\ Cardinality(ActiveIn(att)') <= Cardinality(ActiveIn(att))
          /\ Cardinality(dialed \cup ActiveIn(att)') <= Cardinality(dialed \cup ActiveIn(att))
          /\ Cardinality(ActiveIn(att)') \in Nat /\ Cardinality(ActiveIn(att)) \in Nat
          /\ Cardinality(dialed \cup ActiveIn(att)') \in Nat
          /\ Cardinality(dialed \cup ActiveIn(att)) \in Nat
      BY <2>2, <3>1, SubsetBound, TargetsFinite
    <3>3. Top' = Top /\ Top \in {1, 2} /\ race.actual \in Nat
      BY <1>1 DEF Top, IInv, TypeOK
    <3>4. Cardinality(ActiveIn(att)') <= Top' /\ Cardinality(dialed' \cup ActiveIn(att)') <= race'.actual
      BY <1>1, <2>1, <3>2, <3>3 DEF IInv, BudgetOK
    <3>5. ASSUME NEW u \in Target, att'[u].st # "off", u \in probe' \cup {recovery'}
          PROVE  ActiveIn(att)' = {u}
      <4>1. u # t /\ ActiveIn(att) = {u}
        BY <1>1, <2>1, <2>2, <3>5 DEF IInv, BudgetOK
      <4> QED
        BY <1>1, <4>1 DEF ActiveIn
    <3> QED
      BY <1>1, <2>1, <2>2, <3>4, <3>5 DEF IInv, BudgetOK
  <2>9. HedgeOK(race, att)'
    <3>1. kind = "cached" => cached \in Target /\ cached \in race.attempted
      BY <1>1 DEF IInv, StageOK, HedgeOK
    <3>2. kind = "cached" /\ race.verdict = "failed" => cached # t
      BY <1>1 DEF IInv, HedgeOK
    <3> QED
      BY <1>1, <2>1, <2>2, <3>1, <3>2 DEF IInv, HedgeOK
  <2>10. ExhaustedOK(race, att)' /\ OutcomeEarned'
    BY <1>1, <1>2, <2>1 DEF ExhaustedOK, OutcomeEarned
  <2> QED
    BY <2>4, <2>5, <2>6, <2>7, <2>8, <2>9, <2>10 DEF IInv
<1>4. CASE att[t].res # "ok"
  <2> DEFINE r == AfterError(t)
             a == Taken(t)
  <2>1. /\ winner' = winner /\ step' = step
        /\ IF Refills(t, r) THEN Launch(r, a, r.delayedHedge)
           ELSE race' = r /\ att' = a /\ probe' = probe /\ explorer' = explorer
    BY <1>4 DEF Collect, AfterError
  <2>2. /\ SocketsOK(r, a) /\ LeasesOK(a) /\ BudgetOK(r, a) /\ HedgeOK(r, a)
        /\ r \in RaceType /\ a \in [Target -> AttType]
        /\ ~Refills(t, r) => ExhaustedOK(r, a)
        /\ Refills(t, r) => ReadyToLaunch(r, a, r.delayedHedge)
    BY <1>1, <1>4, AfterErrorKeeps
  <2> HIDE DEF r, a
  <2>3. StageOK'
    BY <1>1, <1>2, <2>1 DEF IInv, StageOK, Early
  <2>4. OutcomeEarned'
    BY <1>1, <1>2 DEF OutcomeEarned
  <2>5. /\ TypeOK' /\ SocketsOK(race, att)' /\ LeasesOK(att)' /\ BudgetOK(race, att)'
        /\ HedgeOK(race, att)' /\ ExhaustedOK(race, att)'
    <3>1. CASE Refills(t, r)
      BY <1>1, <2>1, <2>2, <3>1, LaunchKeeps DEF IInv, outside, config
    <3>2. CASE ~Refills(t, r)
      <4>1. /\ race' = r /\ att' = a /\ probe' = probe /\ explorer' = explorer
            /\ winner' = winner /\ step' = step /\ ExhaustedOK(r, a)
        BY <2>1, <2>2, <3>2
      <4>2. TypeOK'
        <5>1. race' \in RaceType' /\ att' \in [Target -> AttType]
          BY <1>1, <2>2, <4>1 DEF RaceType
        <5> QED
          BY <1>1, <4>1, <5>1 DEF IInv, TypeOK, RaceType, AttType, MaybeTarget
      <4>3. SocketsOK(race, att)'
        BY <1>1, <2>2, <4>1 DEF SocketsOK
      <4>4. LeasesOK(att)'
        BY <1>1, <2>2, <4>1 DEF LeasesOK, ActiveIn
      <4>5. BudgetOK(race, att)'
        <5>1. ActiveIn(att)' = ActiveIn(a) /\ Top' = Top
          BY <1>1, <4>1 DEF ActiveIn, Top
        <5> QED
          BY <1>1, <2>2, <4>1, <5>1 DEF BudgetOK
      <4>6. HedgeOK(race, att)'
        BY <1>1, <2>2, <4>1 DEF HedgeOK
      <4>7. ExhaustedOK(race, att)'
        BY <1>1, <4>1 DEF ExhaustedOK, ActiveIn, Selectable
      <4> QED
        BY <4>2, <4>3, <4>4, <4>5, <4>6, <4>7
    <3> QED
      BY <3>1, <3>2
  <2> QED
    BY <2>3, <2>4, <2>5 DEF IInv
<1> QED
  BY <1>3, <1>4

LEMMA DrainKeeps ==
    ASSUME IInv, NEW t \in Target, Drain(t)
    PROVE  IInv'
<1>1. /\ step = "draining" /\ att[t].st = "sent" /\ att' = Taken(t)
      /\ sock' = IF att[t].res = "ok" THEN [sock EXCEPT ![t] = "closed"] ELSE sock
      /\ limit' = limit /\ barred' = barred /\ cached' = cached /\ kind' = kind
      /\ ctxDone' = ctxDone /\ recovery' = recovery /\ result' = result /\ cache' = cache
      /\ permits' = permits /\ dialed' = dialed /\ winner' = winner /\ step' = step
      /\ race' = race /\ probe' = probe /\ explorer' = explorer
  BY DEF Drain, config
<1>2. result = "pending"
  BY <1>1 DEF IInv, StageOK
<1>3. /\ att' \in [Target -> AttType] /\ att'[t].st = "off"
      /\ \A u \in Target \ {t} : att'[u] = att[u]
      /\ ActiveIn(att)' = ActiveIn(att) \ {t}
  BY <1>1, TakenEffect DEF ActiveIn
<1>4. /\ sock \in [Target -> {"none", "open", "closed", "handed"}]
      /\ sock' \in [Target -> {"none", "open", "closed", "handed"}]
      /\ sock'[t] # "open" /\ (sock[t] = "none" => sock'[t] = "none")
      /\ \A u \in Target \ {t} : sock'[u] = sock[u]
  BY <1>1 DEF IInv, TypeOK, SocketsOK
<1>5. TypeOK'
  BY <1>1, <1>3, <1>4 DEF IInv, TypeOK, AttType, MaybeTarget
<1>6. StageOK'
  BY <1>1, <1>2 DEF IInv, StageOK, Early
<1>7. SocketsOK(race, att)'
  BY <1>1, <1>2, <1>3, <1>4 DEF IInv, SocketsOK
<1>8. LeasesOK(att)'
  <2>1. permits = {u \in Target : att'[u].st \in {"check", "dial"} /\ sock'[u] = "none"}
    BY <1>1, <1>3, <1>4 DEF IInv, LeasesOK
  <2> QED
    BY <1>1, <1>3, <2>1 DEF IInv, LeasesOK
<1>9. BudgetOK(race, att)'
  <2>1. ActiveIn(att) \in SUBSET Target /\ dialed \in SUBSET Target
    BY DEF ActiveIn, IInv, TypeOK
  <2>2. /\ Cardinality(ActiveIn(att)') <= Cardinality(ActiveIn(att))
        /\ Cardinality(dialed \cup ActiveIn(att)') <= Cardinality(dialed \cup ActiveIn(att))
        /\ Cardinality(ActiveIn(att)') \in Nat /\ Cardinality(ActiveIn(att)) \in Nat
        /\ Cardinality(dialed \cup ActiveIn(att)') \in Nat
        /\ Cardinality(dialed \cup ActiveIn(att)) \in Nat
    BY <1>3, <2>1, SubsetBound, TargetsFinite
  <2>3. Top' = Top /\ Top \in {1, 2} /\ race.actual \in Nat
    BY <1>1 DEF Top, IInv, TypeOK
  <2>4. Cardinality(ActiveIn(att)') <= Top' /\ Cardinality(dialed' \cup ActiveIn(att)') <= race'.actual
    BY <1>1, <2>2, <2>3 DEF IInv, BudgetOK
  <2>5. ASSUME NEW u \in Target, att'[u].st # "off", u \in probe' \cup {recovery'}
        PROVE  ActiveIn(att)' = {u}
    <3>1. u # t /\ ActiveIn(att) = {u}
      BY <1>1, <1>3, <2>5 DEF IInv, BudgetOK
    <3> QED
      BY <1>1, <3>1 DEF ActiveIn
  <2> QED
    BY <1>1, <1>3, <2>4, <2>5 DEF IInv, BudgetOK
<1>10. HedgeOK(race, att)'
  <2>1. kind = "cached" => cached \in Target
    BY DEF IInv, StageOK
  <2>2. kind = "cached" /\ race.verdict = "failed" => cached # t
    BY <1>1 DEF IInv, HedgeOK
  <2> QED
    BY <1>1, <1>3, <2>1, <2>2 DEF IInv, HedgeOK
<1>11. ExhaustedOK(race, att)' /\ OutcomeEarned'
  BY <1>1, <1>2 DEF ExhaustedOK, OutcomeEarned
<1> QED
  BY <1>5, <1>6, <1>7, <1>8, <1>9, <1>10, <1>11 DEF IInv

\* The steps that leave the racer's variables and the attempts alone: the end
\* of the context, a winner given up for it, the return and what is deferred.
RestOfRacer ==
    ReturnEarly \/ ContextEnds \/ AbandonWinner \/ Return \/ Finish \/ CtxExpires

LEMMA RestOfRacerKeeps ==
    ASSUME IInv, RestOfRacer
    PROVE  IInv'
<1>1. /\ race' = race /\ att' = att /\ limit' = limit /\ barred' = barred /\ cached' = cached
      /\ kind' = kind /\ permits' = permits /\ dialed' = dialed /\ explorer' = explorer
  BY DEF RestOfRacer, ReturnEarly, ContextEnds, AbandonWinner, Return, Finish, CtxExpires,
         config, attempts, outside
<1>2. /\ ActiveIn(att)' = ActiveIn(att) /\ Active' = Active /\ Active = ActiveIn(att)
      /\ Top' = Top
  BY <1>1 DEF ActiveIn, Active, Top
<1>3. CASE ReturnEarly
  <2>1. /\ step = "start" /\ ctxDone /\ step' = "returned" /\ result' = "failed"
        /\ UNCHANGED <<sock, ctxDone, winner, probe, recovery, cache>>
    BY <1>3 DEF ReturnEarly, attempts
  <2>2. /\ ActiveIn(att) = {} /\ winner = NoTarget /\ result = "pending"
    BY <2>1 DEF IInv, StageOK, Early, ActiveIn, Off
  <2>3. TypeOK'
    BY <1>1, <2>1 DEF IInv, TypeOK, Steps, MaybeTarget
  <2>4. StageOK'
    BY <1>1, <1>2, <2>1, <2>2 DEF IInv, StageOK, Early
  <2>5. SocketsOK(race, att)'
    BY <1>1, <2>1, <2>2, RaceAssumption DEF IInv, SocketsOK
  <2>6. LeasesOK(att)' /\ BudgetOK(race, att)'
    BY <1>1, <1>2, <2>1 DEF IInv, LeasesOK, BudgetOK
  <2>7. HedgeOK(race, att)'
    BY <1>1, <2>1 DEF IInv, HedgeOK
  <2>8. ExhaustedOK(race, att)' /\ OutcomeEarned'
    <3>1. kind = "cached" => cache = cached
      BY <2>2 DEF IInv, StageOK
    <3> QED
      BY <1>1, <2>1, <3>1 DEF ExhaustedOK, OutcomeEarned
  <2> QED
    BY <2>3, <2>4, <2>5, <2>6, <2>7, <2>8 DEF IInv
<1>4. CASE ContextEnds
  <2>1. /\ step = "racing" /\ ctxDone /\ step' = "draining"
        /\ UNCHANGED <<sock, ctxDone, winner, probe, recovery, cache, result>>
    BY <1>4 DEF ContextEnds, outside
  <2>2. result = "pending" /\ winner = NoTarget
    BY <2>1 DEF IInv, StageOK
  <2>3. TypeOK'
    BY <1>1, <2>1 DEF IInv, TypeOK, Steps, MaybeTarget
  <2>4. StageOK'
    BY <1>1, <1>2, <2>1, <2>2 DEF IInv, StageOK, Early
  <2>5. SocketsOK(race, att)' /\ LeasesOK(att)' /\ BudgetOK(race, att)'
    BY <1>1, <1>2, <2>1 DEF IInv, SocketsOK, LeasesOK, BudgetOK
  <2>6. HedgeOK(race, att)' /\ ExhaustedOK(race, att)' /\ OutcomeEarned'
    BY <1>1, <2>1, <2>2 DEF IInv, HedgeOK, ExhaustedOK, OutcomeEarned
  <2> QED
    BY <2>3, <2>4, <2>5, <2>6 DEF IInv
<1>5. CASE AbandonWinner
  <2>1. /\ step = "draining" /\ winner # NoTarget /\ ctxDone
        /\ kind \in {"fresh", "lazy"} /\ winner' = NoTarget
        /\ sock' = [sock EXCEPT ![winner] = "closed"]
        /\ UNCHANGED <<step, ctxDone, probe, recovery, cache, result>>
    BY <1>5 DEF AbandonWinner
  <2>2. result = "pending" /\ winner \in Target
    BY <2>1 DEF IInv, StageOK, TypeOK, MaybeTarget
  <2>3. /\ att[winner].st = "off" /\ winner \in race.attempted
        /\ sock \in [Target -> {"none", "open", "closed", "handed"}]
    BY <2>1, <2>2 DEF IInv, SocketsOK, TypeOK
  <2>4. TypeOK'
    BY <1>1, <2>1, <2>2, <2>3 DEF IInv, TypeOK, MaybeTarget
  <2>5. StageOK'
    BY <1>1, <1>2, <2>1, <2>2 DEF IInv, StageOK, Early
  <2>6. SocketsOK(race, att)'
    BY <1>1, <2>1, <2>2, <2>3, RaceAssumption DEF IInv, SocketsOK
  <2>7. LeasesOK(att)'
    <3>1. permits = {u \in Target : att[u].st \in {"check", "dial"} /\ sock'[u] = "none"}
      BY <2>1, <2>2, <2>3 DEF IInv, LeasesOK
    <3> QED
      BY <1>1, <1>2, <2>1, <3>1 DEF IInv, LeasesOK
  <2>8. BudgetOK(race, att)'
    BY <1>1, <1>2, <2>1 DEF IInv, BudgetOK
  <2>9. HedgeOK(race, att)' /\ ExhaustedOK(race, att)' /\ OutcomeEarned'
    BY <1>1, <2>1, <2>2 DEF IInv, HedgeOK, ExhaustedOK, OutcomeEarned
  <2> QED
    BY <2>4, <2>5, <2>6, <2>7, <2>8, <2>9 DEF IInv
<1>6. CASE Return
  <2>1. /\ step \in {"racing", "draining"} /\ Active = {} /\ step' = "returned"
        /\ result' = IF winner = NoTarget THEN "failed" ELSE "won"
        /\ sock' = [t \in Target |-> IF t = winner THEN "handed" ELSE sock[t]]
        /\ cache' = CacheAfter
        /\ UNCHANGED <<ctxDone, winner, probe, recovery>>
    BY <1>6 DEF Return
  <2>2. result = "pending" /\ winner \in MaybeTarget /\ kind # "boost"
        /\ sock \in [Target -> {"none", "open", "closed", "handed"}]
    BY <2>1 DEF IInv, StageOK, TypeOK
  <2>3. cache' \in MaybeTarget
    BY <2>1, <2>2 DEF CacheAfter, IInv, TypeOK, MaybeTarget
  <2>4. TypeOK'
    <3>1. sock' \in [Target -> {"none", "open", "closed", "handed"}]
      BY <2>1, <2>2
    <3> QED
      BY <1>1, <2>1, <2>3, <3>1 DEF IInv, TypeOK, Steps, MaybeTarget
  <2>5. StageOK'
    BY <1>1, <1>2, <2>1, <2>2 DEF IInv, StageOK, Early
  <2>6. SocketsOK(race, att)'
    BY <1>1, <1>2, <2>1, <2>2 DEF IInv, SocketsOK, Active
  <2>7. LeasesOK(att)'
    <3>1. permits = {u \in Target : att[u].st \in {"check", "dial"} /\ sock'[u] = "none"}
      BY <2>1 DEF IInv, LeasesOK, Active
    <3> QED
      BY <1>1, <1>2, <2>1, <3>1 DEF IInv, LeasesOK
  <2>8. BudgetOK(race, att)'
    BY <1>1, <1>2, <2>1 DEF IInv, BudgetOK
  <2>9. HedgeOK(race, att)' /\ ExhaustedOK(race, att)'
    BY <1>1, <2>1, <2>2 DEF IInv, HedgeOK, ExhaustedOK
  <2>10. OutcomeEarned'
    <3>1. result' = "failed" /\ ~ctxDone' /\ ~race'.stop =>
             race'.actual = limit' \/ Selectable(race)' = {}
      <4>1. SUFFICES ASSUME winner = NoTarget, ~ctxDone, ~race.stop
                     PROVE  race.actual = limit \/ Selectable(race) = {}
        BY <1>1, <2>1 DEF Selectable
      <4>2. step = "racing"
        BY <2>1, <4>1 DEF IInv, StageOK
      <4> QED
        BY <1>2, <2>1, <4>1, <4>2 DEF IInv, ExhaustedOK
    <3>2. kind' = "cached" /\ result' = "failed" /\ cache' # cached' =>
             att'[cached'].res \in NotStarted \cup {"fail"}
      <4>1. SUFFICES ASSUME kind = "cached", winner = NoTarget, cache' # cached
                     PROVE  att[cached].res \in NotStarted \cup {"fail"}
        BY <1>1, <2>1
      <4>2. cache = cached
        BY <2>2, <4>1 DEF IInv, StageOK
      <4>3. race.verdict = "failed"
        BY <2>1, <4>1, <4>2 DEF CacheAfter
      <4> QED
        BY <4>1, <4>3 DEF IInv, HedgeOK
    <3> QED
      BY <3>1, <3>2 DEF OutcomeEarned
  <2> QED
    BY <2>4, <2>5, <2>6, <2>7, <2>8, <2>9, <2>10 DEF IInv
<1>7. CASE Finish
  <2>1. /\ step = "returned" /\ step' = "over"
        /\ probe' = probe \ {recovery} /\ recovery' = NoTarget
        /\ UNCHANGED <<sock, ctxDone, winner, cache, result>>
    BY <1>7 DEF Finish, attempts
  <2>2. ActiveIn(att) = {} /\ result # "pending"
    BY <1>2, <2>1 DEF IInv, StageOK
  <2>3. TypeOK'
    BY <1>1, <2>1 DEF IInv, TypeOK, Steps, MaybeTarget
  <2>4. StageOK'
    BY <1>1, <1>2, <2>1, <2>2 DEF IInv, StageOK, Early
  <2>5. SocketsOK(race, att)'
    BY <1>1, <2>1 DEF IInv, SocketsOK
  <2>6. LeasesOK(att)'
    BY <1>1, <1>2, <2>1, <2>2 DEF IInv, LeasesOK
  <2>7. BudgetOK(race, att)'
    BY <1>1, <1>2, <2>1, RaceAssumption DEF IInv, BudgetOK
  <2>8. HedgeOK(race, att)' /\ ExhaustedOK(race, att)'
    BY <1>1, <2>1 DEF IInv, HedgeOK, ExhaustedOK
  <2>9. OutcomeEarned'
    <3>1. Selectable(race)' \subseteq Selectable(race)
      BY <1>1, <2>1, RaceAssumption DEF Selectable, IInv, TypeOK
    <3> QED
      BY <1>1, <2>1, <3>1 DEF IInv, OutcomeEarned
  <2> QED
    BY <2>3, <2>4, <2>5, <2>6, <2>7, <2>8, <2>9 DEF IInv
<1>8. CASE CtxExpires
  <2>1. /\ step \notin {"returned", "over"} /\ ctxDone' = TRUE
        /\ UNCHANGED <<sock, step, winner, probe, recovery, cache, result>>
    BY <1>8 DEF CtxExpires, attempts
  <2>2. result = "pending"
    BY <2>1 DEF IInv, StageOK
  <2>3. TypeOK'
    BY <1>1, <2>1 DEF IInv, TypeOK
  <2>4. StageOK'
    BY <1>1, <1>2, <2>1 DEF IInv, StageOK
  <2>5. SocketsOK(race, att)' /\ LeasesOK(att)' /\ BudgetOK(race, att)'
    BY <1>1, <1>2, <2>1 DEF IInv, SocketsOK, LeasesOK, BudgetOK
  <2>6. HedgeOK(race, att)' /\ ExhaustedOK(race, att)' /\ OutcomeEarned'
    BY <1>1, <2>1, <2>2 DEF IInv, HedgeOK, ExhaustedOK, OutcomeEarned
  <2> QED
    BY <2>3, <2>4, <2>5, <2>6 DEF IInv
<1> QED
  BY <1>3, <1>4, <1>5, <1>6, <1>7, <1>8 DEF RestOfRacer

LEMMA StutterKeeps ==
    ASSUME IInv, UNCHANGED vars
    PROVE  IInv'
<1>1. TypeOK' /\ StageOK' /\ LeasesOK(att)' /\ ExhaustedOK(race, att)' /\ OutcomeEarned'
  BY DEF IInv, vars, TypeOK, StageOK, LeasesOK, ExhaustedOK, OutcomeEarned, Active, ActiveIn,
         Selectable
<1>2. SocketsOK(race, att)' /\ HedgeOK(race, att)'
  BY DEF IInv, vars, SocketsOK, HedgeOK
<1>3. BudgetOK(race, att)'
  BY DEF IInv, vars, BudgetOK, ActiveIn, Top
<1> QED
  BY <1>1, <1>2, <1>3 DEF IInv

LEMMA NextKeeps ==
    ASSUME IInv, [Next]_vars
    PROVE  IInv'
<1>1. CASE BeforeRace
  BY <1>1, BeforeRaceKeeps
<1>2. CASE StartCached
  BY <1>2, StartCachedKeeps
<1>3. CASE StartFresh
  BY <1>3, StartFreshKeeps
<1>4. ASSUME NEW t \in Target, Collect(t) PROVE IInv'
  BY <1>4, CollectKeeps
<1>5. ASSUME NEW t \in Target, Drain(t) PROVE IInv'
  BY <1>5, DrainKeeps
<1>6. CASE HedgeReady
  BY <1>6, HedgeReadyKeeps
<1>7. CASE RestOfRacer
  BY <1>7, RestOfRacerKeeps
<1>8. ASSUME NEW t \in Target, AttemptStep(t) PROVE IInv'
  BY <1>8, AttemptStepKeeps
<1>9. CASE UNCHANGED vars
  BY <1>9, StutterKeeps
<1> QED
  BY <1>1, <1>2, <1>3, <1>4, <1>5, <1>6, <1>7, <1>8, <1>9 DEF Next, RacerStep, RestOfRacer

-----------------------------------------------------------------------------
\* The invariant of a routing decision holds in every reachable state.
THEOREM Invariance == Spec => []IInv
<1>1. Init => IInv
  BY InitKeeps
<1>2. IInv /\ [Next]_vars => IInv'
  BY NextKeeps
<1> QED
  BY <1>1, <1>2, PTL DEF Spec

\* No dial slot, lease, canary or goroutine outlives a decision.
THEOREM DecisionsLeaveNothing == Spec => []NothingLeftBehind
<1>1. IInv => NothingLeftBehind
  <2>1. ASSUME IInv, step = "over" PROVE Active = {} /\ recovery = NoTarget /\ probe = {}
    <3>1. Active = {} /\ recovery = NoTarget
      BY <2>1 DEF IInv, StageOK
    <3> QED
      BY <2>1, <3>1, RaceAssumption DEF IInv, LeasesOK, TypeOK, Active, ActiveIn
  <2> QED
    BY <2>1 DEF IInv, NothingLeftBehind, LeasesOK, Active, ActiveIn
<1> QED
  BY <1>1, Invariance, PTL

\* At most Top attempts run, at most limit targets are dialled, canaries run alone.
THEOREM BudgetIsHeld == Spec => []BudgetHeld
<1>1. IInv => BudgetHeld
  <2> SUFFICES ASSUME IInv PROVE BudgetHeld
    OBVIOUS
  <2>1. Active = ActiveIn(att) /\ Active \in SUBSET Target /\ dialed \in SUBSET Target
    BY DEF Active, ActiveIn, IInv, TypeOK
  <2>2. Cardinality(dialed) <= limit
    <3>1. Cardinality(dialed) <= Cardinality(dialed \cup Active)
      BY <2>1, SubsetBound
    <3>2. Cardinality(dialed \cup Active) <= race.actual /\ race.actual \in 0..limit
      BY <2>1 DEF IInv, BudgetOK, TypeOK
    <3>3. Cardinality(dialed) \in Nat /\ Cardinality(dialed \cup Active) \in Nat /\ limit \in Nat
      BY <2>1, TargetsFinite, LimitPositive DEF IInv
    <3> QED
      BY <3>1, <3>2, <3>3
  <2> QED
    BY <2>1, <2>2 DEF IInv, BudgetOK, BudgetHeld, Active
<1> QED
  BY <1>1, Invariance, PTL

\* A failed decision has used its budget or its targets, and the cached winner
\* is dropped only for its own failure.
THEOREM FailureIsEarned == Spec => []OutcomeEarned
<1>1. IInv => OutcomeEarned
  BY DEF IInv
<1> QED
  BY <1>1, Invariance, PTL

-----------------------------------------------------------------------------
(* The refinement, without the fairness: every initial state of a decision  *)
(* is one of RaceOutcome, every step opens, discards, delivers or fails, or  *)
(* leaves the sockets and the result alone.                                 *)

LEMMA AttemptStepMaps ==
    ASSUME IInv, NEW t \in Target, AttemptStep(t)
    PROVE  [Outcome!Next]_(Outcome!vars)
<1>1. AttemptEffect(t)
  BY AttemptStepEffect
<1>2. result' = result /\ result = "pending"
  <2>1. t \in Active
    BY <1>1 DEF AttemptEffect, Active
  <2> QED
    BY <1>1, <2>1 DEF AttemptEffect, racer, IInv, StageOK
<1>3. sock \in [Target -> {"none", "open", "closed", "handed"}]
  BY DEF IInv, TypeOK
<1>4. \/ sock' = sock
      \/ sock[t] = "none" /\ sock' = [sock EXCEPT ![t] = "open"]
      \/ sock[t] = "open" /\ sock' = [sock EXCEPT ![t] = "closed"]
  <2>1. /\ att[t].st \in {"admit", "dial"} => sock[t] = "none"
        /\ att[t].st = "prepare" => sock[t] = "open"
    BY DEF IInv, SocketsOK
  <2> QED
    BY <1>3, <2>1 DEF AttemptStep, Refused, Acquire, TakePooled, CheckFails, Begin,
                      DialSucceeds, DialFails, Prepared, PrepareFails
<1> QED
  BY <1>2, <1>4 DEF Outcome!Next, Outcome!vars, Outcome!Open, Outcome!Discard

LEMMA StepMaps ==
    ASSUME IInv, [Next]_vars
    PROVE  [Outcome!Next]_(Outcome!vars)
<1>1. CASE BeforeRace
  BY <1>1 DEF BeforeRace, ClaimRecovery, ClaimCanary, KeepRecovery, GiveUpRecovery,
              NoRecovery, Hit, Miss, attempts, Outcome!vars
<1>2. CASE StartCached \/ StartFresh \/ HedgeReady \/ ContextEnds
  BY <1>2 DEF StartCached, StartFresh, HedgeReady, ContextEnds, outside, Outcome!vars
<1>3. ASSUME NEW t \in Target, Collect(t) PROVE [Outcome!Next]_(Outcome!vars)
  BY <1>3 DEF Collect, outside, Outcome!vars
<1>4. CASE Finish \/ CtxExpires
  BY <1>4 DEF Finish, CtxExpires, attempts, Outcome!vars
<1>5. ASSUME NEW t \in Target, Drain(t) PROVE [Outcome!Next]_(Outcome!vars)
  <2>1. result = "pending" /\ result' = result /\ (att[t].res = "ok" => sock[t] = "open")
    BY <1>5 DEF Drain, IInv, StageOK, SocketsOK
  <2> QED
    BY <1>5, <2>1 DEF Drain, Outcome!Next, Outcome!vars, Outcome!Discard
<1>6. CASE AbandonWinner
  <2>1. winner \in Target /\ result = "pending" /\ result' = result
    BY <1>6 DEF AbandonWinner, IInv, StageOK, TypeOK, MaybeTarget
  <2>2. sock[winner] = "open"
    BY <2>1 DEF IInv, SocketsOK
  <2> QED
    BY <1>6, <2>1, <2>2 DEF AbandonWinner, Outcome!Next, Outcome!Discard
<1>7. CASE ReturnEarly
  <2>1. result = "pending" /\ \A t \in Target : sock[t] # "open"
    BY <1>7, RaceAssumption
       DEF ReturnEarly, IInv, StageOK, SocketsOK, NewRace, Early
  <2> QED
    BY <1>7, <2>1 DEF ReturnEarly, attempts, Outcome!Next, Outcome!Fail
<1>8. CASE Return
  <2>1. /\ Active = {} /\ result = "pending" /\ winner \in MaybeTarget
        /\ sock \in [Target -> {"none", "open", "closed", "handed"}]
    BY <1>8 DEF Return, IInv, StageOK, TypeOK
  <2>2. \A t \in Target : sock[t] = "open" <=> t = winner
    BY <2>1 DEF IInv, SocketsOK, Active
  <2>3. CASE winner = NoTarget
    <3>1. sock' = sock /\ result' = "failed"
      BY <1>8, <2>1, <2>3, RaceAssumption DEF Return
    <3> QED
      BY <2>1, <2>2, <2>3, <3>1, RaceAssumption DEF Outcome!Next, Outcome!Fail
  <2>4. CASE winner # NoTarget
    <3>1. winner \in Target
      BY <2>1, <2>4 DEF MaybeTarget
    <3>2. sock' = [sock EXCEPT ![winner] = "handed"] /\ result' = "won"
      BY <1>8, <2>1, <2>4, <3>1 DEF Return
    <3> QED
      BY <2>1, <2>2, <3>1, <3>2 DEF Outcome!Next, Outcome!Deliver
  <2> QED
    BY <2>3, <2>4
<1>9. ASSUME NEW t \in Target, AttemptStep(t) PROVE [Outcome!Next]_(Outcome!vars)
  BY <1>9, AttemptStepMaps
<1>10. CASE UNCHANGED vars
  BY <1>10 DEF vars, Outcome!vars
<1> QED
  BY <1>1, <1>2, <1>3, <1>4, <1>5, <1>6, <1>7, <1>8, <1>9, <1>10 DEF Next, RacerStep

\* The safety half of ImplementsOutcome: whatever the order of results,
\* cancellations and deadlines, a decision only opens sockets, closes them, hands
\* over the one that is left open, or fails with none open, and does nothing more.
THEOREM DecisionImplementsOutcome == Spec => Outcome!Init /\ [][Outcome!Next]_(Outcome!vars)
<1>1. Init => Outcome!Init
  BY DEF Init, Outcome!Init
<1>2. IInv /\ [Next]_vars => [Outcome!Next]_(Outcome!vars)
  BY StepMaps
<1> QED
  BY <1>1, <1>2, Invariance, PTL DEF Spec
=============================================================================
