------------------------- MODULE ServerReloadProofs -------------------------
(***************************************************************************)
(* The server's leases, quotas and records for every set of connections,   *)
(* listen addresses and client addresses, every number of reloads and all  *)
(* limits.                                                                 *)
(***************************************************************************)
EXTENDS ServerReload, FiniteSetTheorems, TLAPS

Holders(g) == {c \in Conn : conn[c].st \in Leased /\ conn[c].gen = g}
Counted == {c \in Conn : conn[c].st \in {"admitted"} \cup InHandler}
Held(a) == {c \in Conn : conn[c].st \in {"pending", "active"} /\ Record(c) = a}
HeldBy(a, i) == {c \in Held(a) : conn[c].st = "active" /\ conn[c].ip = i}
Replaced == {g \in Gen : g # current /\ life[g] \notin {"unborn", "done"}}

\* The generations up to the current one have been published.  All before it
\* are being retired or have been, by the reload that replaced them, and they
\* stay in server.retired, each with a watcher, until they are done.
GenerationsOK ==
    /\ \A g \in Gen : life[g] = "unborn" <=> g > current
    /\ life[current] = "live" \/ closed
    /\ \A g \in Gen : g < current /\ life[g] \in {"live", "retiring"} =>
         reload.st = "retiring" /\ g = current - 1
    /\ \A g \in Gen : g < current /\ life[g] # "done" => g \in retired
    /\ \A g \in retired : g < current /\ watcher[g] = "waiting"
    /\ \A g \in Gen : g >= current => watcher[g] = "off"
    /\ reload.st = "retiring" => current > 1
    /\ reload.st = "staging" => current < MaxGen /\ Cardinality(Replaced) < MaxRetired
    /\ Cardinality(Replaced) <= MaxRetired

\* refs counts the leases; what drains has some, what is done has none.
LeasesOK ==
    /\ \A g \in Gen : refs[g] = Cardinality(Holders(g))
    /\ \A g \in Gen : life[g] = "done" => refs[g] = 0
    /\ \A g \in Gen : life[g] = "draining" => refs[g] > 0
    /\ \A c \in Conn : conn[c].st \in Leased \cup {"loaded"} =>
         conn[c].gen \in conn[c].born..current
    /\ \A c \in Conn : conn[c].st # "idle" =>
         conn[c].born \in 1..current /\ conn[c].adm \in Gen

\* The listeners are those of the current generation, their records are the
\* registered ones, and a record seen by a reload can only have been removed.
ListenersOK ==
    /\ \A k \in Key : listener[k] # NoListener <=> k \in bindings[current]
    /\ \A k \in Key : listener[k] # NoListener =>
         /\ listener[k].born \in 1..current /\ listener[k].adm \in Gen
         /\ admission[k] = listener[k].adm
    /\ reload.st = "staging" => \A k \in Key : admission[k] \in {0, reload.adms[k]}

\* While every generation since a connection's listener was created binds its
\* address, the listener is still the current one; and as long as one such
\* generation is in use, the connection's record stays registered.
ServedSince(c, g) == \A h \in conn[c].born..g : conn[c].key \in bindings[h]
RecordsOK ==
    \A c \in Conn : conn[c].st # "idle" =>
        /\ ServedSince(c, current) =>
             listener[conn[c].key] = [born |-> conn[c].born, adm |-> conn[c].adm]
        /\ \A g \in conn[c].born..current :
             life[g] # "done" /\ ServedSince(c, g) => admission[conn[c].key] = conn[c].adm

\* An unused idle record has somebody on the way to remove it.
CleanupDue(k) ==
    \/ \E g \in Gen : watcher[g] = "pruning" \/ (watcher[g] = "waiting" /\ life[g] = "done")
    \/ \E c \in Conn : conn[c].st = "released" /\ conn[c].key = k /\ conn[c].adm = admission[k]
CleanupOK ==
    \A k \in Key : admission[k] # 0 /\ Unused(k) /\ IdleRecord(k) => CleanupDue(k)

IInv ==
    /\ TypeOK
    /\ GenerationsOK
    /\ LeasesOK
    /\ QuotaAccounting
    /\ ListenersOK
    /\ RecordsOK
    /\ CleanupOK

-----------------------------------------------------------------------------
(* Counting connections and generations. *)

ConnType == [st : {"idle"} \cup InLoop \cup InHandler, key : Key, born : 0..MaxGen,
             adm : 0..MaxGen, gen : 0..MaxGen, ip : Address]

LEMMA ConnsFinite ==
    ASSUME NEW S \in SUBSET Conn
    PROVE  IsFiniteSet(S) /\ Cardinality(S) \in 0..Cardinality(Conn)
           /\ Cardinality(Conn) \in Nat
<1>1. IsFiniteSet(Conn)
  BY ServerAssumption
<1>2. IsFiniteSet(S) /\ Cardinality(S) <= Cardinality(Conn)
  BY <1>1, FS_Subset
<1>3. Cardinality(S) \in Nat /\ Cardinality(Conn) \in Nat
  BY <1>1, <1>2, FS_CardinalityType
<1> QED
  BY <1>2, <1>3

\* A set of connections that a step of c may have entered or left.
LEMMA CountMoves ==
    ASSUME NEW c \in Conn, NEW S \in SUBSET Conn, NEW T \in SUBSET Conn,
           \A d \in Conn \ {c} : d \in S <=> d \in T
    PROVE  /\ (c \in S <=> c \in T) => Cardinality(T) = Cardinality(S)
           /\ c \in S /\ c \notin T => Cardinality(T) = Cardinality(S) - 1
           /\ c \notin S /\ c \in T => Cardinality(T) = Cardinality(S) + 1
           /\ c \in S => Cardinality(S) > 0
           /\ Cardinality(S) \in Nat /\ Cardinality(T) \in Nat
<1>1. IsFiniteSet(S) /\ IsFiniteSet(T) /\ Cardinality(S) \in Nat /\ Cardinality(T) \in Nat
  BY ConnsFinite
<1>2. (c \in S <=> c \in T) => S = T
  OBVIOUS
<1>3. c \in S /\ c \notin T => T = S \ {c}
  OBVIOUS
<1>4. c \notin S /\ c \in T => T = S \cup {c}
  OBVIOUS
<1>5. c \in S => Cardinality(S \ {c}) = Cardinality(S) - 1
  BY <1>1, FS_RemoveElement
<1>6. c \notin S => Cardinality(S \cup {c}) = Cardinality(S) + 1
  BY <1>1, FS_AddElement
<1>7. c \in S => Cardinality(S) > 0
  BY <1>1, FS_EmptySet
<1> QED
  BY <1>1, <1>2, <1>3, <1>4, <1>5, <1>6, <1>7

LEMMA GensFinite ==
    ASSUME NEW S \in SUBSET Gen
    PROVE  IsFiniteSet(S) /\ Cardinality(S) \in Nat
<1>1. IsFiniteSet(Gen)
  BY ServerAssumption, FS_Interval DEF Gen
<1> QED
  BY <1>1, FS_Subset, FS_CardinalityType

LEMMA GensShrink ==
    ASSUME NEW S \in SUBSET Gen, NEW T \in SUBSET S
    PROVE  Cardinality(T) <= Cardinality(S)
BY GensFinite, FS_Subset

LEMMA NoConnIdle == NoConn \in ConnType /\ NoConn.st = "idle"
<1>1. (CHOOSE k \in Key : TRUE) \in Key /\ (CHOOSE a \in Address : TRUE) \in Address
  BY ServerAssumption
<1> DEFINE k0 == CHOOSE k \in Key : TRUE
           a0 == CHOOSE a \in Address : TRUE
<1>2. NoConn = [st |-> "idle", key |-> k0, born |-> 0, adm |-> 0, gen |-> 0, ip |-> a0]
  BY DEF NoConn
<1>3. k0 \in Key /\ a0 \in Address
  BY <1>1
<1>4. 0 \in 0..MaxGen
  BY ServerAssumption
<1> HIDE DEF k0, a0
<1> QED
  BY <1>2, <1>3, <1>4 DEF ConnType

-----------------------------------------------------------------------------
(* What a step of one connection may do, whatever the step. *)

\* Its lease: kept, taken on a live generation, or given back.
LeaseChange(c) ==
    LET g == conn[c].gen IN
    \/ /\ refs' = refs /\ life' = life
       /\ conn[c].st \in Leased <=> conn'[c].st \in Leased
       /\ conn'[c].st \in Leased => conn'[c].gen = g
    \/ /\ conn[c].st = "loaded" /\ conn'[c].st = "leased" /\ conn'[c].gen = g
       /\ life[g] = "live" /\ life' = life
       /\ refs' = [refs EXCEPT ![g] = @ + 1]
    \/ /\ conn[c].st \in Leased /\ conn'[c].st \notin Leased
       /\ refs' = [refs EXCEPT ![g] = CountDown(@)]
       /\ life' = [life EXCEPT ![g] = LifeAfterRelease(g)]

\* Its place in the process.
GlobalChange(c) ==
    LET counts == {"admitted"} \cup InHandler IN
    \/ global' = global /\ (conn[c].st \in counts <=> conn'[c].st \in counts)
    \/ /\ global < GlobalLimit /\ global' = global + 1
       /\ conn[c].st \notin counts /\ conn'[c].st \in counts
    \/ global' = global - 1 /\ conn[c].st \in counts /\ conn'[c].st \notin counts

\* Its place in its record and under its address.
QuotaChange(c) ==
    LET a == Record(c) IN
    \/ /\ active' = active /\ perIP' = perIP
       /\ {conn[c].st, conn'[c].st} \cap {"pending", "active"} = {}
    \/ /\ conn[c].st = "admitted" /\ conn'[c].st = "pending"
       /\ active' = [active EXCEPT ![a] = @ + 1] /\ perIP' = perIP
    \/ /\ conn[c].st = "pending" /\ conn'[c].st = "active" /\ conn'[c].ip \in Address
       /\ active' = active
       /\ perIP' = [perIP EXCEPT ![a] = [perIP[a] EXCEPT ![conn'[c].ip] = perIP[a][conn'[c].ip] + 1]]
    \/ /\ conn[c].st = "pending" /\ conn'[c].st = "released"
       /\ active' = [active EXCEPT ![a] = CountDown(@)] /\ perIP' = perIP
    \/ /\ conn[c].st = "active" /\ conn'[c].st = "released"
       /\ active' = [active EXCEPT ![a] = CountDown(@)]
       /\ perIP' = [perIP EXCEPT ![a] = [perIP[a] EXCEPT ![conn[c].ip] = CountDown(perIP[a][conn[c].ip])]]

\* Who it is: a new connection of a listener, or the one it was; and the
\* generation it refers to.
IdentityChange(c) ==
    /\ \/ conn'[c].st = "idle"
       \/ /\ conn[c].st # "idle" /\ conn'[c].key = conn[c].key
          /\ conn'[c].born = conn[c].born /\ conn'[c].adm = conn[c].adm
       \/ /\ conn[c].st = "idle" /\ conn'[c].st = "accepted"
          /\ listener[conn'[c].key] # NoListener
          /\ conn'[c].born = listener[conn'[c].key].born
          /\ conn'[c].adm = listener[conn'[c].key].adm
    /\ conn'[c].st \in Leased \cup {"loaded"} =>
         /\ conn[c].st # "idle"
         /\ \/ conn'[c].gen = current
            \/ conn[c].st \in Leased \cup {"loaded"} /\ conn'[c].gen = conn[c].gen

\* The registered record of its address: removed by its own cleanup only.
RecordChange(c) ==
    \/ /\ admission' = admission
       /\ conn[c].st = "released" => conn'[c].st = "released"
    \/ /\ conn[c].st = "released"
       /\ admission' = [admission EXCEPT ![conn[c].key] =
            IF @ = conn[c].adm /\ IdleRecord(conn[c].key) /\ Unused(conn[c].key)
            THEN 0 ELSE @]

ConnEffect(c) ==
    /\ UNCHANGED <<current, bindings, retired, watcher, listener, reload, closed>>
    /\ conn' \in [Conn -> ConnType]
    /\ \A d \in Conn \ {c} : conn'[d] = conn[d]
    /\ LeaseChange(c) /\ GlobalChange(c) /\ QuotaChange(c) /\ IdentityChange(c) /\ RecordChange(c)

ConnStep(c) ==
    \/ \E k \in Key : Accept(c, k)
    \/ AcceptStep(c)
    \/ \E i \in Address : AssignIP(c, i)
    \/ HandlerStep(c)

LEMMA ConnStepEffect ==
    ASSUME TypeOK, NEW c \in Conn, ConnStep(c)
    PROVE  ConnEffect(c)
<1> USE DEF ConnEffect, generations, quotas, Leased, InLoop, InHandler
<1>1. /\ conn \in [Conn -> ConnType] /\ current \in 0..MaxGen
      /\ listener \in [Key -> [born : 0..MaxGen, adm : 0..MaxGen]]
  BY ServerAssumption DEF TypeOK, ConnType, Gen
<1>2. /\ perIP \in [Key \X Gen -> [Address -> 0..Cardinality(Conn)]]
      /\ conn[c].st # "idle" /\ conn[c].adm \in Gen => Record(c) \in Key \X Gen
  BY <1>1 DEF TypeOK, Record, ConnType
<1>3. ASSUME NEW st \in {"idle"} \cup InLoop \cup InHandler, Set(c, st)
      PROVE  /\ conn' \in [Conn -> ConnType] /\ \A d \in Conn \ {c} : conn'[d] = conn[d]
             /\ conn'[c].st = st /\ conn'[c].key = conn[c].key /\ conn'[c].born = conn[c].born
             /\ conn'[c].adm = conn[c].adm /\ conn'[c].gen = conn[c].gen
             /\ conn'[c].ip = conn[c].ip
  BY <1>1, <1>3 DEF Set, ConnType
<1>4. ASSUME Drop(c)
      PROVE  /\ conn' \in [Conn -> ConnType] /\ \A d \in Conn \ {c} : conn'[d] = conn[d]
             /\ conn'[c].st = "idle"
  BY <1>1, <1>4, NoConnIdle DEF Drop
<1>5. ASSUME NEW k \in Key, Accept(c, k) PROVE ConnEffect(c)
  <2> DEFINE new == [NoConn EXCEPT !.st = "accepted", !.key = k, !.born = listener[k].born,
                                   !.adm = listener[k].adm]
  <2>1. /\ new \in ConnType /\ new.st = "accepted" /\ new.key = k
        /\ new.born = listener[k].born /\ new.adm = listener[k].adm
    BY <1>1, NoConnIdle DEF ConnType
  <2>2. conn' = [conn EXCEPT ![c] = new] /\ conn[c].st = "idle" /\ listener[k] # NoListener
    BY <1>5 DEF Accept
  <2> HIDE DEF new
  <2>3. /\ conn' \in [Conn -> ConnType] /\ \A d \in Conn \ {c} : conn'[d] = conn[d]
        /\ conn'[c] = new
    BY <1>1, <2>1, <2>2
  <2>4. LeaseChange(c) /\ GlobalChange(c) /\ QuotaChange(c)
    BY <1>5, <2>1, <2>2, <2>3 DEF Accept, LeaseChange, GlobalChange, QuotaChange
  <2>5. IdentityChange(c) /\ RecordChange(c)
    BY <1>5, <2>1, <2>2, <2>3 DEF Accept, IdentityChange, RecordChange
  <2> QED
    BY <1>5, <2>3, <2>4, <2>5 DEF Accept
<1>6. CASE LoadGeneration(c)
  <2>1. CASE conn[c].key \in bindings[current]
    <3>2. conn' = [conn EXCEPT ![c] = [conn[c] EXCEPT !.st = "loaded", !.gen = current]]
          /\ conn[c].st = "accepted"
      BY <1>1, <1>6, <2>1 DEF LoadGeneration, ConnType
    <3>1. /\ conn' \in [Conn -> ConnType] /\ \A d \in Conn \ {c} : conn'[d] = conn[d]
          /\ conn'[c].st = "loaded" /\ conn'[c].key = conn[c].key /\ conn'[c].born = conn[c].born
          /\ conn'[c].adm = conn[c].adm /\ conn'[c].gen = current /\ conn[c].st = "accepted"
      BY <1>1, <3>2 DEF ConnType
    <3> QED
      BY <1>6, <3>1 DEF LoadGeneration, LeaseChange, GlobalChange, QuotaChange, IdentityChange,
                        RecordChange
  <2>2. CASE conn[c].key \notin bindings[current]
    BY <1>4, <1>6, <2>2 DEF LoadGeneration, LeaseChange, GlobalChange, QuotaChange,
                            IdentityChange, RecordChange
  <2> QED
    BY <2>1, <2>2
<1>7. CASE TryAcquire(c)
  <2>1. CASE CanAcquire(conn[c].gen)
    BY <1>3, <1>7, <2>1 DEF TryAcquire, CanAcquire, LeaseChange, GlobalChange, QuotaChange,
                            IdentityChange, RecordChange
  <2>2. CASE ~CanAcquire(conn[c].gen)
    BY <1>3, <1>4, <1>7, <2>2 DEF TryAcquire, LeaseChange, GlobalChange, QuotaChange,
                                  IdentityChange, RecordChange
  <2> QED
    BY <2>1, <2>2
<1>8. CASE RecheckCurrent(c)
  BY <1>3, <1>8 DEF RecheckCurrent, release, LeaseChange, GlobalChange, QuotaChange,
                    IdentityChange, RecordChange
<1>9. CASE RejectBound(c)
  BY <1>4, <1>9 DEF RejectBound, release, LeaseChange, GlobalChange, QuotaChange,
                    IdentityChange, RecordChange
<1>10. CASE AdmitGlobal(c)
  BY <1>3, <1>10 DEF AdmitGlobal, LeaseChange, GlobalChange, QuotaChange,
                     IdentityChange, RecordChange
<1>11. CASE ReserveRule(c)
  BY <1>3, <1>11 DEF ReserveRule, LeaseChange, GlobalChange, QuotaChange,
                     IdentityChange, RecordChange
<1>12. CASE RuleFull(c)
  BY <1>4, <1>12 DEF RuleFull, release, LeaseChange, GlobalChange, QuotaChange,
                     IdentityChange, RecordChange
<1>13. ASSUME NEW i \in Address, AssignIP(c, i) PROVE ConnEffect(c)
  <2>1. /\ conn' \in [Conn -> ConnType] /\ \A d \in Conn \ {c} : conn'[d] = conn[d]
        /\ conn'[c].st = "active" /\ conn'[c].key = conn[c].key /\ conn'[c].born = conn[c].born
        /\ conn'[c].adm = conn[c].adm /\ conn'[c].gen = conn[c].gen /\ conn'[c].ip = i
        /\ conn[c].st = "pending"
    BY <1>1, <1>13 DEF AssignIP, ConnType
  <2>2. perIP' = [perIP EXCEPT ![Record(c)] =
                    [perIP[Record(c)] EXCEPT ![i] = perIP[Record(c)][i] + 1]]
    BY <1>2, <1>13 DEF AssignIP
  <2>3. QuotaChange(c)
    BY <1>13, <2>1, <2>2 DEF AssignIP, QuotaChange
  <2> QED
    BY <1>13, <2>1, <2>3 DEF AssignIP, LeaseChange, GlobalChange, IdentityChange, RecordChange
<1>14. CASE RejectPending(c)
  BY <1>3, <1>14 DEF RejectPending, LeaseChange, GlobalChange, QuotaChange,
                     IdentityChange, RecordChange
<1>15. CASE ReleaseRule(c)
  <2>1. QuotaChange(c)
    BY <1>3, <1>15 DEF ReleaseRule, QuotaChange
  <2> QED
    BY <1>3, <1>15, <2>1 DEF ReleaseRule, LeaseChange, GlobalChange, IdentityChange, RecordChange
<1>16. CASE maybeCleanupAdmission(c)
  BY <1>3, <1>16 DEF maybeCleanupAdmission, LeaseChange, GlobalChange, QuotaChange,
                     IdentityChange, RecordChange
<1>17. CASE HandlerExits(c)
  BY <1>4, <1>17 DEF HandlerExits, release, LeaseChange, GlobalChange, QuotaChange,
                     IdentityChange, RecordChange
<1> QED
  BY <1>5, <1>6, <1>7, <1>8, <1>9, <1>10, <1>11, <1>12, <1>13, <1>14, <1>15, <1>16, <1>17
     DEF ConnStep, AcceptStep, HandlerStep

\* The leases of the other connections are as they were.
LEMMA ConnKeepsLeases ==
    ASSUME IInv, NEW c \in Conn, ConnEffect(c)
    PROVE  /\ LeasesOK'
           /\ refs' \in [Gen -> Nat]
           /\ life' \in [Gen -> {"unborn", "live", "retiring", "draining", "done"}]
           /\ \A g \in Gen : life'[g] = life[g] \/ (life[g] = "draining" /\ life'[g] = "done")
<1>1. /\ conn \in [Conn -> ConnType] /\ conn' \in [Conn -> ConnType]
      /\ \A d \in Conn \ {c} : conn'[d] = conn[d]
      /\ refs \in [Gen -> Nat] /\ current \in Gen /\ current' = current
      /\ life \in [Gen -> {"unborn", "live", "retiring", "draining", "done"}]
  BY DEF ConnEffect, IInv, TypeOK, ConnType
<1>2. LeaseChange(c) /\ IdentityChange(c)
  BY DEF ConnEffect
<1>3. Leased \subseteq Leased \cup {"loaded"} /\ "loaded" \notin Leased /\ "idle" \notin Leased
      /\ "leased" \in Leased
  BY DEF Leased, InHandler
<1>4. /\ \A g \in Gen : refs[g] = Cardinality(Holders(g))
      /\ \A g \in Gen : life[g] = "done" => refs[g] = 0
      /\ \A g \in Gen : life[g] = "draining" => refs[g] > 0
      /\ \A d \in Conn : conn[d].st \in Leased \cup {"loaded"} =>
           conn[d].gen \in conn[d].born..current
      /\ \A d \in Conn : conn[d].st # "idle" => conn[d].born \in 1..current /\ conn[d].adm \in Gen
  BY DEF IInv, LeasesOK
<1>5. ASSUME NEW d \in Conn, conn[d].st \in Leased \cup {"loaded"} PROVE conn[d].gen \in Gen
  <2>1. conn[d].st # "idle"
    BY <1>3, <1>5
  <2>2. conn[d].born \in 1..current /\ conn[d].gen \in conn[d].born..current
    BY <1>4, <1>5, <2>1
  <2> QED
    BY <1>1, <2>2, ServerAssumption DEF Gen
<1>6. ASSUME NEW g \in Gen
      PROVE  /\ (c \in Holders(g) <=> c \in Holders(g)') =>
                  Cardinality(Holders(g)') = Cardinality(Holders(g))
             /\ c \in Holders(g) /\ c \notin Holders(g)' =>
                  Cardinality(Holders(g)') = Cardinality(Holders(g)) - 1
             /\ c \notin Holders(g) /\ c \in Holders(g)' =>
                  Cardinality(Holders(g)') = Cardinality(Holders(g)) + 1
             /\ c \in Holders(g) => Cardinality(Holders(g)) > 0
             /\ Cardinality(Holders(g)) \in Nat
  <2>1. Holders(g) \in SUBSET Conn /\ Holders(g)' \in SUBSET Conn
    BY DEF Holders
  <2>2. \A d \in Conn \ {c} : d \in Holders(g) <=> d \in Holders(g)'
    BY <1>1 DEF Holders
  <2> QED
    BY <2>1, <2>2, CountMoves
<1>7. \A g \in Gen : /\ c \in Holders(g) <=> conn[c].st \in Leased /\ conn[c].gen = g
                     /\ c \in Holders(g)' <=> conn'[c].st \in Leased /\ conn'[c].gen = g
  BY DEF Holders
<1> HIDE DEF Leased
<1>8. /\ \A g \in Gen : refs'[g] = Cardinality(Holders(g)')
      /\ \A g \in Gen : life'[g] = "done" => refs'[g] = 0
      /\ \A g \in Gen : life'[g] = "draining" => refs'[g] > 0
      /\ refs' \in [Gen -> Nat]
      /\ life' \in [Gen -> {"unborn", "live", "retiring", "draining", "done"}]
      /\ \A g \in Gen : life'[g] = life[g] \/ (life[g] = "draining" /\ life'[g] = "done")
  <2>1. CASE /\ refs' = refs /\ life' = life
             /\ conn[c].st \in Leased <=> conn'[c].st \in Leased
             /\ conn'[c].st \in Leased => conn'[c].gen = conn[c].gen
    <3>1. \A g \in Gen : c \in Holders(g) <=> c \in Holders(g)'
      BY <1>7, <2>1
    <3> QED
      BY <1>1, <1>4, <1>6, <2>1, <3>1
  <2>2. CASE /\ conn[c].st = "loaded" /\ conn'[c].st = "leased" /\ conn'[c].gen = conn[c].gen
             /\ life[conn[c].gen] = "live" /\ life' = life
             /\ refs' = [refs EXCEPT ![conn[c].gen] = @ + 1]
    <3>1. conn[c].gen \in Gen
      BY <1>5, <2>2
    <3>2. \A g \in Gen : c \notin Holders(g) /\ (c \in Holders(g)' <=> g = conn[c].gen)
      BY <1>3, <1>7, <2>2
    <3>3. \A g \in Gen : refs'[g] = Cardinality(Holders(g)')
      BY <1>1, <1>4, <1>6, <2>2, <3>1, <3>2
    <3>4. /\ \A g \in Gen : life'[g] = "done" => refs'[g] = 0
          /\ \A g \in Gen : life'[g] = "draining" => refs'[g] > 0
      BY <1>1, <1>4, <2>2, <3>1
    <3> QED
      BY <1>1, <2>2, <3>1, <3>3, <3>4
  <2>3. CASE /\ conn[c].st \in Leased /\ conn'[c].st \notin Leased
             /\ refs' = [refs EXCEPT ![conn[c].gen] = CountDown(@)]
             /\ life' = [life EXCEPT ![conn[c].gen] = LifeAfterRelease(conn[c].gen)]
    <3> DEFINE h == conn[c].gen
    <3>1. h \in Gen
      BY <1>5, <2>3
    <3>2. \A g \in Gen : (c \in Holders(g) <=> g = h) /\ c \notin Holders(g)'
      BY <1>7, <2>3
    <3>3. refs[h] > 0 /\ refs[h] \in Nat
      BY <1>1, <1>4, <1>6, <3>1, <3>2
    <3>4. refs' = [refs EXCEPT ![h] = refs[h] - 1]
      BY <2>3, <3>3 DEF CountDown
    <3>5. \A g \in Gen : refs'[g] = Cardinality(Holders(g)')
      BY <1>1, <1>4, <1>6, <3>1, <3>2, <3>4
    <3>6. /\ \A g \in Gen \ {h} : life'[g] = life[g] /\ refs'[g] = refs[g]
          /\ refs'[h] = refs[h] - 1
          /\ life'[h] = IF life[h] = "draining" /\ refs[h] = 1 THEN "done" ELSE life[h]
          /\ life' \in [Gen -> {"unborn", "live", "retiring", "draining", "done"}]
      BY <1>1, <2>3, <3>1, <3>4 DEF LifeAfterRelease
    <3>7. refs' \in [Gen -> Nat]
      BY <1>1, <3>1, <3>3, <3>4
    <3>8. life[h] # "done"
      BY <1>4, <3>1, <3>3
    <3>9. /\ life'[h] = "done" => refs'[h] = 0
          /\ life'[h] = "draining" => refs'[h] > 0
          /\ life'[h] = life[h] \/ (life[h] = "draining" /\ life'[h] = "done")
      BY <3>3, <3>6, <3>8
    <3> HIDE DEF h
    <3> QED
      BY <1>1, <1>4, <3>5, <3>6, <3>7, <3>9
  <2> QED
    BY <1>2, <2>1, <2>2, <2>3 DEF LeaseChange
<1>9. ASSUME NEW d \in Conn
      PROVE  /\ conn'[d].st \in Leased \cup {"loaded"} => conn'[d].gen \in conn'[d].born..current
             /\ conn'[d].st # "idle" => conn'[d].born \in 1..current /\ conn'[d].adm \in Gen
  <2>1. CASE d # c
    BY <1>1, <1>4, <2>1
  <2>2. CASE d = c
    <3>1. conn'[c].st # "idle" => conn'[c].born \in 1..current /\ conn'[c].adm \in Gen
      <4>1. \A k \in Key : listener[k] # NoListener =>
               listener[k].born \in 1..current /\ listener[k].adm \in Gen
        BY DEF IInv, ListenersOK
      <4>2. conn'[c].key \in Key
        BY <1>1 DEF ConnType
      <4> QED
        BY <1>2, <1>4, <4>1, <4>2 DEF IdentityChange
    <3>2. conn'[c].st \in Leased \cup {"loaded"} => conn'[c].gen \in conn'[c].born..current
      <4>1. SUFFICES ASSUME conn'[c].st \in Leased \cup {"loaded"}
                     PROVE  conn'[c].gen \in conn'[c].born..current
        OBVIOUS
      <4>2. /\ conn'[c].st # "idle" /\ conn'[c].born = conn[c].born
            /\ \/ conn'[c].gen = current
               \/ conn[c].st \in Leased \cup {"loaded"} /\ conn'[c].gen = conn[c].gen
        BY <1>2, <1>3, <4>1 DEF IdentityChange
      <4>3. conn'[c].born \in 1..current /\ current \in Int
        BY <1>1, <3>1, <4>2 DEF Gen
      <4> QED
        BY <1>4, <4>2, <4>3
    <3> QED
      BY <2>2, <3>1, <3>2
  <2> QED
    BY <2>1, <2>2
<1> QED
  BY <1>1, <1>8, <1>9 DEF LeasesOK

\* The quota counters follow the connection.
LEMMA ConnKeepsQuotas ==
    ASSUME IInv, NEW c \in Conn, ConnEffect(c)
    PROVE  /\ QuotaAccounting'
           /\ global' \in 0..GlobalLimit
           /\ active' \in [Key \X Gen -> 0..Cardinality(Conn)]
           /\ perIP' \in [Key \X Gen -> [Address -> 0..Cardinality(Conn)]]
           /\ \A a \in Key \X Gen : active'[a] = 0 /\ active[a] # 0 =>
                conn'[c].st = "released" /\ conn[c].st # "idle" /\ a = Record(c)
<1>1. /\ conn \in [Conn -> ConnType] /\ conn' \in [Conn -> ConnType]
      /\ \A d \in Conn \ {c} : conn'[d] = conn[d]
      /\ active \in [Key \X Gen -> Nat] /\ perIP \in [Key \X Gen -> [Address -> Nat]]
      /\ global \in 0..GlobalLimit /\ GlobalLimit \in Nat
  BY ConnsFinite, ServerAssumption DEF ConnEffect, IInv, TypeOK, ConnType
<1>2. GlobalChange(c) /\ QuotaChange(c) /\ IdentityChange(c)
  BY DEF ConnEffect
<1>3. global' = Cardinality(Counted)' /\ global' \in 0..GlobalLimit
  <2>1. Counted \in SUBSET Conn /\ Counted' \in SUBSET Conn
    BY DEF Counted
  <2>2. \A d \in Conn \ {c} : d \in Counted <=> d \in Counted'
    BY <1>1 DEF Counted
  <2>3. /\ (c \in Counted <=> c \in Counted') => Cardinality(Counted') = Cardinality(Counted)
        /\ c \in Counted /\ c \notin Counted' => Cardinality(Counted') = Cardinality(Counted) - 1
        /\ c \notin Counted /\ c \in Counted' => Cardinality(Counted') = Cardinality(Counted) + 1
        /\ c \in Counted => Cardinality(Counted) > 0
        /\ Cardinality(Counted) \in Nat
    BY <2>1, <2>2, CountMoves
  <2>4. /\ c \in Counted <=> conn[c].st \in {"admitted"} \cup InHandler
        /\ c \in Counted' <=> conn'[c].st \in {"admitted"} \cup InHandler
    BY DEF Counted
  <2>5. global = Cardinality(Counted)
    BY DEF IInv, QuotaAccounting, Counted
  <2> QED
    BY <1>1, <1>2, <2>3, <2>4, <2>5 DEF GlobalChange
<1>4. ASSUME NEW a \in Key \X Gen
      PROVE  /\ active[a] = Cardinality(Held(a))
             /\ \A i \in Address : perIP[a][i] = Cardinality(HeldBy(a, i))
             /\ (c \in Held(a) <=> c \in Held(a)') =>
                  Cardinality(Held(a)') = Cardinality(Held(a))
             /\ c \in Held(a) /\ c \notin Held(a)' =>
                  Cardinality(Held(a)') = Cardinality(Held(a)) - 1
             /\ c \notin Held(a) /\ c \in Held(a)' =>
                  Cardinality(Held(a)') = Cardinality(Held(a)) + 1
             /\ c \in Held(a) => Cardinality(Held(a)) > 0
             /\ \A i \in Address :
                  /\ (c \in HeldBy(a, i) <=> c \in HeldBy(a, i)') =>
                       Cardinality(HeldBy(a, i)') = Cardinality(HeldBy(a, i))
                  /\ c \in HeldBy(a, i) /\ c \notin HeldBy(a, i)' =>
                       Cardinality(HeldBy(a, i)') = Cardinality(HeldBy(a, i)) - 1
                  /\ c \notin HeldBy(a, i) /\ c \in HeldBy(a, i)' =>
                       Cardinality(HeldBy(a, i)') = Cardinality(HeldBy(a, i)) + 1
                  /\ c \in HeldBy(a, i) => Cardinality(HeldBy(a, i)) > 0
  <2>1. Held(a) \in SUBSET Conn /\ Held(a)' \in SUBSET Conn
    BY DEF Held
  <2>2. \A d \in Conn \ {c} : d \in Held(a) <=> d \in Held(a)'
    BY <1>1 DEF Held, Record
  <2>3. ASSUME NEW i \in Address
        PROVE  /\ HeldBy(a, i) \in SUBSET Conn /\ HeldBy(a, i)' \in SUBSET Conn
               /\ \A d \in Conn \ {c} : d \in HeldBy(a, i) <=> d \in HeldBy(a, i)'
    BY <1>1, <2>1, <2>2 DEF HeldBy
  <2>4. /\ active[a] = Cardinality(Held(a))
        /\ \A i \in Address : perIP[a][i] = Cardinality(HeldBy(a, i))
    BY DEF IInv, QuotaAccounting, Held, HeldBy
  <2> QED
    BY <2>1, <2>2, <2>3, <2>4, CountMoves
<1>5. ASSUME NEW a \in Key \X Gen, NEW i \in Address
      PROVE  /\ c \in Held(a) <=> conn[c].st \in {"pending", "active"} /\ Record(c) = a
             /\ c \in Held(a)' <=> conn'[c].st \in {"pending", "active"} /\ Record(c)' = a
             /\ c \in HeldBy(a, i) <=> conn[c].st = "active" /\ Record(c) = a /\ conn[c].ip = i
             /\ c \in HeldBy(a, i)' <=>
                  conn'[c].st = "active" /\ Record(c)' = a /\ conn'[c].ip = i
  BY DEF Held, HeldBy
<1>6. conn[c].st # "idle" => Record(c) \in Key \X Gen
  BY <1>1 DEF Record, ConnType, IInv, LeasesOK
<1>7. conn[c].st # "idle" /\ conn'[c].st # "idle" => Record(c)' = Record(c)
  BY <1>2 DEF IdentityChange, Record
<1> DEFINE r == Record(c)
           Good == /\ active' \in [Key \X Gen -> Nat]
                   /\ perIP' \in [Key \X Gen -> [Address -> Nat]]
                   /\ \A a \in Key \X Gen :
                        /\ active'[a] = Cardinality(Held(a)')
                        /\ \A i \in Address : perIP'[a][i] = Cardinality(HeldBy(a, i)')
                        /\ active'[a] = 0 /\ active[a] # 0 =>
                             conn'[c].st = "released" /\ conn[c].st # "idle" /\ a = r
<1> USE DEF CountDown
<1>8. ASSUME /\ active' = active /\ perIP' = perIP
             /\ {conn[c].st, conn'[c].st} \cap {"pending", "active"} = {}
      PROVE  Good
  <2>1. conn[c].st \notin {"pending", "active"} /\ conn'[c].st \notin {"pending", "active"}
    BY <1>8
  <2>2. \A a \in Key \X Gen : c \notin Held(a) /\ c \notin Held(a)'
    BY <1>5, <2>1, ServerAssumption
  <2>3. \A a \in Key \X Gen : \A i \in Address : c \notin HeldBy(a, i) /\ c \notin HeldBy(a, i)'
    BY <1>5, <2>1
  <2> QED
    BY <1>1, <1>4, <1>8, <2>2, <2>3
<1> HIDE DEF r
<1>9. ASSUME /\ conn[c].st = "admitted" /\ conn'[c].st = "pending"
             /\ active' = [active EXCEPT ![Record(c)] = @ + 1] /\ perIP' = perIP
      PROVE  Good
  <2>1. \A a \in Key \X Gen : c \notin Held(a) /\ (c \in Held(a)' <=> a = r)
    BY <1>5, <1>7, <1>9, ServerAssumption DEF r
  <2>2. \A a \in Key \X Gen : \A i \in Address : c \notin HeldBy(a, i) /\ c \notin HeldBy(a, i)'
    BY <1>5, <1>9
  <2> QED
    BY <1>1, <1>4, <1>6, <1>9, <2>1, <2>2 DEF r
<1>10. ASSUME /\ conn[c].st = "pending" /\ conn'[c].st = "active" /\ conn'[c].ip \in Address
              /\ active' = active
              /\ perIP' = [perIP EXCEPT ![Record(c)] =
                   [perIP[Record(c)] EXCEPT ![conn'[c].ip] = perIP[Record(c)][conn'[c].ip] + 1]]
      PROVE  Good
  <2>1. \A a \in Key \X Gen : c \in Held(a) <=> c \in Held(a)'
    BY <1>5, <1>7, <1>10, ServerAssumption
  <2>2. \A a \in Key \X Gen : \A i \in Address :
           c \notin HeldBy(a, i) /\ (c \in HeldBy(a, i)' <=> a = r /\ i = conn'[c].ip)
    BY <1>5, <1>7, <1>10 DEF r
  <2>3. r \in Key \X Gen
    BY <1>6, <1>10 DEF r
  <2>4. /\ perIP' \in [Key \X Gen -> [Address -> Nat]]
        /\ \A a \in Key \X Gen : \A i \in Address :
             perIP'[a][i] = IF a = r /\ i = conn'[c].ip THEN perIP[a][i] + 1 ELSE perIP[a][i]
    BY <1>1, <1>10, <2>3 DEF r
  <2> QED
    BY <1>1, <1>4, <1>10, <2>1, <2>2, <2>4
<1>11. ASSUME /\ conn[c].st = "pending" /\ conn'[c].st = "released"
              /\ active' = [active EXCEPT ![Record(c)] = CountDown(@)] /\ perIP' = perIP
      PROVE  Good
  <2>1. \A a \in Key \X Gen : c \notin Held(a)' /\ (c \in Held(a) <=> a = r)
    BY <1>5, <1>11, ServerAssumption DEF r
  <2>2. \A a \in Key \X Gen : \A i \in Address : c \notin HeldBy(a, i) /\ c \notin HeldBy(a, i)'
    BY <1>5, <1>11
  <2> QED
    BY <1>1, <1>4, <1>6, <1>11, <2>1, <2>2 DEF r
<1>12. ASSUME /\ conn[c].st = "active" /\ conn'[c].st = "released"
              /\ active' = [active EXCEPT ![Record(c)] = CountDown(@)]
              /\ perIP' = [perIP EXCEPT ![Record(c)] =
                   [perIP[Record(c)] EXCEPT ![conn[c].ip] = CountDown(perIP[Record(c)][conn[c].ip])]]
      PROVE  Good
  <2>1. \A a \in Key \X Gen : c \notin Held(a)' /\ (c \in Held(a) <=> a = r)
    BY <1>5, <1>12, ServerAssumption DEF r
  <2>2. \A a \in Key \X Gen : \A i \in Address :
           c \notin HeldBy(a, i)' /\ (c \in HeldBy(a, i) <=> a = r /\ i = conn[c].ip)
    BY <1>5, <1>12 DEF r
  <2>3. r \in Key \X Gen /\ conn[c].ip \in Address
    BY <1>1, <1>6, <1>12 DEF r, ConnType
  <2>4. perIP[r][conn[c].ip] > 0 /\ active[r] > 0
    BY <1>4, <2>1, <2>2, <2>3
  <2>5. /\ perIP' \in [Key \X Gen -> [Address -> Nat]]
        /\ \A a \in Key \X Gen : \A i \in Address :
             perIP'[a][i] = IF a = r /\ i = conn[c].ip THEN perIP[a][i] - 1 ELSE perIP[a][i]
    BY <1>1, <1>12, <2>3, <2>4 DEF r
  <2>6. /\ active' \in [Key \X Gen -> Nat]
        /\ \A a \in Key \X Gen : active'[a] = IF a = r THEN active[a] - 1 ELSE active[a]
    BY <1>1, <1>12, <2>3, <2>4 DEF r
  <2> QED
    BY <1>1, <1>4, <1>12, <2>1, <2>2, <2>5, <2>6
<1>13. Good
  BY <1>2, <1>8, <1>9, <1>10, <1>11, <1>12 DEF QuotaChange
<1>14. ASSUME NEW a \in Key \X Gen, NEW i \in Address
       PROVE  /\ Cardinality(Held(a)') \in 0..Cardinality(Conn)
              /\ Cardinality(HeldBy(a, i)') \in 0..Cardinality(Conn)
  <2>1. Held(a)' \in SUBSET Conn /\ HeldBy(a, i)' \in SUBSET Conn
    BY DEF Held, HeldBy
  <2> QED
    BY <2>1, ConnsFinite
<1>15. QuotaAccounting'
  BY <1>3, <1>13 DEF QuotaAccounting, Counted, Held, HeldBy
<1>16. /\ active' \in [Key \X Gen -> 0..Cardinality(Conn)]
       /\ perIP' \in [Key \X Gen -> [Address -> 0..Cardinality(Conn)]]
  BY <1>13, <1>14, ServerAssumption
<1> QED
  BY <1>3, <1>13, <1>15, <1>16 DEF r

\* A record that is removed is that of an address nobody uses.
LEMMA ConnRemovesUnused ==
    ASSUME IInv, NEW c \in Conn, ConnEffect(c), NEW k \in Key
    PROVE  /\ admission'[k] \in {0, admission[k]} /\ admission' \in [Key -> 0..MaxGen]
           /\ admission'[k] # admission[k] => Unused(k) /\ IdleRecord(k)
<1>1. admission \in [Key -> 0..MaxGen] /\ 0 \in 0..MaxGen
  BY ServerAssumption DEF IInv, TypeOK
<1>2. RecordChange(c) /\ conn[c].key \in Key
  BY DEF ConnEffect, IInv, TypeOK
<1> QED
  BY <1>1, <1>2 DEF RecordChange

\* A generation in use that binds an address keeps its record.
LEMMA InUseBinds ==
    ASSUME IInv, NEW k \in Key, NEW g \in Gen, g <= current, life[g] # "done", k \in bindings[g]
    PROVE  ~Unused(k)
<1>1. CASE g = current
  BY <1>1 DEF Unused
<1>2. CASE g < current
  BY <1>2 DEF Unused, IInv, GenerationsOK
<1> QED
  BY <1>1, <1>2 DEF IInv, TypeOK, Gen

\* One step of a connection changes no generation but by its release.
LEMMA ConnKeepsGenerations ==
    ASSUME IInv, NEW c \in Conn, ConnEffect(c)
    PROVE  GenerationsOK'
<1>1. /\ \A g \in Gen : life'[g] = life[g] \/ (life[g] = "draining" /\ life'[g] = "done")
      /\ current' = current /\ retired' = retired /\ watcher' = watcher /\ reload' = reload
      /\ closed' = closed
  BY ConnKeepsLeases DEF ConnEffect
<1>2. current \in Gen /\ retired \in SUBSET Gen
  BY DEF IInv, TypeOK
<1>3. Replaced' \in SUBSET Replaced /\ Replaced \in SUBSET Gen
  BY <1>1 DEF Replaced
<1>4. Cardinality(Replaced') <= Cardinality(Replaced)
      /\ Cardinality(Replaced) \in Nat /\ Cardinality(Replaced') \in Nat
  BY <1>3, GensShrink, GensFinite
<1>5. /\ reload.st = "staging" => current < MaxGen /\ Cardinality(Replaced') < MaxRetired
      /\ Cardinality(Replaced') <= MaxRetired
  BY <1>4, ServerAssumption DEF IInv, GenerationsOK
<1>6. life'[current] = "live" \/ closed
  BY <1>1, <1>2 DEF IInv, GenerationsOK
<1>7. \A g \in Gen : (life'[g] = "unborn" <=> g > current)
                     /\ (life'[g] \in {"live", "retiring"} => life[g] = life'[g])
                     /\ (life'[g] # "done" => life[g] # "done")
  BY <1>1 DEF IInv, GenerationsOK
<1> QED
  BY <1>1, <1>2, <1>5, <1>6, <1>7 DEF IInv, GenerationsOK

LEMMA ConnKeepsListeners ==
    ASSUME IInv, NEW c \in Conn, ConnEffect(c)
    PROVE  ListenersOK'
<1>1. /\ current' = current /\ bindings' = bindings /\ listener' = listener /\ reload' = reload
      /\ current \in Gen
  BY DEF ConnEffect, IInv, TypeOK
<1>2. ASSUME NEW k \in Key
      PROVE  /\ listener[k] # NoListener => admission'[k] = admission[k]
             /\ admission'[k] \in {0, admission[k]}
  BY ConnRemovesUnused DEF IInv, ListenersOK, Unused
<1> QED
  BY <1>1, <1>2 DEF IInv, ListenersOK

LEMMA ConnKeepsRecords ==
    ASSUME IInv, NEW c \in Conn, ConnEffect(c)
    PROVE  RecordsOK'
<1>1. /\ current' = current /\ bindings' = bindings /\ listener' = listener /\ current \in Gen
      /\ conn \in [Conn -> ConnType] /\ conn' \in [Conn -> ConnType]
      /\ \A d \in Conn \ {c} : conn'[d] = conn[d]
      /\ IdentityChange(c)
  BY DEF ConnEffect, IInv, TypeOK, ConnType
<1>2. SUFFICES ASSUME NEW d \in Conn, conn'[d].st # "idle"
      PROVE  /\ ServedSince(d, current)' =>
                  listener'[conn'[d].key] = [born |-> conn'[d].born, adm |-> conn'[d].adm]
             /\ \A g \in conn'[d].born..current' :
                  life'[g] # "done" /\ ServedSince(d, g)' =>
                    admission'[conn'[d].key] = conn'[d].adm
  BY DEF RecordsOK
<1> DEFINE k == conn'[d].key
<1>3. k \in Key /\ conn'[d].born \in 1..current /\ conn'[d].adm \in Gen
  BY <1>1, <1>2, ConnKeepsLeases DEF ConnType, LeasesOK
\* The record is the one the listener has, or the one it was before the step.
<1>4. /\ ServedSince(d, current)' => listener[k] = [born |-> conn'[d].born, adm |-> conn'[d].adm]
      /\ \A g \in conn'[d].born..current :
           life[g] # "done" /\ ServedSince(d, g)' => admission[k] = conn'[d].adm
  <2>1. CASE /\ conn[d].st # "idle" /\ conn'[d].key = conn[d].key
             /\ conn'[d].born = conn[d].born /\ conn'[d].adm = conn[d].adm
    BY <1>1, <2>1 DEF IInv, RecordsOK, ServedSince
  <2>2. CASE /\ listener[conn'[d].key] # NoListener
             /\ conn'[d].born = listener[conn'[d].key].born
             /\ conn'[d].adm = listener[conn'[d].key].adm
    <3>1. listener[k] \in [born : 0..MaxGen, adm : 0..MaxGen]
      BY <1>3 DEF IInv, TypeOK
    <3>2. listener[k] = [born |-> conn'[d].born, adm |-> conn'[d].adm]
      BY <2>2, <3>1
    <3>3. admission[k] = conn'[d].adm
      BY <1>3, <2>2 DEF IInv, ListenersOK
    <3> QED
      BY <3>2, <3>3
  <2> QED
    BY <1>1, <1>2, <2>1, <2>2 DEF IdentityChange
<1>5. ASSUME NEW g \in conn'[d].born..current, life'[g] # "done", ServedSince(d, g)'
      PROVE  admission'[k] = conn'[d].adm
  <2>1. g \in Gen /\ g <= current /\ conn'[d].born <= g /\ conn'[d].born \in Int
    BY <1>1, <1>3, ServerAssumption DEF Gen
  <2>2. life[g] # "done"
    BY <1>5, <2>1, ConnKeepsLeases
  <2>3. k \in bindings[g]
    BY <1>1, <1>5, <2>1 DEF ServedSince, Gen
  <2>4. ~Unused(k)
    BY <1>3, <2>1, <2>2, <2>3, InUseBinds
  <2> QED
    BY <1>3, <1>4, <1>5, <2>2, <2>4, ConnRemovesUnused
<1> QED
  BY <1>1, <1>4, <1>5

LEMMA ConnKeepsCleanup ==
    ASSUME IInv, NEW c \in Conn, ConnEffect(c)
    PROVE  CleanupOK'
<1>1. /\ current' = current /\ bindings' = bindings /\ retired' = retired /\ watcher' = watcher
      /\ current \in Gen /\ retired \in SUBSET Gen
      /\ conn \in [Conn -> ConnType] /\ conn' \in [Conn -> ConnType]
      /\ \A d \in Conn \ {c} : conn'[d] = conn[d]
      /\ IdentityChange(c) /\ RecordChange(c)
  BY DEF ConnEffect, IInv, TypeOK, ConnType
<1>2. SUFFICES ASSUME NEW k \in Key, admission'[k] # 0, Unused(k)', IdleRecord(k)',
                      ~CleanupDue(k)'
               PROVE  FALSE
  BY DEF CleanupOK
<1>3. admission'[k] = admission[k] /\ admission[k] \in Gen
  <2>1. admission'[k] = admission[k]
    BY <1>2, ConnRemovesUnused
  <2>2. admission[k] \in 0..MaxGen /\ admission[k] # 0
    BY <1>2, <2>1 DEF IInv, TypeOK
  <2> QED
    BY <2>1, <2>2, ServerAssumption DEF Gen
<1>4. \A g \in Gen : life'[g] = life[g] \/ (life[g] = "draining" /\ life'[g] = "done")
  BY ConnKeepsLeases
<1>5. Unused(k)
  <2>1. ASSUME NEW g \in retired PROVE life'[g] = life[g]
    <3>1. watcher'[g] = "waiting" /\ g \in Gen
      BY <1>1 DEF IInv, GenerationsOK
    <3> QED
      BY <1>2, <1>4, <3>1 DEF CleanupDue
  <2> QED
    BY <1>1, <1>2, <2>1 DEF Unused
<1>6. IdleRecord(k)
  <2>1. active'[<<k, admission[k]>>] = 0
    BY <1>2, <1>3 DEF IdleRecord
  <2>2. <<k, admission[k]>> \in Key \X Gen
    BY <1>3
  <2>3. ASSUME active[<<k, admission[k]>>] # 0 PROVE FALSE
    <3>1. conn'[c].st = "released" /\ conn[c].st # "idle" /\ <<k, admission[k]>> = Record(c)
      BY <2>1, <2>2, <2>3, ConnKeepsQuotas
    <3>2. conn'[c].key = k /\ conn'[c].adm = admission'[k]
      BY <1>1, <1>3, <3>1 DEF IdentityChange, Record
    <3> QED
      BY <1>2, <3>1, <3>2 DEF CleanupDue
  <2> QED
    BY <2>3 DEF IdleRecord
<1>7. CleanupDue(k)
  BY <1>2, <1>3, <1>5, <1>6 DEF IInv, CleanupOK
<1>8. PICK d \in Conn : conn[d].st = "released" /\ conn[d].key = k /\ conn[d].adm = admission[k]
  BY <1>1, <1>2, <1>4, <1>7 DEF CleanupDue
<1>9. d = c /\ conn'[c].st # "released"
  <2>1. d = c
    BY <1>1, <1>2, <1>3, <1>8 DEF CleanupDue
  <2> QED
    BY <1>1, <1>2, <1>3, <1>8, <2>1 DEF CleanupDue, IdentityChange
<1>10. admission'[k] = 0
  BY <1>1, <1>3, <1>5, <1>6, <1>8, <1>9 DEF RecordChange, IInv, TypeOK
<1> QED
  BY <1>2, <1>10

LEMMA ConnStepKeeps ==
    ASSUME IInv, NEW c \in Conn, ConnStep(c)
    PROVE  IInv'
<1>1. ConnEffect(c)
  BY ConnStepEffect DEF IInv
<1>2. TypeOK'
  <2>1. admission' \in [Key -> 0..MaxGen]
    BY <1>1, ConnRemovesUnused, ServerAssumption
  <2> QED
    BY <1>1, <2>1, ConnKeepsLeases, ConnKeepsQuotas DEF ConnEffect, IInv, TypeOK, ConnType
<1> QED
  BY <1>1, <1>2, ConnKeepsLeases, ConnKeepsQuotas, ConnKeepsGenerations, ConnKeepsListeners,
     ConnKeepsRecords, ConnKeepsCleanup DEF IInv

-----------------------------------------------------------------------------
(* What a step of a reload, a watcher or Close may do, but for the commit   *)
(* and the pruning.                                                        *)

\* Generations only move on towards done, the current one only when the
\* server is closed; what leaves server.retired is done; a watcher that stops
\* waiting prunes; a reload stays or ends with the generation it replaced
\* stopped, and a new one sees the records.
QuietEffect ==
    /\ UNCHANGED <<current, bindings, refs, listener, admission, quotas, conn>>
    /\ life' \in [Gen -> {"unborn", "live", "retiring", "draining", "done"}]
    /\ \A g \in Gen :
         \/ life'[g] = life[g]
         \/ life[g] = "live" /\ life'[g] = "retiring"
         \/ life[g] = "retiring" /\ life'[g] = "done" /\ refs[g] = 0
         \/ life[g] = "retiring" /\ life'[g] = "draining" /\ refs[g] # 0
    /\ life'[current] = life[current] \/ closed
    /\ closed' \in BOOLEAN /\ (closed => closed')
    /\ retired' \in SUBSET retired /\ \A g \in retired \ retired' : life[g] = "done"
    /\ watcher' \in [Gen -> {"off", "waiting", "pruning"}]
    /\ \A g \in Gen :
         \/ watcher'[g] = watcher[g]
         \/ watcher[g] = "waiting" /\ watcher'[g] = "pruning" /\ g \notin retired'
    /\ reload' \in [st : {"idle", "staging", "retiring"}, keys : SUBSET Key,
                    adms : [Key -> 0..MaxGen]]
    /\ \/ reload' = reload
       \/ reload.st = "idle" /\ reload'.st = "staging" /\ reload'.adms = admission
          /\ current < MaxGen /\ MayReload
       \/ reload.st = "staging" /\ reload'.st = "idle"
       \/ reload.st = "retiring" /\ reload'.st = "idle"
          /\ life'[current - 1] \notin {"live", "retiring"}

LEMMA QuietKeepsGenerations ==
    ASSUME IInv, QuietEffect
    PROVE  GenerationsOK'
<1>1. /\ current \in Gen /\ retired \in SUBSET Gen /\ current' = current
      /\ life \in [Gen -> {"unborn", "live", "retiring", "draining", "done"}]
  BY DEF IInv, TypeOK, QuietEffect
<1>2. ASSUME NEW g \in Gen
      PROVE  /\ life'[g] = "unborn" <=> life[g] = "unborn"
             /\ life'[g] \in {"live", "retiring"} => life[g] \in {"live", "retiring"}
             /\ life'[g] # "done" => life[g] # "done"
  BY <1>1 DEF QuietEffect
<1>3. \A g \in Gen : life'[g] = "unborn" <=> g > current
  BY <1>2 DEF IInv, GenerationsOK
<1>4. life'[current] = "live" \/ closed'
  BY DEF QuietEffect, IInv, GenerationsOK
<1>5. ASSUME NEW g \in Gen, g < current, life'[g] \in {"live", "retiring"}
      PROVE  reload'.st = "retiring" /\ g = current - 1
  <2>1. reload.st = "retiring" /\ g = current - 1
    BY <1>2, <1>5 DEF IInv, GenerationsOK
  <2> QED
    BY <1>5, <2>1 DEF QuietEffect
<1>6. \A g \in Gen : g < current /\ life'[g] # "done" => g \in retired'
  BY <1>2 DEF QuietEffect, IInv, GenerationsOK
<1>7. \A g \in retired' : g < current /\ watcher'[g] = "waiting"
  BY <1>1 DEF QuietEffect, IInv, GenerationsOK
<1>8. \A g \in Gen : g >= current => watcher'[g] = "off"
  BY DEF QuietEffect, IInv, GenerationsOK
<1>9. Replaced' \in SUBSET Replaced /\ Replaced \in SUBSET StillDraining /\ Replaced \in SUBSET Gen
      /\ StillDraining \in SUBSET Gen
  <2>1. Replaced' \in SUBSET Replaced
    BY <1>1, <1>2 DEF Replaced
  <2>2. ASSUME NEW g \in Replaced PROVE g \in StillDraining
    <3>1. g \in Gen /\ g < current /\ life[g] # "done"
      BY <1>1 DEF Replaced, IInv, GenerationsOK, Gen
    <3> QED
      BY <3>1 DEF IInv, GenerationsOK, StillDraining
  <2> QED
    BY <1>1, <2>1, <2>2 DEF Replaced, StillDraining
<1>10. /\ Cardinality(Replaced') <= Cardinality(Replaced)
       /\ Cardinality(Replaced) <= Cardinality(StillDraining)
       /\ Cardinality(Replaced) \in Nat /\ Cardinality(Replaced') \in Nat
       /\ Cardinality(StillDraining) \in Nat
  BY <1>9, GensShrink, GensFinite
<1>11. Cardinality(Replaced') <= MaxRetired
  BY <1>10, ServerAssumption DEF IInv, GenerationsOK
<1>12. ASSUME reload'.st = "staging"
       PROVE  current < MaxGen /\ Cardinality(Replaced') < MaxRetired
  <2>1. reload.st = "staging" \/ (current < MaxGen /\ MayReload)
    BY <1>12 DEF QuietEffect
  <2> QED
    BY <1>10, <2>1, ServerAssumption DEF IInv, GenerationsOK, MayReload
<1>13. reload'.st = "retiring" => current > 1
  BY DEF QuietEffect, IInv, GenerationsOK
<1> QED
  BY <1>1, <1>3, <1>4, <1>5, <1>6, <1>7, <1>8, <1>11, <1>12, <1>13 DEF GenerationsOK

LEMMA QuietKeeps ==
    ASSUME IInv, QuietEffect
    PROVE  IInv'
<1>1. /\ current \in Gen /\ retired \in SUBSET Gen /\ refs \in [Gen -> Nat]
      /\ current' = current /\ bindings' = bindings /\ refs' = refs /\ listener' = listener
      /\ admission' = admission /\ active' = active /\ perIP' = perIP /\ global' = global
      /\ conn' = conn
  BY DEF IInv, TypeOK, QuietEffect, quotas
<1>2. TypeOK'
  BY <1>1 DEF QuietEffect, IInv, TypeOK
<1>3. GenerationsOK'
  BY QuietKeepsGenerations
<1>4. \A g \in Gen : life'[g] # "done" => life[g] # "done"
  BY DEF QuietEffect
<1>5. LeasesOK'
  <2>1. \A g \in Gen : /\ life'[g] = "done" => refs[g] = 0
                       /\ life'[g] = "draining" => refs[g] > 0
    BY <1>1 DEF QuietEffect, IInv, LeasesOK
  <2> QED
    BY <1>1, <2>1 DEF IInv, LeasesOK, Holders
<1>6. QuotaAccounting'
  BY <1>1 DEF IInv, QuotaAccounting, Record
<1>7. ListenersOK'
  <2>1. reload'.st = "staging" => \A k \in Key : admission[k] \in {0, reload'.adms[k]}
    BY DEF QuietEffect, IInv, ListenersOK
  <2> QED
    BY <1>1, <2>1 DEF IInv, ListenersOK
<1>8. RecordsOK'
  <2>1. SUFFICES ASSUME NEW c \in Conn, conn[c].st # "idle", NEW g \in conn[c].born..current,
                        life'[g] # "done", ServedSince(c, g)
                 PROVE  admission[conn[c].key] = conn[c].adm
    BY <1>1 DEF IInv, RecordsOK, ServedSince
  <2>2. g \in Gen
    BY <1>1, <2>1, ServerAssumption DEF IInv, LeasesOK, Gen
  <2> QED
    BY <1>4, <2>1, <2>2 DEF IInv, RecordsOK
<1>9. CleanupOK'
  <2>1. SUFFICES ASSUME NEW k \in Key, admission[k] # 0, Unused(k)', IdleRecord(k), ~CleanupDue(k)'
                 PROVE  FALSE
    BY <1>1 DEF CleanupOK, IdleRecord
  <2>2. \A g \in retired' : life'[g] # "done"
    BY <1>1, <1>3, <2>1 DEF CleanupDue, GenerationsOK, QuietEffect
  <2>3. Unused(k)
    BY <1>1, <2>1, <2>2 DEF Unused, QuietEffect
  <2>4. CleanupDue(k)
    BY <2>1, <2>3 DEF IInv, CleanupOK
  <2> QED
    BY <1>1, <1>4, <2>1, <2>4 DEF CleanupDue, QuietEffect
<1> QED
  BY <1>2, <1>3, <1>5, <1>6, <1>7, <1>8, <1>9 DEF IInv

\* The steps that are quiet.
QuietStep ==
    \/ ReloadRejected \/ \E K \in SUBSET Key \ {{}} : PrepareReload(K)
    \/ AbortReload \/ RetireOld \/ OldBackgroundStopped
    \/ \E g \in Gen : WatcherForgets(g)
    \/ Close \/ CloseStep

LEMMA QuietStepEffect ==
    ASSUME IInv, QuietStep
    PROVE  QuietEffect
<1> USE DEF QuietEffect, generations
<1>1. TypeOK /\ GenerationsOK
  BY DEF IInv
<1>2. NoReload \in [st : {"idle", "staging", "retiring"}, keys : SUBSET Key,
                    adms : [Key -> 0..MaxGen]] /\ NoReload.st = "idle"
  BY ServerAssumption DEF NoReload
<1>3. StillDraining \in SUBSET retired /\ \A g \in retired \ StillDraining : life[g] = "done"
  BY DEF StillDraining
<1>4. CASE ReloadRejected
  BY <1>1, <1>3, <1>4 DEF ReloadRejected, TypeOK
<1>5. ASSUME NEW K \in SUBSET Key, PrepareReload(K) PROVE QuietEffect
  <2>1. reload' = [st |-> "staging", keys |-> K, adms |-> admission]
        /\ admission \in [Key -> 0..MaxGen]
    BY <1>1, <1>5 DEF PrepareReload, TypeOK
  <2>2. reload' \in [st : {"idle", "staging", "retiring"}, keys : SUBSET Key,
                     adms : [Key -> 0..MaxGen]]
        /\ reload'.st = "staging" /\ reload'.adms = admission
    BY <2>1
  <2> QED
    BY <1>1, <1>3, <1>5, <2>2 DEF PrepareReload, TypeOK
<1>6. CASE AbortReload
  BY <1>1, <1>2, <1>6 DEF AbortReload, TypeOK
<1>7. ASSUME reload.st = "retiring" PROVE current - 1 # current /\ current - 1 \in Int
  BY <1>1 DEF TypeOK, Gen
<1>8. CASE RetireOld
  BY <1>1, <1>7, <1>8 DEF RetireOld, MarkRetired, TypeOK
<1>9. CASE OldBackgroundStopped
  <2>1. current - 1 \in Gen
    BY <1>1, <1>9, ServerAssumption DEF OldBackgroundStopped, GenerationsOK, TypeOK, Gen
  <2> QED
    BY <1>1, <1>2, <1>7, <1>9, <2>1 DEF OldBackgroundStopped, BackgroundStopped, TypeOK
<1>10. ASSUME NEW g \in Gen, WatcherForgets(g) PROVE QuietEffect
  BY <1>1, <1>10 DEF WatcherForgets, TypeOK
<1>11. CASE Close
  BY <1>1, <1>11 DEF Close, TypeOK
<1>12. CASE RetireCurrent
  BY <1>1, <1>12 DEF RetireCurrent, MarkRetired, TypeOK
<1>13. CASE CurrentBackgroundStopped
  BY <1>1, <1>13 DEF CurrentBackgroundStopped, BackgroundStopped, TypeOK
<1> QED
  BY <1>4, <1>5, <1>6, <1>8, <1>9, <1>10, <1>11, <1>12, <1>13 DEF QuietStep, CloseStep

-----------------------------------------------------------------------------
(* The watcher's pruning and the commit of a reload. *)

LEMMA PruneKeeps ==
    ASSUME IInv, NEW g0 \in Gen, pruneAdmissions(g0)
    PROVE  IInv'
<1>1. /\ current \in Gen /\ retired \in SUBSET Gen /\ admission \in [Key -> 0..MaxGen]
      /\ current' = current /\ bindings' = bindings /\ refs' = refs /\ listener' = listener
      /\ life' = life /\ retired' = retired /\ reload' = reload /\ closed' = closed
      /\ active' = active /\ perIP' = perIP /\ global' = global /\ conn' = conn
      /\ watcher \in [Gen -> {"off", "waiting", "pruning"}] /\ watcher[g0] = "pruning"
      /\ watcher' = [watcher EXCEPT ![g0] = "off"]
  BY DEF IInv, TypeOK, pruneAdmissions, quotas
<1>2. ASSUME NEW k \in Key
      PROVE  admission'[k] = IF Unused(k) /\ IdleRecord(k) THEN 0 ELSE admission[k]
  BY DEF pruneAdmissions
<1>3. TypeOK'
  <2>1. admission' \in [Key -> 0..MaxGen]
    <3>1. 0 \in 0..MaxGen
      BY ServerAssumption
    <3> QED
      BY <1>1, <3>1 DEF pruneAdmissions
  <2>2. watcher' \in [Gen -> {"off", "waiting", "pruning"}]
    BY <1>1
  <2> QED
    BY <1>1, <2>1, <2>2 DEF IInv, TypeOK
<1>4. GenerationsOK'
  <2>1. \A g \in Gen : watcher'[g] = IF g = g0 THEN "off" ELSE watcher[g]
    BY <1>1
  <2>2. \A g \in retired : g < current /\ watcher'[g] = "waiting"
    BY <1>1, <2>1 DEF IInv, GenerationsOK
  <2>3. \A g \in Gen : g >= current => watcher'[g] = "off"
    BY <2>1 DEF IInv, GenerationsOK
  <2> QED
    BY <1>1, <2>2, <2>3 DEF IInv, GenerationsOK, Replaced
<1>5. LeasesOK' /\ QuotaAccounting'
  <2>1. LeasesOK'
    BY <1>1 DEF IInv, LeasesOK, Holders
  <2>2. QuotaAccounting'
    BY <1>1 DEF IInv, QuotaAccounting, Record
  <2> QED
    BY <2>1, <2>2
<1>6. ListenersOK'
  <2>1. ASSUME NEW k \in Key
        PROVE  /\ listener[k] # NoListener => admission'[k] = admission[k]
               /\ admission'[k] \in {0, admission[k]}
    BY <1>2 DEF IInv, ListenersOK, Unused
  <2> QED
    BY <1>1, <2>1 DEF IInv, ListenersOK
<1>7. RecordsOK'
  <2>1. SUFFICES ASSUME NEW c \in Conn, conn[c].st # "idle", NEW g \in conn[c].born..current,
                        life[g] # "done", ServedSince(c, g)
                 PROVE  admission'[conn[c].key] = conn[c].adm
    BY <1>1 DEF IInv, RecordsOK, ServedSince
  <2>2. conn[c].key \in Key /\ conn[c].born \in 1..current
    BY <2>1 DEF IInv, TypeOK, LeasesOK
  <2>3. g \in Gen /\ g <= current /\ conn[c].key \in bindings[g]
    BY <1>1, <2>1, <2>2, ServerAssumption DEF Gen, ServedSince
  <2>4. ~Unused(conn[c].key)
    BY <2>1, <2>2, <2>3, InUseBinds
  <2> QED
    BY <1>2, <2>1, <2>2, <2>4 DEF IInv, RecordsOK
<1>8. CleanupOK'
  <2>1. ASSUME NEW k \in Key, admission'[k] # 0, Unused(k)', IdleRecord(k)' PROVE FALSE
    <3>1. Unused(k) /\ admission'[k] = admission[k]
      BY <1>1, <1>2, <2>1 DEF Unused
    <3>2. IdleRecord(k)
      BY <1>1, <2>1, <3>1 DEF IdleRecord
    <3> QED
      BY <1>2, <2>1, <3>1, <3>2
  <2> QED
    BY <2>1 DEF CleanupOK
<1> QED
  BY <1>3, <1>4, <1>5, <1>6, <1>7, <1>8 DEF IInv

LEMMA CommitKeeps ==
    ASSUME IInv, CommitReload
    PROVE  IInv'
<1>0. PICK n \in Nat : n = current + 1
  BY ServerAssumption DEF IInv, TypeOK, Gen
<1>1. /\ current \in Gen /\ n \in Gen /\ current < n /\ current \in Nat
      /\ reload.st = "staging" /\ ~closed /\ life[current] = "live" /\ life[n] = "unborn"
      /\ reload.keys \in SUBSET Key /\ reload.adms \in [Key -> 0..MaxGen]
  BY <1>0, ServerAssumption DEF CommitReload, IInv, TypeOK, GenerationsOK, Gen
<1>2. /\ life \in [Gen -> {"unborn", "live", "retiring", "draining", "done"}]
      /\ bindings \in [Gen -> SUBSET Key] /\ watcher \in [Gen -> {"off", "waiting", "pruning"}]
      /\ retired \in SUBSET Gen /\ admission \in [Key -> 0..MaxGen]
      /\ listener \in [Key -> [born : 0..MaxGen, adm : 0..MaxGen]]
  BY DEF IInv, TypeOK
<1>3. /\ current' = n /\ retired' = retired \cup {current}
      /\ refs' = refs /\ active' = active /\ perIP' = perIP /\ global' = global /\ conn' = conn
      /\ closed' = closed
      /\ bindings' = [bindings EXCEPT ![n] = reload.keys]
      /\ life' = [life EXCEPT ![n] = "live"]
      /\ watcher' = [watcher EXCEPT ![current] = "waiting"]
      /\ reload' = [NoReload EXCEPT !.st = "retiring"]
  BY <1>0 DEF CommitReload, quotas
<1>4. \A g \in Gen : /\ bindings'[g] = IF g = n THEN reload.keys ELSE bindings[g]
                     /\ life'[g] = IF g = n THEN "live" ELSE life[g]
                     /\ watcher'[g] = IF g = current THEN "waiting" ELSE watcher[g]
  BY <1>1, <1>2, <1>3
<1>5. ASSUME NEW k \in Key
      PROVE  /\ k \in Staged => listener'[k] = [born |-> n, adm |-> StagedAdmission(k)]
             /\ k \in reload.keys /\ k \notin Staged =>
                  listener'[k] = listener[k] /\ listener[k] # NoListener
             /\ k \notin reload.keys => listener'[k] = NoListener /\ k \notin Staged
             /\ admission'[k] = IF k \in Staged THEN StagedAdmission(k) ELSE admission[k]
  BY <1>0 DEF CommitReload, Staged
<1>6. ASSUME NEW k \in Key
      PROVE  /\ StagedAdmission(k) \in Gen
             /\ admission[k] # 0 => admission'[k] = admission[k]
  <2>1. reload.adms[k] \in 0..MaxGen /\ admission[k] \in {0, reload.adms[k]}
    BY <1>1 DEF IInv, ListenersOK
  <2>2. StagedAdmission(k) \in Gen
    BY <1>0, <1>1, <2>1, ServerAssumption DEF StagedAdmission, Gen
  <2> QED
    BY <1>5, <2>1, <2>2 DEF StagedAdmission
<1>7. /\ reload' \in [st : {"idle", "staging", "retiring"}, keys : SUBSET Key,
                      adms : [Key -> 0..MaxGen]]
      /\ reload'.st = "retiring"
  <2>1. [k \in Key |-> 0] \in [Key -> 0..MaxGen]
    BY ServerAssumption
  <2> QED
    BY <1>3, <2>1 DEF NoReload
<1>8. TypeOK'
  <2>1. admission' \in [Key -> 0..MaxGen]
    <3>1. ASSUME NEW k \in Key PROVE admission'[k] \in 0..MaxGen
      <4>1. admission[k] \in 0..MaxGen /\ StagedAdmission(k) \in 0..MaxGen
        BY <1>2, <1>6 DEF Gen
      <4> QED
        BY <1>5, <4>1
    <3> QED
      BY <3>1 DEF CommitReload
  <2>2. listener' \in [Key -> [born : 0..MaxGen, adm : 0..MaxGen]]
    <3>1. ASSUME NEW k \in Key PROVE listener'[k] \in [born : 0..MaxGen, adm : 0..MaxGen]
      <4>1. StagedAdmission(k) \in 0..MaxGen /\ n \in 0..MaxGen /\ 0 \in 0..MaxGen
        BY <1>1, <1>6, ServerAssumption DEF Gen
      <4>2. NoListener \in [born : 0..MaxGen, adm : 0..MaxGen]
            /\ [born |-> n, adm |-> StagedAdmission(k)] \in [born : 0..MaxGen, adm : 0..MaxGen]
            /\ listener[k] \in [born : 0..MaxGen, adm : 0..MaxGen]
        BY <1>2, <4>1 DEF NoListener
      <4>3. CASE k \in Staged
        BY <1>5, <4>2, <4>3
      <4>4. CASE k \notin Staged
        BY <1>5, <4>2, <4>4
      <4> QED
        BY <4>3, <4>4
    <3> QED
      BY <3>1 DEF CommitReload
  <2>3. /\ bindings' \in [Gen -> SUBSET Key] /\ watcher' \in [Gen -> {"off", "waiting", "pruning"}]
        /\ life' \in [Gen -> {"unborn", "live", "retiring", "draining", "done"}]
    BY <1>1, <1>2, <1>3
  <2> QED
    BY <1>1, <1>2, <1>3, <1>7, <2>1, <2>2, <2>3 DEF IInv, TypeOK
<1>9. \A g \in Gen : (g < n <=> g <= current) /\ (g >= n <=> g > current) /\ n - 1 = current
  BY <1>0, <1>1 DEF Gen
<1>10. GenerationsOK'
  <2>1. \A g \in Gen : life'[g] = "unborn" <=> g > n
    BY <1>0, <1>1, <1>4 DEF IInv, GenerationsOK, Gen
  <2>2. life'[n] = "live"
    BY <1>1, <1>4
  <2>3. ASSUME NEW g \in Gen, g < n, life'[g] \in {"live", "retiring"} PROVE g = n - 1
    <3>1. ~(g < current)
      BY <1>1, <1>4, <2>3 DEF IInv, GenerationsOK, Gen
    <3> QED
      BY <1>0, <1>1, <2>3, <3>1 DEF Gen
  <2>4. \A g \in Gen : g < n /\ life'[g] # "done" => g \in retired'
    BY <1>1, <1>3, <1>4, <1>9 DEF IInv, GenerationsOK, Gen
  <2>5. \A g \in retired' : g < n /\ watcher'[g] = "waiting"
    BY <1>1, <1>2, <1>3, <1>4, <1>9 DEF IInv, GenerationsOK, Gen
  <2>6. \A g \in Gen : g >= n => watcher'[g] = "off"
    BY <1>1, <1>4, <1>9 DEF IInv, GenerationsOK, Gen
  <2>7. Cardinality(Replaced') <= MaxRetired
    <3>1. Replaced \in SUBSET Gen /\ current \notin Replaced /\ Replaced' \in SUBSET Gen
      BY DEF Replaced
    <3>2. Replaced' \in SUBSET (Replaced \cup {current})
      BY <1>1, <1>3, <1>4 DEF Replaced
    <3>3. IsFiniteSet(Replaced) /\ Cardinality(Replaced) \in Nat /\ Cardinality(Replaced') \in Nat
      BY <3>1, GensFinite
    <3>4. Cardinality(Replaced \cup {current}) = Cardinality(Replaced) + 1
      BY <3>1, <3>3, FS_AddElement
    <3>5. Cardinality(Replaced') <= Cardinality(Replaced \cup {current})
      BY <1>1, <3>1, <3>2, GensShrink
    <3> QED
      BY <1>1, <3>3, <3>4, <3>5, ServerAssumption DEF IInv, GenerationsOK
  <2>8. /\ reload'.st = "retiring" => n > 1
        /\ reload'.st = "staging" => n < MaxGen /\ Cardinality(Replaced') < MaxRetired
    BY <1>0, <1>1, <1>7 DEF Gen
  <2>9. \A g \in Gen : g < n /\ life'[g] \in {"live", "retiring"} =>
           reload'.st = "retiring" /\ g = n - 1
    BY <1>7, <2>3
  <2> QED
    BY <1>3, <2>1, <2>2, <2>4, <2>5, <2>6, <2>7, <2>8, <2>9 DEF GenerationsOK
<1>11. LeasesOK'
  <2>1. \A g \in Gen : /\ life'[g] = "done" => life[g] = "done"
                       /\ life'[g] = "draining" => life[g] = "draining"
    BY <1>4
  <2>2. ASSUME NEW c \in Conn
        PROVE  /\ conn[c].st \in Leased \cup {"loaded"} => conn[c].gen \in conn[c].born..n
               /\ conn[c].st # "idle" => conn[c].born \in 1..n /\ conn[c].adm \in Gen
    BY <1>0, <1>1 DEF IInv, LeasesOK, TypeOK
  <2> QED
    BY <1>3, <2>1, <2>2 DEF IInv, LeasesOK, Holders
<1>12. QuotaAccounting'
  BY <1>3 DEF IInv, QuotaAccounting, Record
<1>13. ListenersOK'
  <2>1. ASSUME NEW k \in Key
        PROVE  /\ listener'[k] # NoListener <=> k \in reload.keys
               /\ listener'[k] # NoListener =>
                    /\ listener'[k].born \in 1..n /\ listener'[k].adm \in Gen
                    /\ admission'[k] = listener'[k].adm
    <3>1. CASE k \in Staged
      <4>1. n # 0 /\ n \in 1..n
        BY <1>0, <1>1
      <4> QED
        <5>1. listener'[k].born = n /\ listener'[k].adm = StagedAdmission(k) /\ k \in reload.keys
              /\ admission'[k] = StagedAdmission(k)
          <6>1. listener'[k] = [born |-> n, adm |-> StagedAdmission(k)] /\ k \in reload.keys
                /\ admission'[k] = StagedAdmission(k)
            BY <1>5, <3>1 DEF Staged
          <6> QED
            BY <6>1
        <5>2. listener'[k] # NoListener
          BY <4>1, <5>1 DEF NoListener
        <5> QED
          BY <1>6, <4>1, <5>1, <5>2
    <3>2. CASE k \in reload.keys /\ k \notin Staged
      <4>1. /\ listener[k].born \in 1..current /\ listener[k].adm \in Gen
            /\ admission[k] = listener[k].adm
        BY <1>5, <3>2 DEF IInv, ListenersOK
      <4>2. listener[k].born \in 1..n
        BY <1>0, <1>1, <4>1
      <4>3. listener'[k] = listener[k] /\ listener[k] # NoListener /\ admission'[k] = admission[k]
        BY <1>5, <3>2
      <4> QED
        BY <3>2, <4>1, <4>2, <4>3
    <3>3. CASE k \notin reload.keys
      BY <1>5, <3>3
    <3> QED
      BY <3>1, <3>2, <3>3 DEF Staged
  <2> QED
    BY <1>1, <1>3, <1>4, <1>7, <2>1 DEF ListenersOK
<1>14. RecordsOK'
  <2>1. SUFFICES ASSUME NEW c \in Conn, conn[c].st # "idle"
        PROVE  /\ ServedSince(c, n)' =>
                    listener'[conn[c].key] = [born |-> conn[c].born, adm |-> conn[c].adm]
               /\ \A g \in conn[c].born..n :
                    life'[g] # "done" /\ ServedSince(c, g)' =>
                      admission'[conn[c].key] = conn[c].adm
    BY <1>3 DEF RecordsOK, ServedSince
  <2> DEFINE k == conn[c].key
  <2>2. k \in Key /\ conn[c].born \in 1..current /\ conn[c].adm \in Gen
    BY <2>1 DEF IInv, TypeOK, LeasesOK
  <2>3. ASSUME NEW g \in conn[c].born..current, \A h \in conn[c].born..g : k \in bindings'[h]
        PROVE  ServedSince(c, g)
    <3>1. SUFFICES ASSUME NEW h \in conn[c].born..g PROVE k \in bindings[h]
      BY DEF ServedSince
    <3>2. h \in Gen /\ h # n
      BY <1>0, <1>1, <2>2, <2>3, <3>1, ServerAssumption DEF Gen
    <3>3. k \in bindings'[h]
      BY <2>3, <3>1
    <3> QED
      BY <1>4, <3>2, <3>3
  <2>4. ASSUME ServedSince(c, n)'
        PROVE  listener'[k] = [born |-> conn[c].born, adm |-> conn[c].adm]
    <3>1. k \in bindings'[n] /\ \A h \in conn[c].born..current : k \in bindings'[h]
      BY <1>0, <1>1, <1>3, <2>2, <2>4 DEF ServedSince
    <3>2. k \in reload.keys
      BY <1>1, <1>4, <3>1
    <3>3. current \in conn[c].born..current
      BY <1>1, <2>2
    <3>4. listener[k] = [born |-> conn[c].born, adm |-> conn[c].adm]
      <4>1. ServedSince(c, current)
        BY <2>3, <3>1, <3>3
      <4> QED
        BY <2>1, <4>1 DEF IInv, RecordsOK
    <3>5. listener[k] # NoListener
      BY <2>2, <3>4 DEF NoListener
    <3> QED
      BY <1>5, <2>2, <3>2, <3>4, <3>5 DEF Staged
  <2>5. ASSUME NEW g \in conn[c].born..n, life'[g] # "done", ServedSince(c, g)'
        PROVE  admission'[k] = conn[c].adm
    <3>1. CASE g = n
      <4>1. listener'[k] = [born |-> conn[c].born, adm |-> conn[c].adm]
        BY <2>4, <2>5, <3>1
      <4>2. listener'[k] # NoListener /\ listener'[k].adm = conn[c].adm
        BY <2>2, <4>1 DEF NoListener
      <4> QED
        BY <1>13, <2>2, <4>2 DEF ListenersOK
    <3>2. CASE g # n
      <4>1. g \in conn[c].born..current /\ g \in Gen
        BY <1>0, <1>1, <2>2, <2>5, <3>2, ServerAssumption DEF Gen
      <4>2. life[g] # "done" /\ ServedSince(c, g)
        BY <1>3, <1>4, <2>3, <2>5, <3>2, <4>1 DEF ServedSince
      <4>3. admission[k] = conn[c].adm
        BY <2>1, <4>1, <4>2 DEF IInv, RecordsOK
      <4> QED
        BY <1>6, <2>2, <4>3 DEF Gen
    <3> QED
      BY <3>1, <3>2
  <2> QED
    BY <2>4, <2>5
<1>15. CleanupOK'
  <2>1. SUFFICES ASSUME NEW k \in Key, admission'[k] # 0, Unused(k)', IdleRecord(k)'
                 PROVE  CleanupDue(k)'
    BY DEF CleanupOK
  <2>2. k \notin reload.keys /\ admission'[k] = admission[k]
    BY <1>1, <1>3, <1>4, <1>5, <2>1 DEF Unused
  <2>3. ASSUME NEW g \in retired \cup {current} PROVE life[g] = "done" \/ k \notin bindings[g]
    <3>1. g \in Gen /\ g # n
      BY <1>0, <1>1, <1>2 DEF IInv, GenerationsOK, Gen
    <3> QED
      BY <1>3, <1>4, <2>1, <3>1 DEF Unused
  <2>4. Unused(k)
    BY <1>1, <2>3 DEF Unused
  <2>5. IdleRecord(k)
    BY <1>3, <2>1, <2>2 DEF IdleRecord
  <2>6. CleanupDue(k)
    BY <2>1, <2>2, <2>4, <2>5 DEF IInv, CleanupOK
  <2>7. \A g \in Gen : watcher[g] # "off" => g < current
    BY <1>1 DEF IInv, GenerationsOK, Gen
  <2>8. \A g \in Gen : watcher[g] # "off" => watcher'[g] = watcher[g] /\ life'[g] = life[g]
    BY <1>0, <1>1, <1>4, <2>7 DEF Gen
  <2> QED
    BY <1>3, <2>2, <2>6, <2>8 DEF CleanupDue
<1> QED
  BY <1>8, <1>10, <1>11, <1>12, <1>13, <1>14, <1>15 DEF IInv

-----------------------------------------------------------------------------
(* The invariant and what follows from it. *)

LEMMA InitKeeps == Init => IInv
<1> SUFFICES ASSUME Init PROVE IInv
  OBVIOUS
<1>1. /\ current = 1 /\ life = [g \in Gen |-> IF g = 1 THEN "live" ELSE "unborn"]
      /\ refs = [g \in Gen |-> 0] /\ retired = {} /\ watcher = [g \in Gen |-> "off"]
      /\ active = [a \in Key \X Gen |-> 0]
      /\ perIP = [a \in Key \X Gen |-> [i \in Address |-> 0]]
      /\ global = 0 /\ reload = NoReload /\ closed = FALSE /\ conn = [c \in Conn |-> NoConn]
  BY DEF Init
<1>2. PICK K \in SUBSET Key :
         /\ bindings = [g \in Gen |-> IF g = 1 THEN K ELSE {}]
         /\ listener = [k \in Key |-> IF k \in K THEN [born |-> 1, adm |-> 1] ELSE NoListener]
         /\ admission = [k \in Key |-> IF k \in K THEN 1 ELSE 0]
  BY DEF Init
<1>3. 1 \in Gen /\ 0 \in 0..MaxGen /\ 1 \in 0..MaxGen /\ 0 \in 0..GlobalLimit
  BY ServerAssumption DEF Gen
<1>4. \A c \in Conn : conn[c].st = "idle"
  BY <1>1, NoConnIdle
<1>5. Cardinality({}) = 0 /\ 0 \in 0..Cardinality(Conn)
  BY ConnsFinite, FS_EmptySet
<1>6. NoReload \in [st : {"idle", "staging", "retiring"}, keys : SUBSET Key,
                    adms : [Key -> 0..MaxGen]] /\ NoReload.st = "idle"
  BY <1>3 DEF NoReload
<1>7. TypeOK
  <2>1. listener \in [Key -> [born : 0..MaxGen, adm : 0..MaxGen]]
    BY <1>2, <1>3 DEF NoListener
  <2>2. bindings \in [Gen -> SUBSET Key] /\ admission \in [Key -> 0..MaxGen]
    BY <1>2, <1>3
  <2>3. conn \in [Conn -> ConnType]
    BY <1>1, NoConnIdle
  <2>4. /\ active \in [Key \X Gen -> 0..Cardinality(Conn)]
        /\ perIP \in [Key \X Gen -> [Address -> 0..Cardinality(Conn)]]
    BY <1>1, <1>5
  <2> QED
    BY <1>1, <1>3, <1>6, <2>1, <2>2, <2>3, <2>4 DEF TypeOK, ConnType
<1>8. GenerationsOK
  <2>1. Replaced = {}
    BY <1>1 DEF Replaced
  <2> QED
    BY <1>1, <1>3, <1>5, <1>6, <2>1, ServerAssumption DEF GenerationsOK, Gen
<1>9. LeasesOK
  <2>1. \A g \in Gen : Holders(g) = {}
    BY <1>4 DEF Holders, Leased, InHandler
  <2>2. \A g \in Gen : refs[g] = 0 /\ life[g] \notin {"done", "draining"}
    BY <1>1
  <2> QED
    BY <1>4, <1>5, <2>1, <2>2 DEF LeasesOK, Leased, InHandler
<1>10. QuotaAccounting
  <2>1. {c \in Conn : conn[c].st \in {"admitted"} \cup InHandler} = {}
    BY <1>4 DEF InHandler
  <2>2. ASSUME NEW a \in Key \X Gen
        PROVE  {c \in Conn : conn[c].st \in {"pending", "active"} /\ Record(c) = a} = {}
    BY <1>4
  <2>3. \A a \in Key \X Gen : active[a] = 0 /\ \A i \in Address : perIP[a][i] = 0
    BY <1>1
  <2> QED
    BY <1>1, <1>5, <2>1, <2>2, <2>3 DEF QuotaAccounting
<1>11. ListenersOK
  <2>1. ASSUME NEW k \in Key
        PROVE  /\ listener[k] # NoListener <=> k \in K
               /\ k \in K => listener[k].born = 1 /\ listener[k].adm = 1 /\ admission[k] = 1
    <3>1. listener[k] = IF k \in K THEN [born |-> 1, adm |-> 1] ELSE NoListener
      BY <1>2
    <3>2. [born |-> 1, adm |-> 1] # NoListener
      BY DEF NoListener
    <3> QED
      BY <1>2, <3>1, <3>2
  <2> QED
    BY <1>1, <1>2, <1>3, <1>6, <2>1 DEF ListenersOK
<1>12. RecordsOK
  BY <1>4 DEF RecordsOK
<1>13. CleanupOK
  BY <1>1, <1>2, <1>3 DEF CleanupOK, Unused
<1> QED
  BY <1>7, <1>8, <1>9, <1>10, <1>11, <1>12, <1>13 DEF IInv

LEMMA StutterKeeps ==
    ASSUME IInv, UNCHANGED vars
    PROVE  IInv'
<1>1. /\ UNCHANGED <<current, bindings, life, refs, retired, watcher, listener, admission>>
      /\ UNCHANGED <<active, perIP, global, reload, closed, conn>>
  BY DEF vars, generations, quotas
<1>2. TypeOK' /\ GenerationsOK'
  BY <1>1 DEF IInv, TypeOK, GenerationsOK, Replaced
<1>3. LeasesOK'
  BY <1>1 DEF IInv, LeasesOK, Holders
<1>4. QuotaAccounting'
  BY <1>1 DEF IInv, QuotaAccounting, Record
<1>5. ListenersOK' /\ RecordsOK'
  BY <1>1 DEF IInv, ListenersOK, RecordsOK, ServedSince
<1>6. CleanupOK'
  BY <1>1 DEF IInv, CleanupOK, CleanupDue, Unused, IdleRecord
<1> QED
  BY <1>2, <1>3, <1>4, <1>5, <1>6 DEF IInv

LEMMA NextKeeps == IInv /\ [Next]_vars => IInv'
<1> SUFFICES ASSUME IInv, [Next]_vars PROVE IInv'
  OBVIOUS
<1>1. ASSUME NEW c \in Conn, ConnStep(c) PROVE IInv'
  BY <1>1, ConnStepKeeps
<1>2. CASE QuietStep
  BY <1>2, QuietStepEffect, QuietKeeps
<1>3. CASE CommitReload
  BY <1>3, CommitKeeps
<1>4. ASSUME NEW g \in Gen, pruneAdmissions(g) PROVE IInv'
  BY <1>4, PruneKeeps
<1>5. CASE UNCHANGED vars
  BY <1>5, StutterKeeps
<1> QED
  BY <1>1, <1>2, <1>3, <1>4, <1>5 DEF Next, ConnStep, QuietStep, ReloadStep, WatcherStep

\* The invariant holds in every reachable state of the server.
THEOREM Invariance == Spec => []IInv
BY InitKeeps, NextKeeps, PTL DEF Spec

\* A lease protects what it leases: release, retire and the watchers never
\* clear the routing state of a generation a connection holds, refs counts the
\* leases, and at most maxRetiredGenerations replaced generations are kept.
THEOREM LeasesProtect == Spec => []LeaseProtects
<1>1. IInv => LeaseProtects
  <2> SUFFICES ASSUME IInv PROVE LeaseProtects
    OBVIOUS
  <2>1. ASSUME NEW g \in Gen
        PROVE  refs[g] = Cardinality(Holders(g)) /\ (life[g] = "done" => Holders(g) = {})
    <3>1. IsFiniteSet(Holders(g))
      BY ConnsFinite DEF Holders
    <3> QED
      BY <3>1, FS_EmptySet DEF IInv, LeasesOK
  <2> QED
    BY <2>1 DEF LeaseProtects, Holders, IInv, GenerationsOK, Replaced
<1> QED
  BY <1>1, Invariance, PTL

\* reserveRule, releasePending, releaseRule and the global limit count exactly
\* the connections that are admitted, in each record and under each address.
THEOREM QuotasAreExact == Spec => []QuotaAccounting
<1>1. IInv => QuotaAccounting
  BY DEF IInv
<1> QED
  BY <1>1, Invariance, PTL

\* maybeCleanupAdmission and pruneAdmissions never take away the record of a
\* listener being served, nor that of a connection whose address stayed
\* configured from its listener's creation to its lease.
THEOREM RecordsAreKept == Spec => []RecordsKept
<1>1. IInv => RecordsKept
  <2> SUFFICES ASSUME IInv PROVE RecordsKept
    OBVIOUS
  <2>1. ASSUME NEW c \in Conn, conn[c].st \in {"pending", "active"}, ServedSince(c, conn[c].gen)
        PROVE  admission[conn[c].key] = conn[c].adm
    <3>1. conn[c].st \in Leased /\ conn[c].st # "idle"
      BY <2>1 DEF Leased, InHandler
    <3>2. conn[c].gen \in conn[c].born..current /\ conn[c].born \in 1..current
      BY <3>1 DEF IInv, LeasesOK
    <3>3. conn[c].gen \in Gen /\ c \in Holders(conn[c].gen)
      <4>1. current \in 1..MaxGen
        BY DEF IInv, TypeOK, Gen
      <4>2. conn[c].gen \in 1..MaxGen
        BY <3>2, <4>1, ServerAssumption
      <4> QED
        BY <3>1, <4>2 DEF Holders, Gen
    <3>4. life[conn[c].gen] # "done"
      <4>1. IsFiniteSet(Holders(conn[c].gen))
        BY ConnsFinite DEF Holders
      <4>2. Cardinality(Holders(conn[c].gen)) # 0
        BY <3>3, <4>1, FS_EmptySet
      <4> QED
        BY <3>3, <4>2 DEF IInv, LeasesOK
    <3> QED
      BY <2>1, <3>1, <3>2, <3>4 DEF IInv, RecordsOK
  <2>2. \A k \in Key : listener[k] # NoListener => admission[k] = listener[k].adm
    BY DEF IInv, ListenersOK
  <2> QED
    BY <2>1, <2>2 DEF RecordsKept, ServedSince
<1> QED
  BY <1>1, Invariance, PTL

\* Nothing is left behind at rest: replaced generations are kept for their
\* leases only and forgotten once done, and no idle record remains that no
\* generation in use binds, in whatever order handlers, reloads, watchers and
\* Close took their last steps.
THEOREM RestingIsClean == Spec => []RestIsClean
<1>1. IInv => RestIsClean
  <2> SUFFICES ASSUME IInv, Resting
               PROVE  /\ \A g \in Gen : g # current \/ closed =>
                           life[g] \in {"unborn", "done"} \/ refs[g] > 0
                      /\ \A g \in retired : refs[g] > 0
                      /\ \A k \in Key : admission[k] # 0 /\ Unused(k) => ~IdleRecord(k)
    BY DEF RestIsClean
  <2>1. reload.st = "idle" /\ current \in Gen /\ retired \in SUBSET Gen
        /\ life \in [Gen -> {"unborn", "live", "retiring", "draining", "done"}]
    BY DEF Resting, NoReload, IInv, TypeOK
  <2>2. ASSUME NEW g \in Gen, g # current \/ closed
        PROVE  life[g] \in {"unborn", "done"} \/ refs[g] > 0
    <3>1. life[g] \notin {"live", "retiring"}
      <4>1. CASE g = current
        BY <2>2, <4>1 DEF Resting
      <4>2. CASE g < current
        BY <2>1, <4>2 DEF IInv, GenerationsOK
      <4>3. CASE g > current
        BY <4>3 DEF IInv, GenerationsOK
      <4> QED
        BY <2>1, <4>1, <4>2, <4>3 DEF Gen
    <3> QED
      BY <2>1, <3>1 DEF IInv, LeasesOK
  <2>3. ASSUME NEW g \in retired PROVE refs[g] > 0
    <3>1. g \in Gen /\ g < current /\ watcher[g] = "waiting"
      BY <2>1 DEF IInv, GenerationsOK
    <3>2. life[g] # "done" /\ life[g] # "unborn" /\ g # current
      BY <2>1, <3>1 DEF Resting, IInv, GenerationsOK, Gen
    <3> QED
      BY <2>2, <3>1, <3>2
  <2>4. ASSUME NEW k \in Key, admission[k] # 0, Unused(k), IdleRecord(k) PROVE FALSE
    <3>1. CleanupDue(k)
      BY <2>4 DEF IInv, CleanupOK
    <3> QED
      BY <3>1 DEF CleanupDue, Resting
  <2> QED
    BY <2>2, <2>3, <2>4
<1> QED
  BY <1>1, Invariance, PTL

\* Publishing a generation loses no connection: acquireBinding turns one away
\* only when its address is not configured or the server is closing, since the
\* current generation is retired by Close alone.
THEOREM ReloadsDropNothing == Spec => ReloadDropsNothing
<1> DEFINE Lost(c) == conn[c].st \in {"accepted", "loaded"} /\ conn'[c].st = "idle"
           Kept == \A c \in Conn : Lost(c) => closed \/ conn[c].key \notin bindings[current]
<1>1. IInv /\ [Next]_vars => [Kept]_vars
  <2> SUFFICES ASSUME IInv, Next, NEW c \in Conn, Lost(c)
               PROVE  closed \/ conn[c].key \notin bindings[current]
    OBVIOUS
  <2>0. conn \in [Conn -> ConnType] /\ conn[c].st # "idle" /\ conn'[c] # conn[c]
    BY DEF IInv, TypeOK, ConnType
  <2>1. ASSUME NEW d \in Conn, ConnStep(d) PROVE closed \/ conn[c].key \notin bindings[current]
    <3>1. d = c
      BY <2>0, <2>1, ConnStepEffect DEF ConnEffect, IInv
    <3>2. conn[c].st \in {"accepted", "loaded"} /\ conn'[c].st = "idle"
      OBVIOUS
    <3>3. CASE LoadGeneration(c)
      <4>1. CASE conn[c].key \in bindings[current]
        BY <2>0, <3>2, <3>3, <4>1 DEF LoadGeneration, ConnType
      <4> QED
        BY <4>1
    <3>4. CASE TryAcquire(c)
      <4>1. ~CanAcquire(conn[c].gen) /\ conn[c].gen = current
        BY <2>0, <3>2, <3>4 DEF TryAcquire, Set, ConnType
      <4> QED
        BY <4>1 DEF CanAcquire, IInv, GenerationsOK
    <3>5. LoadGeneration(c) \/ TryAcquire(c)
      BY <2>1, <3>1, <3>2 DEF ConnStep, Accept, AcceptStep, RecheckCurrent, RejectBound,
         AdmitGlobal, ReserveRule, RuleFull, AssignIP, HandlerStep, RejectPending, ReleaseRule,
         maybeCleanupAdmission, HandlerExits
    <3> QED
      BY <3>3, <3>4, <3>5
  <2>2. CASE QuietStep
    BY <2>0, <2>2, QuietStepEffect DEF QuietEffect
  <2>3. CASE CommitReload
    BY <2>0, <2>3 DEF CommitReload
  <2>4. ASSUME NEW g \in Gen, pruneAdmissions(g) PROVE FALSE
    BY <2>0, <2>4 DEF pruneAdmissions
  <2> QED
    BY <2>1, <2>2, <2>3, <2>4 DEF Next, ConnStep, QuietStep, ReloadStep, WatcherStep
<1> QED
  BY <1>1, Invariance, PTL DEF Spec, ReloadDropsNothing
=============================================================================
