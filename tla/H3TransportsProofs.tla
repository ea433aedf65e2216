------------------------- MODULE H3TransportsProofs -------------------------
(***************************************************************************)
(* Rotation keeps the pool of HTTP/3 transports sound, no QUIC connection  *)
(* escapes its slot, and a forced drain spares the neighbours, for every   *)
(* number of slots, requests and rules.                                    *)
(*                                                                         *)
(* The invariant takes the state as parameters: the slots sl, the requests *)
(* rq and whether the manager is retired.                                  *)
(***************************************************************************)
EXTENDS H3Transports, FiniteSetTheorems, TLAPS

MonRec == [on : BOOLEAN, all : BOOLEAN, rules : SUBSET Rule]
ProofRec == [rules : SUBSET Rule, other : BOOLEAN]
SlotRec ==
    [lc : {"none", "warming", "serving", "draining", "failed"},
     home : {"pool", "closing", "closed"}, health : {"healthy", "degraded"},
     reason : {"ordinary", "severe", "hole", "error"},
     active : Nat, conn : {"none", "live", "closed"}, old : 0..MaxOld,
     dial : {"idle", "dialing", "registered"},
     replaces : Slot \cup {None}, replacement : Slot \cup {None},
     mon : MonRec, proof : ProofRec]
ReqRec ==
    [st : {"idle", "trip", "answered", "accepted", "tunnel", "release", "retry"},
     slot : Slot \cup {None}, kind : {"client", "managed", "probation"}, cand : BOOLEAN,
     retry : Slot \cup {None}]

\* A closed slot has no live connection, and a dial that is under way still fits
\* beside the connections there are.
ConnOK(r) ==
    /\ r.home = "closed" => r.old = 0 /\ r.conn # "live" /\ r.dial # "registered"
    /\ r.dial # "idle" /\ r.conn = "live" => r.old < MaxOld

\* The monitor's permission is never wider than what has been shown.
DrainOK(r) ==
    /\ r.mon.all => r.proof.other
    /\ r.mon.rules \subseteq r.proof.rules

\* What the pool may keep.
UseOK(rt, r) ==
    r.home = "pool" =>
        /\ r.lc # "none"
        /\ r.lc = "warming" => r.active <= 1
        /\ r.active = 0 => ~rt /\ r.lc \in {"warming", "serving"}

LocalOK(rt, r) == ConnOK(r) /\ DrainOK(r) /\ UseOK(rt, r)

HeldOK(r) == r.slot = None <=> r.st \in {"idle", "retry"}

In(sl, lc) == {s \in Slot : sl[s].home = "pool" /\ sl[s].lc = lc}
PoolOf(sl) == {s \in Slot : sl[s].home = "pool"}
HoldersOf(rq, s) == {q \in Request : rq[q].slot = s}

LinksOK(sl) ==
    /\ \A s, t \in In(sl, "warming") : s = t
    /\ \A s \in In(sl, "warming"), t \in In(sl, "serving") :
          sl[s].replaces = t <=> sl[t].replacement = s

BoundOK(sl) == Cardinality(PoolOf(sl)) <= MaxTransports

CountsOK(sl, rq) == \A s \in Slot : sl[s].active = Cardinality(HoldersOf(rq, s))

Inv(sl, rq, rt) ==
    /\ sl \in [Slot -> SlotRec] /\ rq \in [Request -> ReqRec] /\ rt \in BOOLEAN
    /\ \A s \in Slot : LocalOK(rt, sl[s])
    /\ \A q \in Request : HeldOK(rq[q])
    /\ LinksOK(sl)
    /\ BoundOK(sl)
    /\ CountsOK(sl, rq)

\* The inductive invariant.
IInv == Inv(slot, req, retired)

-----------------------------------------------------------------------------
(* What the operations do to one slot. *)

LEMMA BlankFacts ==
    ASSUME NEW rt \in BOOLEAN
    PROVE  /\ Blank \in SlotRec /\ LocalOK(rt, Blank)
           /\ Blank.home = "closed" /\ Blank.active = 0
<1>1. NoMonitor \in MonRec /\ NoProof \in ProofRec
  BY DEF NoMonitor, NoProof, MonRec, ProofRec
<1>2. 0 \in 0..MaxOld /\ 0 \in Nat
  BY TransportsAssumption
<1>3. Blank \in SlotRec
  BY <1>1, <1>2 DEF Blank, SlotRec
<1>4. ConnOK(Blank) /\ UseOK(rt, Blank)
  BY DEF Blank, ConnOK, UseOK
<1>5. DrainOK(Blank)
  BY DEF Blank, DrainOK, NoMonitor, NoProof
<1> QED
  BY <1>3, <1>4, <1>5 DEF LocalOK, Blank

\* removeSlotLocked takes a slot out of the pool with its users and connections.
LEMMA RemovedFacts ==
    ASSUME NEW rt \in BOOLEAN, NEW a \in SlotRec, ConnOK(a)
    PROVE  /\ Removed(a) \in SlotRec /\ LocalOK(rt, Removed(a))
           /\ Removed(a).home # "pool" /\ Removed(a).active = a.active
           /\ Removed(a).lc = "none"
<1> DEFINE b == Removed(a)
           h == IF a.home = "pool" THEN "closing" ELSE a.home
<1>1. h \in {"closing", "closed"} /\ (h = "closed" => a.home = "closed")
  BY DEF SlotRec
<1>2. b = [Blank EXCEPT !.home = h, !.active = a.active, !.conn = a.conn, !.old = a.old,
                        !.dial = a.dial]
  BY DEF Removed
<1> HIDE DEF h
<1>3. b \in SlotRec
  BY <1>1, <1>2, BlankFacts DEF SlotRec
<1>4. /\ b.home = h /\ b.active = a.active /\ b.conn = a.conn /\ b.old = a.old
      /\ b.dial = a.dial /\ b.lc = "none" /\ b.mon = NoMonitor /\ b.proof = NoProof
  BY <1>2 DEF Blank
<1> HIDE DEF b
<1>5. ConnOK(b)
  BY <1>1, <1>4 DEF ConnOK
<1>6. DrainOK(b)
  BY <1>4 DEF DrainOK, NoMonitor, NoProof
<1>7. UseOK(rt, b)
  BY <1>1, <1>4 DEF UseOK
<1> QED
  BY <1>1, <1>3, <1>4, <1>5, <1>6, <1>7 DEF LocalOK, b

\* Only a closed slot without users becomes garbage.
LEMMA CollectFacts ==
    ASSUME NEW rt \in BOOLEAN, NEW a \in SlotRec
    PROVE  /\ Collect(a) \in SlotRec /\ Collect(a).active = a.active
           /\ LocalOK(rt, a) => LocalOK(rt, Collect(a))
           /\ Collect(a) = a \/ (Collect(a) = Blank /\ a.home = "closed")
BY BlankFacts DEF Collect

\* Allowing more never reaches beyond what the slot has a proof for.
LEMMA AllowFacts ==
    ASSUME NEW m \in MonRec, NEW p \in ProofRec, NEW rules,
           m.all => p.other, m.rules \subseteq p.rules,
           \/ rules = All /\ p.other
           \/ rules # All /\ rules \subseteq p.rules
    PROVE  /\ Allow(m, rules) \in MonRec
           /\ Allow(m, rules).all => p.other
           /\ Allow(m, rules).rules \subseteq p.rules
<1>1. p.rules \in SUBSET Rule
  BY DEF ProofRec
<1>2. CASE m.all
  BY <1>2 DEF Allow
<1>3. CASE ~m.all /\ rules = All
  BY <1>3 DEF Allow, MonRec
<1>4. CASE ~m.all /\ rules # All
  <2>1. Allow(m, rules) = [m EXCEPT !.rules = m.rules \cup rules]
    BY <1>4 DEF Allow
  <2>2. m.rules \cup rules \in SUBSET Rule /\ m.rules \cup rules \subseteq p.rules
    BY <1>1, <1>4
  <2> QED
    BY <1>4, <2>1, <2>2 DEF MonRec
<1> QED
  BY <1>2, <1>3, <1>4

\* prepareHTTP3ForcedDrainLocked touches only the monitor.
LEMMA PrepareFacts ==
    ASSUME NEW a \in SlotRec, DrainOK(a), NEW rules,
           \/ rules = All /\ a.proof.other
           \/ rules # All /\ rules \subseteq a.proof.rules
    PROVE  /\ Prepare(a, rules) \in SlotRec /\ DrainOK(Prepare(a, rules))
           /\ \E m \in MonRec : Prepare(a, rules) = [a EXCEPT !.mon = m]
<1>1. a.mon \in MonRec /\ a.proof \in ProofRec /\ a = [a EXCEPT !.mon = a.mon]
  BY DEF SlotRec
<1> DEFINE on == [NoMonitor EXCEPT !.on = TRUE]
           Fits(m) == m \in MonRec /\ (m.all => a.proof.other) /\ m.rules \subseteq a.proof.rules
<1>2. Fits(a.mon) /\ Fits(on)
  BY <1>1 DEF DrainOK, NoMonitor, MonRec
<1>3. Fits(Allow(a.mon, rules)) /\ Fits(Allow(on, rules))
  <2> HIDE DEF on
  <2> QED
    BY <1>1, <1>2, AllowFacts
<1>4. PICK m : Fits(m) /\ Prepare(a, rules) = [a EXCEPT !.mon = m]
  <2>1. \/ Prepare(a, rules) = a
        \/ Prepare(a, rules) = [a EXCEPT !.mon = Allow(a.mon, rules)]
        \/ Prepare(a, rules) = [a EXCEPT !.mon = Allow(on, rules)]
    BY DEF Prepare
  <2> HIDE DEF on, Fits
  <2> QED
    BY <1>1, <1>2, <1>3, <2>1
<1>5. [a EXCEPT !.mon = m] \in SlotRec
  BY <1>4 DEF SlotRec
<1>6. DrainOK([a EXCEPT !.mon = m])
  BY <1>4 DEF DrainOK, SlotRec
<1> QED
  BY <1>4, <1>5, <1>6

-----------------------------------------------------------------------------
(* What a step does to all the slots. *)

\* A slot whose record goes from a to b brings nothing into the pool and makes
\* no candidate, no serving slot and no link between two of them.
Kept(rt, a, b) ==
    /\ b \in SlotRec /\ LocalOK(rt, b)
    /\ b.home = "pool" =>
          /\ a.home = "pool"
          /\ b.lc = "warming" => a.lc = "warming" /\ b.replaces = a.replaces
          /\ b.lc = "serving" => a.lc = "serving" /\ b.replacement = a.replacement

LEMMA SubsetsFinite ==
    /\ \A S \in SUBSET Slot : IsFiniteSet(S) /\ Cardinality(S) \in Nat
    /\ \A S \in SUBSET Request : IsFiniteSet(S) /\ Cardinality(S) \in Nat
BY TransportsAssumption, FS_Subset, FS_CardinalityType

\* Nothing new in the pool: the bound stays.
LEMMA BoundKept ==
    ASSUME NEW a, NEW b, BoundOK(a), PoolOf(b) \subseteq PoolOf(a)
    PROVE  BoundOK(b)
<1>1. /\ PoolOf(a) \in SUBSET Slot /\ PoolOf(b) \in SUBSET Slot
  BY DEF PoolOf
<1>2. Cardinality(PoolOf(b)) <= Cardinality(PoolOf(a))
  BY <1>1, SubsetsFinite, FS_Subset
<1>3. Cardinality(PoolOf(a)) \in Nat /\ Cardinality(PoolOf(b)) \in Nat
  BY <1>1, SubsetsFinite
<1> QED
  BY <1>2, <1>3, TransportsAssumption DEF BoundOK

\* One slot enters a pool that is not full.
LEMMA BoundGrows ==
    ASSUME NEW a, NEW b, NEW c \in Slot, Cardinality(PoolOf(a)) < MaxTransports,
           PoolOf(b) \subseteq PoolOf(a) \cup {c}
    PROVE  BoundOK(b)
<1> DEFINE P == PoolOf(a)
<1>1. P \in SUBSET Slot /\ P \cup {c} \in SUBSET Slot /\ PoolOf(b) \in SUBSET Slot
  BY DEF PoolOf
<1>2. /\ IsFiniteSet(P) /\ Cardinality(P) \in Nat
      /\ IsFiniteSet(P \cup {c}) /\ Cardinality(P \cup {c}) \in Nat
      /\ Cardinality(PoolOf(b)) \in Nat
  BY <1>1, SubsetsFinite
<1>3. Cardinality(P \cup {c}) <= Cardinality(P) + 1
  BY <1>2, FS_AddElement
<1>4. Cardinality(PoolOf(b)) <= Cardinality(P \cup {c})
  BY <1>2, FS_Subset
<1> QED
  BY <1>2, <1>3, <1>4, TransportsAssumption DEF BoundOK

\* Users and counts stay.
LEMMA CountsKept ==
    ASSUME NEW sa, NEW sb, NEW ra, NEW rb, CountsOK(sa, ra),
           \A s \in Slot : sb[s].active = sa[s].active,
           \A q \in Request : rb[q].slot = ra[q].slot
    PROVE  CountsOK(sb, rb)
<1>1. ASSUME NEW s \in Slot PROVE HoldersOf(rb, s) = HoldersOf(ra, s)
  BY DEF HoldersOf
<1> QED
  BY <1>1 DEF CountsOK

\* A request takes a stream of slot s.
LEMMA CountsEnter ==
    ASSUME NEW sa, NEW sb, NEW ra, NEW rb, NEW q \in Request, NEW s \in Slot,
           CountsOK(sa, ra),
           ra[q].slot = None, rb[q].slot = s,
           \A p \in Request \ {q} : rb[p].slot = ra[p].slot,
           sb[s].active = sa[s].active + 1,
           \A t \in Slot \ {s} : sb[t].active = sa[t].active
    PROVE  CountsOK(sb, rb)
<1>1. ASSUME NEW t \in Slot, t # s
      PROVE  HoldersOf(rb, t) = HoldersOf(ra, t)
  BY <1>1, TransportsAssumption DEF HoldersOf
<1>2. HoldersOf(rb, s) = HoldersOf(ra, s) \cup {q} /\ q \notin HoldersOf(ra, s)
  BY TransportsAssumption DEF HoldersOf
<1>3. HoldersOf(ra, s) \in SUBSET Request
  BY DEF HoldersOf
<1>4. Cardinality(HoldersOf(rb, s)) = Cardinality(HoldersOf(ra, s)) + 1
  BY <1>2, <1>3, SubsetsFinite, FS_AddElement
<1> QED
  BY <1>1, <1>4 DEF CountsOK

\* A request gives its stream of slot s back.
LEMMA CountsLeave ==
    ASSUME NEW sa, NEW sb, NEW ra, NEW rb, NEW q \in Request, NEW s \in Slot,
           CountsOK(sa, ra),
           ra[q].slot = s, rb[q].slot = None,
           \A p \in Request \ {q} : rb[p].slot = ra[p].slot,
           sb[s].active = sa[s].active - 1,
           \A t \in Slot \ {s} : sb[t].active = sa[t].active
    PROVE  CountsOK(sb, rb)
<1>1. ASSUME NEW t \in Slot, t # s
      PROVE  HoldersOf(rb, t) = HoldersOf(ra, t)
  BY <1>1, TransportsAssumption DEF HoldersOf
<1>2. HoldersOf(rb, s) = HoldersOf(ra, s) \ {q} /\ q \in HoldersOf(ra, s)
  BY TransportsAssumption DEF HoldersOf
<1>3. HoldersOf(ra, s) \in SUBSET Request
  BY DEF HoldersOf
<1>4. Cardinality(HoldersOf(rb, s)) = Cardinality(HoldersOf(ra, s)) - 1
  BY <1>2, <1>3, SubsetsFinite, FS_RemoveElement
<1> QED
  BY <1>1, <1>4 DEF CountsOK

\* A slot that a request uses has a user.
LEMMA HolderCounted ==
    ASSUME NEW sa, NEW ra, NEW q \in Request, NEW s \in Slot,
           CountsOK(sa, ra), ra[q].slot = s
    PROVE  sa[s].active \in Nat /\ sa[s].active > 0
<1>1. HoldersOf(ra, s) \in SUBSET Request /\ q \in HoldersOf(ra, s)
  BY DEF HoldersOf
<1>2. IsFiniteSet(HoldersOf(ra, s)) /\ Cardinality(HoldersOf(ra, s)) \in Nat
  BY <1>1, SubsetsFinite
<1>3. Cardinality(HoldersOf(ra, s)) # 0
  BY <1>1, <1>2, FS_EmptySet
<1> QED
  BY <1>2, <1>3 DEF CountsOK

\* A step that keeps every slot's place in the pool keeps the links.
LEMMA LinksKept ==
    ASSUME NEW rt, NEW a, NEW b, LinksOK(a),
           \A s \in Slot : Kept(rt, a[s], b[s])
    PROVE  LinksOK(b) /\ PoolOf(b) \subseteq PoolOf(a)
<1>1. In(b, "warming") \subseteq In(a, "warming") /\ In(b, "serving") \subseteq In(a, "serving")
  BY DEF In, Kept
<1>2. \A s, t \in In(b, "warming") : s = t
  BY <1>1 DEF LinksOK
<1>3. ASSUME NEW s \in In(b, "warming"), NEW t \in In(b, "serving")
      PROVE  b[s].replaces = t <=> b[t].replacement = s
  <2>1. b[s].replaces = a[s].replaces /\ b[t].replacement = a[t].replacement
    BY DEF In, Kept
  <2> QED
    BY <1>1, <2>1 DEF LinksOK
<1>4. PoolOf(b) \subseteq PoolOf(a)
  BY DEF PoolOf, Kept
<1> QED
  BY <1>2, <1>3, <1>4 DEF LinksOK

\* The usual step: every slot keeps its place.
LEMMA KeptStep ==
    ASSUME NEW a, NEW b, NEW ra, NEW rb, NEW x, NEW y \in BOOLEAN,
           Inv(a, ra, x),
           b = [s \in Slot |-> b[s]],
           \A s \in Slot : Kept(y, a[s], b[s]),
           rb \in [Request -> ReqRec], \A q \in Request : HeldOK(rb[q]),
           CountsOK(b, rb)
    PROVE  Inv(b, rb, y)
<1>1. b \in [Slot -> SlotRec] /\ \A s \in Slot : LocalOK(y, b[s])
  <2>1. \A s \in Slot : b[s] \in SlotRec /\ LocalOK(y, b[s])
    BY DEF Kept
  <2> QED
    BY <2>1
<1>2. LinksOK(b) /\ BoundOK(b)
  BY LinksKept, BoundKept DEF Inv
<1> QED
  BY <1>1, <1>2 DEF Inv

\* A slot left alone keeps its place.
LEMMA KeptSame ==
    ASSUME NEW a \in SlotRec, NEW rt, LocalOK(rt, a)
    PROVE  Kept(rt, a, a)
BY DEF Kept

\* A step that touches one slot, s, and moves no request from slot to slot.
LEMMA OneSlot ==
    ASSUME NEW s \in Slot, NEW b, IInv,
           slot' = [slot EXCEPT ![s] = b], retired' = retired,
           Kept(retired, slot[s], b), b.active = slot[s].active,
           req' \in [Request -> ReqRec],
           \A q \in Request : HeldOK(req'[q]) /\ req'[q].slot = req[q].slot
    PROVE  IInv'
<1>1. slot \in [Slot -> SlotRec] /\ retired \in BOOLEAN /\ Inv(slot, req, retired)
  BY DEF IInv, Inv
<1> DEFINE sb == slot'
           rb == req'
<1>2. sb = [t \in Slot |-> sb[t]]
  BY <1>1
<1>3. ASSUME NEW t \in Slot
      PROVE  Kept(retired, slot[t], sb[t]) /\ sb[t].active = slot[t].active
  <2>1. CASE t = s
    BY <1>1, <2>1
  <2>2. CASE t # s
    <3>1. slot'[t] = slot[t]
      BY <1>1, <2>2
    <3> QED
      BY <1>1, <3>1, KeptSame DEF Inv
  <2> QED
    BY <2>1, <2>2
<1>4. /\ rb \in [Request -> ReqRec]
      /\ \A q \in Request : HeldOK(rb[q]) /\ rb[q].slot = req[q].slot
  OBVIOUS
<1> HIDE DEF sb, rb
<1>5. CountsOK(sb, rb)
  BY <1>1, <1>3, <1>4, CountsKept DEF Inv
<1>6. Inv(sb, rb, retired)
  BY <1>1, <1>2, <1>3, <1>4, <1>5, KeptStep
<1> QED
  BY <1>6 DEF IInv, sb, rb

\* A step of one request that stays where it is, and touches no slot.
LEMMA OneRequest ==
    ASSUME NEW q \in Request, NEW n \in ReqRec, IInv,
           slot' = slot, retired' = retired, req' = [req EXCEPT ![q] = n],
           HeldOK(n), n.slot = req[q].slot
    PROVE  IInv'
<1>1. /\ slot \in [Slot -> SlotRec] /\ retired \in BOOLEAN /\ Inv(slot, req, retired)
      /\ req \in [Request -> ReqRec]
  BY DEF IInv, Inv
<1>2. req' \in [Request -> ReqRec] /\ \A p \in Request : HeldOK(req'[p]) /\ req'[p].slot = req[p].slot
  <2>1. ASSUME NEW p \in Request PROVE req'[p] = IF p = q THEN n ELSE req[p]
    BY <1>1
  <2> QED
    BY <1>1, <2>1 DEF Inv
<1>3. CountsOK(slot, req')
  BY <1>1, <1>2, CountsKept DEF Inv
<1> QED
  BY <1>1, <1>2, <1>3 DEF IInv, Inv

\* The same without any request.
LEMMA SlotAlone ==
    ASSUME NEW s \in Slot, NEW b, IInv,
           slot' = [slot EXCEPT ![s] = b], UNCHANGED <<req, retired>>,
           Kept(retired, slot[s], b), b.active = slot[s].active
    PROVE  IInv'
<1>1. req \in [Request -> ReqRec] /\ \A q \in Request : HeldOK(req[q])
  BY DEF IInv, Inv
<1>2. retired' = retired /\ req' = req
  OBVIOUS
<1> QED
  BY <1>1, <1>2, OneSlot

\* What the invariant says of a slot.
LEMMA SlotFacts ==
    ASSUME IInv, NEW s \in Slot
    PROVE  /\ slot[s] \in SlotRec /\ LocalOK(retired, slot[s])
           /\ slot \in [Slot -> SlotRec] /\ retired \in BOOLEAN
BY DEF IInv, Inv

\* Collecting a slot that has kept its place.
LEMMA KeptCollect ==
    ASSUME NEW rt \in BOOLEAN, NEW a, NEW b, Kept(rt, a, b)
    PROVE  Kept(rt, a, Collect(b)) /\ Collect(b).active = b.active
<1>1. b \in SlotRec /\ LocalOK(rt, b)
  BY DEF Kept
<1>2. /\ Collect(b) \in SlotRec /\ Collect(b).active = b.active /\ LocalOK(rt, Collect(b))
      /\ Collect(b) = b \/ Collect(b).home = "closed"
  BY <1>1, CollectFacts, BlankFacts
<1> QED
  BY <1>2 DEF Kept

\* Removing a slot.
LEMMA KeptRemoved ==
    ASSUME NEW rt \in BOOLEAN, NEW x, NEW a \in SlotRec, ConnOK(a)
    PROVE  Kept(rt, x, Removed(a)) /\ Removed(a).active = a.active
BY RemovedFacts DEF Kept

-----------------------------------------------------------------------------
(* The connections of a slot. *)

LEMMA DialStep ==
    ASSUME IInv, NEW s \in Slot, Dial(s)
    PROVE  IInv'
<1> DEFINE a == slot[s]
           b == [a EXCEPT !.dial = "dialing"]
<1>1. a \in SlotRec /\ LocalOK(retired, a)
  BY SlotFacts
<1>2. b \in SlotRec
  BY <1>1 DEF SlotRec
<1>3. LocalOK(retired, b)
  BY <1>1 DEF Dial, LocalOK, ConnOK, DrainOK, UseOK, SlotRec
<1>4. Kept(retired, a, b) /\ b.active = a.active
  BY <1>1, <1>2, <1>3 DEF Kept, SlotRec
<1>5. slot' = [slot EXCEPT ![s] = b] /\ UNCHANGED <<req, retired>>
  BY DEF Dial
<1> HIDE DEF b
<1> QED
  BY <1>4, <1>5, SlotAlone

\* A dial that leaves nothing behind.
LEMMA KeptIdle ==
    ASSUME NEW rt \in BOOLEAN, NEW a \in SlotRec, LocalOK(rt, a)
    PROVE  /\ Kept(rt, a, [a EXCEPT !.dial = "idle"])
           /\ [a EXCEPT !.dial = "idle"].active = a.active
<1> DEFINE b == [a EXCEPT !.dial = "idle"]
<1>1. b \in SlotRec
  BY DEF SlotRec
<1>2. LocalOK(rt, b)
  BY DEF LocalOK, ConnOK, DrainOK, UseOK, SlotRec
<1> QED
  BY <1>1, <1>2 DEF Kept, SlotRec

LEMMA DialFailsStep ==
    ASSUME IInv, NEW s \in Slot, DialFails(s)
    PROVE  IInv'
<1> DEFINE a == slot[s]
           b == Collect([a EXCEPT !.dial = "idle"])
<1>1. Kept(retired, a, b) /\ b.active = a.active
  BY SlotFacts, KeptIdle, KeptCollect
<1>2. slot' = [slot EXCEPT ![s] = b] /\ UNCHANGED <<req, retired>>
  BY DEF DialFails
<1> HIDE DEF b
<1> QED
  BY <1>1, <1>2, SlotAlone

LEMMA OwnStep ==
    ASSUME IInv, NEW s \in Slot, OwnPhysicalConnection(s)
    PROVE  IInv'
<1> DEFINE a == slot[s]
           c == Collect([a EXCEPT !.dial = "idle"])
           d == [a EXCEPT !.dial = "registered"]
<1>1. a \in SlotRec /\ LocalOK(retired, a) /\ a.dial = "dialing" /\ retired \in BOOLEAN
  BY SlotFacts DEF OwnPhysicalConnection
<1>2. Kept(retired, a, c) /\ c.active = a.active
  BY <1>1, KeptIdle, KeptCollect
<1>3. ASSUME a.home # "closed" PROVE Kept(retired, a, d) /\ d.active = a.active
  <2>1. d \in SlotRec
    BY <1>1 DEF SlotRec
  <2>2. LocalOK(retired, d)
    BY <1>1, <1>3 DEF LocalOK, ConnOK, DrainOK, UseOK, SlotRec
  <2> QED
    BY <1>1, <2>1, <2>2 DEF Kept, SlotRec
<1> DEFINE b == IF a.home = "closed" THEN c ELSE d
<1>4. slot' = [slot EXCEPT ![s] = b] /\ UNCHANGED <<req, retired>>
  BY DEF OwnPhysicalConnection
<1> HIDE DEF c, d
<1>5. Kept(retired, a, b) /\ b.active = a.active
  BY <1>2, <1>3
<1> HIDE DEF b
<1> QED
  BY <1>4, <1>5, SlotAlone

LEMMA DeathStep ==
    ASSUME IInv, NEW s \in Slot, ConnectionDies(s) \/ OldConnectionDies(s)
    PROVE  IInv'
<1> DEFINE a == slot[s]
<1>1. a \in SlotRec /\ LocalOK(retired, a)
  BY SlotFacts
<1>2. CASE ConnectionDies(s)
  <2> DEFINE b == [a EXCEPT !.conn = "closed"]
  <2>1. b \in SlotRec
    BY <1>1 DEF SlotRec
  <2>2. LocalOK(retired, b)
    BY <1>1 DEF LocalOK, ConnOK, DrainOK, UseOK, SlotRec
  <2>3. Kept(retired, a, b) /\ b.active = a.active
    BY <1>1, <2>1, <2>2 DEF Kept, SlotRec
  <2>4. slot' = [slot EXCEPT ![s] = b] /\ UNCHANGED <<req, retired>>
    BY <1>2 DEF ConnectionDies
  <2> HIDE DEF b
  <2> QED
    BY <2>3, <2>4, SlotAlone
<1>3. CASE OldConnectionDies(s)
  <2> DEFINE k == a.old - 1
             b == [a EXCEPT !.old = k]
  <2>1. a.old \in 0..MaxOld /\ a.old > 0 /\ MaxOld \in Nat
    BY <1>1, <1>3, TransportsAssumption DEF OldConnectionDies, SlotRec
  <2>2. k \in 0..MaxOld /\ k < a.old
    BY <2>1
  <2>3. a.home # "closed"
    BY <1>1, <2>1 DEF LocalOK, ConnOK
  <2>4. slot' = [slot EXCEPT ![s] = b] /\ UNCHANGED <<req, retired>>
    BY <1>3 DEF OldConnectionDies
  <2>5. a.old < MaxOld => k < MaxOld
    BY <2>1, <2>2
  <2> HIDE DEF k
  <2>6. b \in SlotRec
    BY <1>1, <2>2 DEF SlotRec
  <2>7. LocalOK(retired, b)
    BY <1>1, <2>2, <2>3, <2>5 DEF LocalOK, ConnOK, DrainOK, UseOK, SlotRec
  <2>8. Kept(retired, a, b) /\ b.active = a.active
    BY <1>1, <2>6, <2>7 DEF Kept, SlotRec
  <2> HIDE DEF b
  <2> QED
    BY <2>4, <2>8, SlotAlone
<1> QED
  BY <1>2, <1>3

LEMMA CloseSlotStep ==
    ASSUME IInv, NEW s \in Slot, CloseSlot(s)
    PROVE  IInv'
<1> DEFINE a == slot[s]
           dial == IF a.dial = "registered" THEN "idle" ELSE a.dial
           d == [a EXCEPT !.home = "closed", !.conn = "none", !.old = 0, !.dial = dial]
           b == Collect(d)
<1>1. a \in SlotRec /\ LocalOK(retired, a) /\ retired \in BOOLEAN
  BY SlotFacts
<1>2. slot' = [slot EXCEPT ![s] = b] /\ UNCHANGED <<req, retired>>
  BY DEF CloseSlot
<1>3. dial \in {"idle", "dialing"} /\ 0 \in 0..MaxOld
  BY <1>1, TransportsAssumption DEF SlotRec
<1> HIDE DEF dial
<1>4. d \in SlotRec
  BY <1>1, <1>3 DEF SlotRec
<1>5. LocalOK(retired, d)
  BY <1>1, <1>3 DEF LocalOK, ConnOK, DrainOK, UseOK, SlotRec
<1>6. Kept(retired, a, d) /\ d.active = a.active
  BY <1>1, <1>4, <1>5 DEF Kept, SlotRec
<1> HIDE DEF d
<1>7. Kept(retired, a, b) /\ b.active = a.active
  BY <1>1, <1>6, KeptCollect
<1> HIDE DEF b
<1> QED
  BY <1>2, <1>7, SlotAlone

LEMMA ForcedCloseStep ==
    ASSUME IInv, NEW s \in Slot, ForcedClose(s)
    PROVE  IInv'
<1> DEFINE b == Removed(slot[s])
<1>1. Kept(retired, slot[s], b) /\ b.active = slot[s].active
  BY SlotFacts, KeptRemoved DEF LocalOK
<1>2. slot' = [slot EXCEPT ![s] = b] /\ UNCHANGED <<req, retired>>
  BY DEF ForcedClose
<1> HIDE DEF b
<1> QED
  BY <1>1, <1>2, SlotAlone

-----------------------------------------------------------------------------
(* Steps that touch several slots. *)

\* No request moves from slot to slot, and nothing enters the pool.
LEMMA ManySlots ==
    ASSUME IInv, retired' \in BOOLEAN,
           slot' = [t \in Slot |-> slot'[t]],
           \A t \in Slot : /\ slot'[t] \in SlotRec /\ LocalOK(retired', slot'[t])
                           /\ slot'[t].home = "pool" => slot[t].home = "pool"
                           /\ slot'[t].active = slot[t].active,
           LinksOK(slot'),
           req' \in [Request -> ReqRec],
           \A q \in Request : HeldOK(req'[q]) /\ req'[q].slot = req[q].slot
    PROVE  IInv'
<1>1. Inv(slot, req, retired)
  BY DEF IInv
<1>2. slot' \in [Slot -> SlotRec]
  OBVIOUS
<1>3. BoundOK(slot')
  <2>1. PoolOf(slot') \subseteq PoolOf(slot)
    BY DEF PoolOf
  <2> QED
    BY <1>1, <2>1, BoundKept DEF Inv
<1>4. CountsOK(slot', req')
  <2>1. ASSUME NEW s \in Slot PROVE HoldersOf(req', s) = HoldersOf(req, s)
    BY DEF HoldersOf
  <2> QED
    BY <1>1, <2>1 DEF Inv, CountsOK
<1> QED
  BY <1>2, <1>3, <1>4 DEF IInv, Inv

\* The same when every slot keeps its place.
LEMMA AllKept ==
    ASSUME IInv, retired' \in BOOLEAN,
           slot' = [t \in Slot |-> slot'[t]],
           \A t \in Slot : Kept(retired', slot[t], slot'[t]) /\ slot'[t].active = slot[t].active,
           req' \in [Request -> ReqRec],
           \A q \in Request : HeldOK(req'[q]) /\ req'[q].slot = req[q].slot
    PROVE  IInv'
<1>1. LinksOK(slot')
  <2>1. LinksOK(slot) /\ \A t \in Slot : Kept(retired', slot[t], slot'[t])
    BY DEF IInv, Inv
  <2> DEFINE b == slot'
             rt == retired'
  <2>2. \A t \in Slot : Kept(rt, slot[t], b[t])
    BY <2>1
  <2> HIDE DEF b, rt
  <2>3. LinksOK(b)
    BY <2>1, <2>2, LinksKept
  <2> QED
    BY <2>3 DEF b
<1>2. \A t \in Slot : /\ slot'[t] \in SlotRec /\ LocalOK(retired', slot'[t])
                      /\ slot'[t].home = "pool" => slot[t].home = "pool"
                      /\ slot'[t].active = slot[t].active
  BY DEF Kept
<1> QED
  BY <1>1, <1>2, ManySlots

\* Requests left alone.
LEMMA RequestsSame ==
    ASSUME IInv, req' = req
    PROVE  /\ req' \in [Request -> ReqRec]
           /\ \A q \in Request : HeldOK(req'[q]) /\ req'[q].slot = req[q].slot
BY DEF IInv, Inv

\* A request that goes on where it is.
LEMMA RequestStays ==
    ASSUME IInv, NEW q \in Request, NEW n \in ReqRec,
           req' = [req EXCEPT ![q] = n], HeldOK(n), n.slot = req[q].slot
    PROVE  /\ req' \in [Request -> ReqRec]
           /\ \A p \in Request : HeldOK(req'[p]) /\ req'[p].slot = req[p].slot
<1>1. req \in [Request -> ReqRec] /\ \A p \in Request : HeldOK(req[p])
  BY DEF IInv, Inv
<1>2. ASSUME NEW p \in Request PROVE req'[p] = IF p = q THEN n ELSE req[p]
  BY <1>1
<1> QED
  BY <1>1, <1>2

-----------------------------------------------------------------------------
(* Forced drains, and the end of the pool. *)

\* Arming drains a slot for a rule, or removes it when it has no users.
LEMMA ArmedFacts ==
    ASSUME NEW a \in SlotRec, LocalOK(retired, a), retired \in BOOLEAN, NEW rule \in Rule
    PROVE  Kept(retired, a, Armed(a, rule)) /\ Armed(a, rule).active = a.active
<1> DEFINE p == [a.proof EXCEPT !.rules = a.proof.rules \cup {rule}]
           d == [a EXCEPT !.lc = "draining", !.proof = p]
<1>1. p \in ProofRec /\ p.other = a.proof.other /\ p.rules = a.proof.rules \cup {rule}
  BY DEF SlotRec, ProofRec
<1>2. Armed(a, rule) = IF a.active = 0 THEN Removed(d) ELSE Prepare(d, {rule})
  BY DEF Armed, SlotRec, ProofRec
<1>3. p.other = a.proof.other /\ a.proof.rules \subseteq p.rules /\ rule \in p.rules
  BY <1>1
<1> HIDE DEF p
<1>4. d \in SlotRec
  BY <1>1 DEF SlotRec
<1>5. /\ d.lc = "draining" /\ d.proof = p /\ d.mon = a.mon /\ d.home = a.home
      /\ d.active = a.active /\ d.conn = a.conn /\ d.old = a.old /\ d.dial = a.dial
  BY DEF SlotRec
<1> HIDE DEF d
<1>6. ConnOK(d) /\ DrainOK(d)
  BY <1>3, <1>5 DEF LocalOK, ConnOK, DrainOK
<1>7. CASE a.active = 0
  BY <1>2, <1>4, <1>5, <1>6, <1>7, KeptRemoved
<1>8. CASE a.active # 0
  <2> DEFINE b == Prepare(d, {rule})
  <2>1. {rule} # All /\ {rule} \subseteq d.proof.rules
    BY <1>3, <1>5, TransportsAssumption DEF All
  <2>2. b \in SlotRec /\ DrainOK(b) /\ \E m \in MonRec : b = [d EXCEPT !.mon = m]
    BY <1>4, <1>6, <2>1, PrepareFacts
  <2> HIDE DEF b
  <2>3. /\ b.lc = "draining" /\ b.home = a.home /\ b.active = a.active /\ b.conn = a.conn
        /\ b.old = a.old /\ b.dial = a.dial
    BY <1>4, <1>5, <2>2 DEF SlotRec
  <2>4. ConnOK(b) /\ UseOK(retired, b)
    BY <1>8, <2>3 DEF LocalOK, ConnOK, UseOK
  <2>5. Kept(retired, a, b)
    BY <2>2, <2>3, <2>4 DEF Kept, LocalOK
  <2> QED
    BY <1>2, <1>8, <2>3, <2>5 DEF b
<1> QED
  BY <1>7, <1>8

LEMMA ArmForBlackholeStep ==
    ASSUME IInv, NEW s \in Slot, NEW rule \in MixedRule, ArmForBlackhole(s, rule)
    PROVE  IInv'
<1> DEFINE b == Armed(slot[s], rule)
<1>1. rule \in Rule
  BY TransportsAssumption
<1>2. Kept(retired, slot[s], b) /\ b.active = slot[s].active
  BY <1>1, SlotFacts, ArmedFacts
<1>3. slot' = [slot EXCEPT ![s] = b] /\ UNCHANGED <<req, retired>>
  BY DEF ArmForBlackhole
<1> HIDE DEF b
<1> QED
  BY <1>2, <1>3, SlotAlone

LEMMA ArmForBreakerStep ==
    ASSUME IInv, NEW rule \in MixedRule, ArmForBreaker(rule)
    PROVE  IInv'
<1>1. rule \in Rule
  BY TransportsAssumption
<1>2. PICK hit : slot' = [s \in Slot |-> IF s \in hit THEN Armed(slot[s], rule) ELSE slot[s]]
  BY DEF ArmForBreaker
<1>3. retired' = retired /\ req' = req
  BY DEF ArmForBreaker
<1>4. ASSUME NEW t \in Slot
      PROVE  Kept(retired', slot[t], slot'[t]) /\ slot'[t].active = slot[t].active
  <2>1. slot'[t] = Armed(slot[t], rule) \/ slot'[t] = slot[t]
    BY <1>2
  <2>2. slot[t] \in SlotRec /\ LocalOK(retired, slot[t]) /\ retired \in BOOLEAN
    BY SlotFacts
  <2> QED
    BY <1>1, <1>3, <2>1, <2>2, ArmedFacts, KeptSame
<1>5. slot' = [t \in Slot |-> slot'[t]]
  BY <1>2
<1>6. retired' \in BOOLEAN
  BY <1>3 DEF IInv, Inv
<1> QED
  BY <1>3, <1>4, <1>5, <1>6, RequestsSame, AllKept

LEMMA RetireStep ==
    ASSUME IInv, Retire
    PROVE  IInv'
<1>1. retired' = TRUE /\ req' = req
  BY DEF Retire
<1>2. ASSUME NEW t \in Slot
      PROVE  Kept(retired', slot[t], slot'[t]) /\ slot'[t].active = slot[t].active
  <2> DEFINE a == slot[t]
             r == Removed(a)
             b == [r EXCEPT !.home = "pool", !.lc = "draining"]
  <2>1. a \in SlotRec /\ LocalOK(retired, a)
    BY SlotFacts
  <2>2. slot'[t] = IF t \notin Pool THEN a ELSE IF a.active = 0 THEN r ELSE b
    BY DEF Retire
  <2>3. CASE t \notin Pool
    <3>1. a.home # "pool"
      BY <2>3 DEF Pool
    <3>2. LocalOK(TRUE, a)
      BY <2>1, <3>1 DEF LocalOK, UseOK
    <3> QED
      BY <1>1, <2>1, <2>2, <2>3, <3>2, KeptSame
  <2>4. r \in SlotRec /\ LocalOK(TRUE, r) /\ r.active = a.active /\ r.home # "pool"
    BY <2>1, RemovedFacts DEF LocalOK
  <2>5. CASE t \in Pool /\ a.active = 0
    <3> HIDE DEF r
    <3>1. slot'[t] = r
      BY <2>2, <2>5
    <3> QED
      BY <1>1, <2>4, <3>1 DEF Kept
  <2>6. CASE t \in Pool /\ a.active # 0
    <3>1. a.home = "pool"
      BY <2>6 DEF Pool
    <3> HIDE DEF r
    <3>2. b \in SlotRec
      BY <2>4 DEF SlotRec
    <3>3. /\ b.home = "pool" /\ b.lc = "draining" /\ b.active = r.active /\ b.conn = r.conn
          /\ b.old = r.old /\ b.dial = r.dial /\ b.mon = r.mon /\ b.proof = r.proof
      BY <2>4 DEF SlotRec
    <3> HIDE DEF b
    <3>4. LocalOK(TRUE, b)
      BY <2>4, <2>6, <3>3 DEF LocalOK, ConnOK, DrainOK, UseOK
    <3>5. slot'[t] = b
      BY <2>2, <2>6
    <3> QED
      BY <1>1, <2>4, <3>1, <3>2, <3>3, <3>4, <3>5 DEF Kept
  <2> QED
    BY <2>3, <2>5, <2>6
<1>3. slot' = [t \in Slot |-> slot'[t]]
  BY DEF Retire
<1>4. retired' \in BOOLEAN
  BY <1>1
<1> QED
  BY <1>1, <1>2, <1>3, <1>4, RequestsSame, AllKept

LEMMA CloseStep ==
    ASSUME IInv, Close
    PROVE  IInv'
<1>1. retired' = retired /\ req' = req
  BY DEF Close
<1>2. ASSUME NEW t \in Slot
      PROVE  Kept(retired', slot[t], slot'[t]) /\ slot'[t].active = slot[t].active
  <2>1. slot'[t] = Removed(slot[t]) \/ slot'[t] = slot[t]
    BY DEF Close
  <2>2. slot[t] \in SlotRec /\ LocalOK(retired, slot[t]) /\ retired \in BOOLEAN
    BY SlotFacts
  <2>3. Kept(retired, slot[t], slot[t])
    BY <2>2, KeptSame
  <2>4. Kept(retired, slot[t], Removed(slot[t])) /\ Removed(slot[t]).active = slot[t].active
    BY <2>2, KeptRemoved DEF LocalOK
  <2> QED
    BY <1>1, <2>1, <2>3, <2>4
<1>3. slot' = [t \in Slot |-> slot'[t]]
  BY DEF Close
<1>4. retired' \in BOOLEAN
  BY <1>1 DEF IInv, Inv
<1> QED
  BY <1>1, <1>2, <1>3, <1>4, RequestsSame, AllKept

-----------------------------------------------------------------------------
(* A request on its slot. *)

\* What the invariant says of a request that uses a slot.
LEMMA HolderFacts ==
    ASSUME IInv, NEW q \in Request, req[q].st \notin {"idle", "retry"}
    PROVE  /\ req[q] \in ReqRec /\ req[q].slot \in Slot
           /\ slot[req[q].slot].active \in Nat /\ slot[req[q].slot].active > 0
<1>1. req[q] \in ReqRec /\ HeldOK(req[q]) /\ CountsOK(slot, req)
  BY DEF IInv, Inv
<1>2. req[q].slot \in Slot
  BY <1>1 DEF HeldOK, ReqRec
<1> QED
  BY <1>1, <1>2, HolderCounted

LEMMA IdleFacts ==
    Idle \in ReqRec /\ HeldOK(Idle) /\ Idle.slot = None
BY DEF Idle, ReqRec, HeldOK

LEMMA SettledFacts ==
    ASSUME IInv, NEW q \in Request, req[q].st \notin {"idle", "retry"}
    PROVE  /\ Settled(q) \in ReqRec /\ HeldOK(Settled(q)) /\ Settled(q).slot = req[q].slot
           /\ Settled(q).slot # None
<1> DEFINE kind == IF req[q].kind = "managed" THEN "managed" ELSE "client"
           s == req[q].slot
<1>1. s \in Slot /\ s # None
  BY HolderFacts, TransportsAssumption
<1>2. kind \in {"client", "managed"}
  OBVIOUS
<1>3. Settled(q) = [Idle EXCEPT !.st = "release", !.slot = s, !.kind = kind]
  BY DEF Settled
<1> HIDE DEF kind, s
<1>4. Settled(q) \in ReqRec
  BY <1>1, <1>2, <1>3, IdleFacts DEF ReqRec
<1>5. Settled(q).st = "release" /\ Settled(q).slot = s
  BY <1>3, IdleFacts DEF ReqRec
<1> QED
  BY <1>1, <1>4, <1>5 DEF HeldOK, s

\* A request settles as st, with a source to retry on or none.
LEMMA SettledAs ==
    ASSUME IInv, NEW q \in Request, req[q].st \notin {"idle", "retry"},
           NEW st \in {"answered", "accepted", "tunnel", "release"}, NEW retry \in Slot \cup {None}
    PROVE  /\ [Settled(q) EXCEPT !.st = st] \in ReqRec
           /\ HeldOK([Settled(q) EXCEPT !.st = st])
           /\ [Settled(q) EXCEPT !.st = st].slot = req[q].slot
           /\ [Settled(q) EXCEPT !.retry = retry] \in ReqRec
           /\ HeldOK([Settled(q) EXCEPT !.retry = retry])
           /\ [Settled(q) EXCEPT !.retry = retry].slot = req[q].slot
<1> DEFINE n == Settled(q)
<1>1. n \in ReqRec /\ HeldOK(n) /\ n.slot = req[q].slot /\ n.slot # None
  BY SettledFacts
<1> HIDE DEF n
<1>2. [n EXCEPT !.st = st] \in ReqRec /\ [n EXCEPT !.retry = retry] \in ReqRec
  BY <1>1 DEF ReqRec
<1>3. /\ [n EXCEPT !.st = st].slot = n.slot /\ [n EXCEPT !.st = st].st = st
      /\ [n EXCEPT !.retry = retry].slot = n.slot /\ [n EXCEPT !.retry = retry].st = n.st
  BY <1>1 DEF ReqRec
<1>4. HeldOK([n EXCEPT !.st = st]) /\ HeldOK([n EXCEPT !.retry = retry])
  BY <1>1, <1>3 DEF HeldOK
<1> QED
  BY <1>1, <1>2, <1>3, <1>4 DEF n

LEMMA CallerLeavesStep ==
    ASSUME IInv, NEW q \in Request, CallerLeaves(q)
    PROVE  IInv'
<1>1. req[q].st = "trip"
  BY DEF CallerLeaves
<1> DEFINE n == Settled(q)
<1>2. n \in ReqRec /\ HeldOK(n) /\ n.slot = req[q].slot
  BY <1>1, SettledFacts
<1>3. slot' = slot /\ retired' = retired /\ req' = [req EXCEPT ![q] = n]
  BY DEF CallerLeaves
<1> HIDE DEF n
<1> QED
  BY <1>2, <1>3, OneRequest

\* http3TunnelConn.Close and the forced end of a stream.
LEMMA TunnelEndsStep ==
    ASSUME IInv, NEW q \in Request, CloseTunnel(q) \/ FastFail(q)
    PROVE  IInv'
<1> DEFINE n == [req[q] EXCEPT !.st = "release"]
<1>1. req[q].st = "tunnel" /\ slot' = slot /\ retired' = retired /\ req' = [req EXCEPT ![q] = n]
  BY DEF CloseTunnel, FastFail
<1>2. req[q] \in ReqRec /\ HeldOK(req[q])
  BY DEF IInv, Inv
<1>3. n \in ReqRec /\ HeldOK(n) /\ n.slot = req[q].slot
  BY <1>1, <1>2 DEF ReqRec, HeldOK
<1> HIDE DEF n
<1> QED
  BY <1>1, <1>3, OneRequest

\* registerHTTP3Tunnel.
LEMMA RegisterTunnelStep ==
    ASSUME IInv, NEW q \in Request, RegisterTunnel(q)
    PROVE  IInv'
<1> DEFINE n == [req[q] EXCEPT !.st = "tunnel"]
<1>1. req[q].st = "accepted" /\ slot' = slot /\ retired' = retired /\ req' = [req EXCEPT ![q] = n]
  BY DEF RegisterTunnel
<1>2. req[q] \in ReqRec /\ HeldOK(req[q])
  BY DEF IInv, Inv
<1>3. n \in ReqRec /\ HeldOK(n) /\ n.slot = req[q].slot
  BY <1>1, <1>2 DEF ReqRec, HeldOK
<1> HIDE DEF n
<1> QED
  BY <1>1, <1>3, OneRequest

\* Another slot's answer widens the permission of a monitor that is on.
LEMMA TakeoverStep ==
    ASSUME IInv, NEW q \in Request, NEW accepted \in BOOLEAN, TakeoverValidated(q, accepted)
    PROVE  IInv'
<1>1. req[q].st \in {"answered", "trip"} /\ retired' = retired
  BY DEF TakeoverValidated
<1> DEFINE st == IF accepted THEN "accepted" ELSE "release"
           n == [Settled(q) EXCEPT !.st = st]
<1>2. req' = [req EXCEPT ![q] = n]
  BY DEF TakeoverValidated
<1>3. st \in {"answered", "accepted", "tunnel", "release"}
  OBVIOUS
<1> HIDE DEF st
<1>4. n \in ReqRec /\ HeldOK(n) /\ n.slot = req[q].slot
  BY <1>1, <1>3, SettledAs
<1> HIDE DEF n
<1>5. /\ req' \in [Request -> ReqRec]
      /\ \A p \in Request : HeldOK(req'[p]) /\ req'[p].slot = req[p].slot
  BY <1>2, <1>4, RequestStays
<1>6. slot' = TakenOver(req[q].slot)
  BY DEF TakeoverValidated
<1>7. ASSUME NEW t \in Slot
      PROVE  Kept(retired', slot[t], slot'[t]) /\ slot'[t].active = slot[t].active
  <2> DEFINE a == slot[t]
             p == [a.proof EXCEPT !.other = TRUE]
             m == IF a.mon.on THEN Allow(a.mon, All) ELSE a.mon
             b == [a EXCEPT !.proof = p, !.mon = m]
  <2>1. a \in SlotRec /\ LocalOK(retired, a) /\ a.mon \in MonRec /\ a.proof \in ProofRec
    BY SlotFacts DEF SlotRec
  <2>2. p \in ProofRec /\ p.other = TRUE /\ p.rules = a.proof.rules
    BY <2>1 DEF ProofRec
  <2>3. slot'[t] = a \/ slot'[t] = b
    BY <1>6, <2>1 DEF TakenOver, SlotRec
  <2> HIDE DEF p
  <2>4. m \in MonRec /\ m.rules \subseteq p.rules
    <3>1. a.mon.rules \subseteq p.rules
      BY <2>1, <2>2 DEF LocalOK, DrainOK
    <3>2. Allow(a.mon, All) \in MonRec /\ Allow(a.mon, All).rules \subseteq p.rules
      BY <2>1, <2>2, <3>1, AllowFacts
    <3> QED
      BY <2>1, <3>1, <3>2
  <2> HIDE DEF m
  <2>5. b \in SlotRec
    BY <2>1, <2>2, <2>4 DEF SlotRec
  <2>6. /\ b.home = a.home /\ b.lc = a.lc /\ b.active = a.active /\ b.conn = a.conn
        /\ b.old = a.old /\ b.dial = a.dial /\ b.mon = m /\ b.proof = p
        /\ b.replaces = a.replaces /\ b.replacement = a.replacement
    BY <2>1 DEF SlotRec
  <2> HIDE DEF b
  <2>7. LocalOK(retired, b)
    BY <2>1, <2>2, <2>4, <2>6 DEF LocalOK, ConnOK, DrainOK, UseOK
  <2>8. Kept(retired, a, b) /\ Kept(retired, a, a)
    BY <2>1, <2>5, <2>6, <2>7 DEF Kept
  <2> QED
    BY <1>1, <2>3, <2>6, <2>8
<1>8. slot' = [t \in Slot |-> slot'[t]] /\ retired' \in BOOLEAN
  BY <1>1, <1>6 DEF TakenOver, IInv, Inv
<1> QED
  BY <1>5, <1>7, <1>8, AllKept

-----------------------------------------------------------------------------
(* Acquiring and releasing a stream. *)

\* The request that dialWithCandidateRetrySource goes on with.
LEMMA HoldFacts ==
    ASSUME NEW q \in Request, NEW s \in Slot, NEW r \in SlotRec,
           NEW kind \in {"client", "managed", "probation"}, Hold(q, s, r, kind)
    PROVE  \E n \in ReqRec : HeldOK(n) /\ n.slot = s /\ req' = [req EXCEPT ![q] = n]
<1> DEFINE cooling == kind = "managed" /\ r.lc = "serving" /\ r.health = "degraded"
           st == IF cooling THEN "release" ELSE "trip"
           cand == r.lc = "warming"
           n == [Idle EXCEPT !.st = st, !.slot = s, !.kind = kind, !.cand = cand]
<1>1. req' = [req EXCEPT ![q] = n]
  BY DEF Hold
<1>2. st \in {"release", "trip"} /\ cand \in BOOLEAN /\ s # None
  BY TransportsAssumption
<1> HIDE DEF st, cand
<1>3. n \in ReqRec
  BY <1>2, IdleFacts DEF ReqRec
<1>4. n.st = st /\ n.slot = s
  BY IdleFacts DEF ReqRec
<1> HIDE DEF n
<1> QED
  BY <1>1, <1>2, <1>3, <1>4 DEF HeldOK

\* A request comes to use a slot of the pool.
LEMMA EnterStep ==
    ASSUME IInv, NEW q \in Request, NEW s \in Slot,
           NEW kind \in {"client", "managed", "probation"},
           req[q].st \in {"idle", "retry"},
           s \in Serving \/ s \in IdleWarming,
           slot' = [slot EXCEPT ![s].active = @ + 1],
           Hold(q, s, slot'[s], kind), retired' = retired
    PROVE  IInv'
<1> DEFINE a == slot[s]
           k == a.active + 1
           b == [a EXCEPT !.active = k]
<1>1. /\ a \in SlotRec /\ LocalOK(retired, a)
      /\ slot \in [Slot -> SlotRec] /\ retired \in BOOLEAN
  BY SlotFacts
<1>2. a.home = "pool" /\ a.lc \in {"serving", "warming"} /\ (a.lc = "warming" => a.active = 0)
  BY DEF Serving, IdleWarming, Warming, Pool
<1>3. k \in Nat /\ k = a.active + 1 /\ k # 0 /\ (a.active = 0 => k <= 1)
  BY <1>1 DEF SlotRec
<1>4. slot' = [slot EXCEPT ![s] = b]
  BY <1>1
<1> HIDE DEF k
<1>5. b \in SlotRec
  BY <1>1, <1>3 DEF SlotRec
<1>6. /\ b.home = a.home /\ b.lc = a.lc /\ b.active = k /\ b.conn = a.conn
      /\ b.old = a.old /\ b.dial = a.dial /\ b.mon = a.mon /\ b.proof = a.proof
      /\ b.replaces = a.replaces /\ b.replacement = a.replacement
  BY <1>1 DEF SlotRec
<1> HIDE DEF b
<1>7. LocalOK(retired, b)
  BY <1>1, <1>2, <1>3, <1>6 DEF LocalOK, ConnOK, DrainOK, UseOK
<1>8. Kept(retired, a, b)
  BY <1>5, <1>6, <1>7 DEF Kept
<1>9. slot'[s] = b /\ \A t \in Slot \ {s} : slot'[t] = slot[t]
  BY <1>1, <1>4
<1>10. PICK n \in ReqRec : HeldOK(n) /\ n.slot = s /\ req' = [req EXCEPT ![q] = n]
  BY <1>5, <1>9, HoldFacts
<1>11. /\ req \in [Request -> ReqRec] /\ \A p \in Request : HeldOK(req[p])
       /\ CountsOK(slot, req) /\ Inv(slot, req, retired)
  BY DEF IInv, Inv
<1>12. req'[q] = n /\ \A p \in Request \ {q} : req'[p] = req[p]
  BY <1>10, <1>11
<1>13. req' \in [Request -> ReqRec] /\ \A p \in Request : HeldOK(req'[p])
  BY <1>10, <1>11, <1>12
<1>14. req[q].slot = None
  BY <1>11 DEF HeldOK
<1> DEFINE sb == slot'
           rb == req'
<1>15. sb[s].active = slot[s].active + 1 /\ \A t \in Slot \ {s} : sb[t].active = slot[t].active
  BY <1>3, <1>6, <1>9
<1>16. rb[q].slot = s /\ \A p \in Request \ {q} : rb[p].slot = req[p].slot
  BY <1>10, <1>12
<1>17. \A t \in Slot : Kept(retired, slot[t], sb[t])
  <2>1. ASSUME NEW t \in Slot PROVE Kept(retired, slot[t], slot[t])
    BY SlotFacts, KeptSame
  <2> QED
    BY <1>8, <1>9, <2>1
<1>18. sb = [t \in Slot |-> sb[t]]
  BY <1>1, <1>4
<1>19. rb \in [Request -> ReqRec] /\ \A p \in Request : HeldOK(rb[p])
  BY <1>13
<1> HIDE DEF sb, rb
<1>20. CountsOK(sb, rb)
  BY <1>11, <1>14, <1>15, <1>16, CountsEnter
<1>21. Inv(sb, rb, retired)
  BY <1>1, <1>11, <1>17, <1>18, <1>19, <1>20, KeptStep
<1> QED
  BY <1>21 DEF IInv, sb, rb

LEMMA AcquireStep ==
    ASSUME IInv, NEW q \in Request, NEW s \in Slot,
           \/ \E kind \in KindOf[q] : AcquireTransport(q, kind, s)
           \/ AcquireProbationTransport(q, s)
    PROVE  IInv'
<1>1. KindOf[q] \subseteq {"client", "managed", "probation"}
  BY TransportsAssumption
<1>2. CASE AcquireProbationTransport(q, s)
  BY <1>2, EnterStep DEF AcquireProbationTransport
<1>3. ASSUME NEW kind \in KindOf[q], AcquireTransport(q, kind, s)
      PROVE  IInv'
  <2>1. s \in Serving \/ s \in IdleWarming
    BY <1>3 DEF AcquireTransport, Best, FreeServing
  <2> QED
    BY <1>1, <1>3, <2>1, EnterStep DEF AcquireTransport
<1> QED
  BY <1>2, <1>3

LEMMA RetryOnSourceStep ==
    ASSUME IInv, NEW q \in Request, RetryOnSource(q)
    PROVE  IInv'
<1>1. req[q].st = "retry" /\ retired' = retired /\ req[q] \in ReqRec /\ HeldOK(req[q])
  BY DEF RetryOnSource, IInv, Inv
<1> DEFINE s == req[q].retry
<1>2. CASE /\ s \in FreeServing({})
           /\ slot' = [slot EXCEPT ![s].active = @ + 1]
           /\ Hold(q, s, slot'[s], req[q].kind)
  <2>1. s \in Serving /\ s \in Slot
    BY <1>2 DEF FreeServing, Serving, Pool
  <2>2. req[q].kind \in {"client", "managed", "probation"}
    BY <1>1 DEF ReqRec
  <2> QED
    BY <1>1, <1>2, <2>1, <2>2, EnterStep
<1>3. CASE req' = [req EXCEPT ![q] = Idle] /\ UNCHANGED slot
  <2>1. req[q].slot = None
    BY <1>1 DEF HeldOK
  <2> QED
    BY <1>1, <1>3, <2>1, IdleFacts, OneRequest
<1> QED
  BY <1>2, <1>3 DEF RetryOnSource

\* releaseTransport of the last user removes what nobody would come to close.
LEMMA ReleasedFacts ==
    ASSUME IInv, NEW s \in Slot, slot[s].active > 0
    PROVE  /\ Kept(retired, slot[s], Released(s))
           /\ Released(s).active = slot[s].active - 1
<1> DEFINE a == slot[s]
           k == a.active - 1
           r == [a EXCEPT !.active = k]
           remove == \/ retired \/ r.lc \in {"draining", "failed"}
                     \/ Live(s) > 1
                     \/ r.lc = "serving" /\ Serving \ {s} # {}
<1>1. a \in SlotRec /\ LocalOK(retired, a) /\ retired \in BOOLEAN
  BY SlotFacts
<1>2. k \in Nat /\ k = a.active - 1 /\ (a.active <= 1 => k <= 1)
  BY <1>1 DEF SlotRec
<1>3. Released(s) = IF r.active = 0 /\ remove /\ r.home = "pool" THEN Removed(r) ELSE Collect(r)
  BY DEF Released
<1>4. ~remove => ~retired /\ r.lc \notin {"draining", "failed"}
  OBVIOUS
<1> HIDE DEF k, remove
<1>5. r \in SlotRec
  BY <1>1, <1>2 DEF SlotRec
<1>6. /\ r.home = a.home /\ r.lc = a.lc /\ r.active = k /\ r.conn = a.conn
      /\ r.old = a.old /\ r.dial = a.dial /\ r.mon = a.mon /\ r.proof = a.proof
      /\ r.replaces = a.replaces /\ r.replacement = a.replacement
  BY <1>1 DEF SlotRec
<1> HIDE DEF r
<1>7. ConnOK(r) /\ DrainOK(r)
  BY <1>1, <1>6 DEF LocalOK, ConnOK, DrainOK
<1>8. CASE r.active = 0 /\ remove /\ r.home = "pool"
  BY <1>1, <1>2, <1>3, <1>5, <1>6, <1>7, <1>8, KeptRemoved
<1>9. CASE ~(r.active = 0 /\ remove /\ r.home = "pool")
  <2>1. UseOK(retired, r)
    BY <1>1, <1>2, <1>4, <1>5, <1>6, <1>9 DEF LocalOK, UseOK, SlotRec
  <2>2. Kept(retired, a, r)
    BY <1>5, <1>6, <1>7, <2>1 DEF Kept, LocalOK
  <2> QED
    BY <1>1, <1>2, <1>3, <1>6, <1>9, <2>2, KeptCollect
<1> QED
  BY <1>8, <1>9

LEMMA ReleaseStep ==
    ASSUME IInv, NEW q \in Request, ReleaseTransport(q)
    PROVE  IInv'
<1> DEFINE s == req[q].slot
           b == Released(s)
           o == req[q]
           n == IF o.retry = None THEN Idle ELSE [o EXCEPT !.st = "retry", !.slot = None]
<1>1. req[q].st = "release" /\ retired' = retired
  BY DEF ReleaseTransport
<1>2. o \in ReqRec /\ s \in Slot /\ slot[s].active \in Nat /\ slot[s].active > 0
  BY <1>1, HolderFacts
<1>3. /\ req \in [Request -> ReqRec] /\ \A p \in Request : HeldOK(req[p])
      /\ CountsOK(slot, req) /\ Inv(slot, req, retired)
      /\ slot \in [Slot -> SlotRec] /\ retired \in BOOLEAN
  BY DEF IInv, Inv
<1>4. slot' = [slot EXCEPT ![s] = b] /\ req' = [req EXCEPT ![q] = n]
  BY DEF ReleaseTransport
<1>5. n \in ReqRec /\ HeldOK(n) /\ n.slot = None
  <2> DEFINE m == [o EXCEPT !.st = "retry", !.slot = None]
  <2>1. m \in ReqRec /\ m.st = "retry" /\ m.slot = None
    BY <1>2 DEF ReqRec
  <2> HIDE DEF m
  <2>2. HeldOK(m)
    BY <2>1 DEF HeldOK
  <2>3. n = Idle \/ n = m
    BY DEF m
  <2> QED
    BY <2>1, <2>2, <2>3, IdleFacts
<1>6. Kept(retired, slot[s], b) /\ b.active = slot[s].active - 1
  BY <1>2, ReleasedFacts
<1> HIDE DEF b, n
<1>7. slot'[s] = b /\ \A t \in Slot \ {s} : slot'[t] = slot[t]
  BY <1>2, <1>3, <1>4
<1>8. req'[q] = n /\ \A p \in Request \ {q} : req'[p] = req[p]
  BY <1>3, <1>4
<1> DEFINE sb == slot'
           rb == req'
<1>9. rb \in [Request -> ReqRec] /\ \A p \in Request : HeldOK(rb[p])
  BY <1>3, <1>4, <1>5, <1>8
<1>10. \A t \in Slot : Kept(retired, slot[t], sb[t])
  <2>1. ASSUME NEW t \in Slot PROVE Kept(retired, slot[t], slot[t])
    BY SlotFacts, KeptSame
  <2> QED
    BY <1>6, <1>7, <2>1
<1>11. sb = [t \in Slot |-> sb[t]]
  BY <1>3, <1>4
<1>12. sb[s].active = slot[s].active - 1 /\ \A t \in Slot \ {s} : sb[t].active = slot[t].active
  BY <1>6, <1>7
<1>13. rb[q].slot = None /\ \A p \in Request \ {q} : rb[p].slot = req[p].slot
  BY <1>5, <1>8
<1> HIDE DEF sb, rb
<1>14. CountsOK(sb, rb)
  <2>1. PICK z \in Slot : z = s
    BY <1>2
  <2>2. req[q].slot = z /\ CountsOK(slot, req)
    BY <1>3, <2>1
  <2>3. sb[z].active = slot[z].active - 1 /\ \A t \in Slot \ {z} : sb[t].active = slot[t].active
    BY <1>12, <2>1
  <2> QED
    BY <1>13, <2>2, <2>3, CountsLeave
<1>15. Inv(sb, rb, retired)
  BY <1>3, <1>9, <1>10, <1>11, <1>14, KeptStep
<1> QED
  BY <1>1, <1>15 DEF IInv, sb, rb

-----------------------------------------------------------------------------
(* The candidate. *)

\* There is one candidate at most: once it is none, there are no links to keep.
LEMMA CandidateGone ==
    ASSUME IInv, NEW c \in Warming,
           \A t \in Slot : slot'[t].home = "pool" /\ slot'[t].lc = "warming"
                             => t # c /\ slot[t].home = "pool" /\ slot[t].lc = "warming"
    PROVE  LinksOK(slot')
<1>1. LinksOK(slot) /\ c \in In(slot, "warming")
  BY DEF IInv, Inv, Warming, Pool, In
<1>2. In(slot', "warming") = {}
  <2>1. ASSUME NEW t \in In(slot', "warming") PROVE FALSE
    <3>1. t # c /\ t \in In(slot, "warming")
      BY DEF In
    <3> QED
      BY <1>1, <3>1 DEF LinksOK
  <2> QED
    BY <2>1
<1> QED
  BY <1>2 DEF LinksOK

\* A slot whose own links change is as good as it was.
LEMMA RelinkedFacts ==
    ASSUME NEW rt \in BOOLEAN, NEW a \in SlotRec, LocalOK(rt, a), NEW c \in Slot \cup {None}
    PROVE  /\ [a EXCEPT !.replacement = c] \in SlotRec
           /\ LocalOK(rt, [a EXCEPT !.replacement = c])
           /\ [a EXCEPT !.replacement = c].home = a.home
           /\ [a EXCEPT !.replacement = c].lc = a.lc
           /\ [a EXCEPT !.replacement = c].active = a.active
           /\ [a EXCEPT !.replacement = c].replaces = a.replaces
           /\ [a EXCEPT !.replacement = c].replacement = c
<1> DEFINE b == [a EXCEPT !.replacement = c]
<1>1. b \in SlotRec
  BY DEF SlotRec
<1>2. /\ b.home = a.home /\ b.lc = a.lc /\ b.active = a.active /\ b.conn = a.conn
      /\ b.old = a.old /\ b.dial = a.dial /\ b.mon = a.mon /\ b.proof = a.proof
      /\ b.replaces = a.replaces /\ b.replacement = c
  BY DEF SlotRec
<1> HIDE DEF b
<1>3. LocalOK(rt, b)
  BY <1>2 DEF LocalOK, ConnOK, DrainOK, UseOK
<1> QED
  BY <1>1, <1>2, <1>3 DEF b

\* A serving slot is drained, a candidate has failed.
LEMMA TripFailsStep ==
    ASSUME IInv, NEW q \in Request, TripFails(q)
    PROVE  IInv'
<1>1. req[q].st = "trip" /\ retired' = retired
  BY DEF TripFails
<1>2. PICK s \in Slot : s = req[q].slot /\ slot[s].active \in Nat /\ slot[s].active > 0
  BY <1>1, HolderFacts
<1> DEFINE a == slot[s]
           failed == req[q].cand /\ s \in Warming
           after == IF failed THEN CandidateFailed(s) ELSE slot
           retry == IF failed /\ req[q].kind = "client" THEN RetrySource(s) ELSE None
           n == [Settled(q) EXCEPT !.retry = retry]
<1>3. /\ a \in SlotRec /\ LocalOK(retired, a) /\ slot \in [Slot -> SlotRec]
      /\ retired \in BOOLEAN
  BY <1>2, SlotFacts
<1>4. /\ slot' = [after EXCEPT ![s].lc = IF @ = "serving" /\ s \in Pool THEN "draining" ELSE @]
      /\ req' = [req EXCEPT ![q] = n]
  BY <1>2 DEF TripFails
<1>5. retry \in Slot \cup {None}
  BY DEF RetrySource, Serving, Pool
<1>6. n \in ReqRec /\ HeldOK(n) /\ n.slot = req[q].slot
  <2> HIDE DEF retry
  <2> QED
    BY <1>1, <1>5, SettledAs
<1> HIDE DEF n
<1>7. /\ req' \in [Request -> ReqRec]
      /\ \A p \in Request : HeldOK(req'[p]) /\ req'[p].slot = req[p].slot
  BY <1>4, <1>6, RequestStays
<1>8. CASE ~failed
  <2> DEFINE lc == IF a.lc = "serving" /\ s \in Pool THEN "draining" ELSE a.lc
             b == [a EXCEPT !.lc = lc]
  <2>1. slot' = [slot EXCEPT ![s] = b]
    BY <1>2, <1>3, <1>4, <1>8
  <2>2. lc \in {"none", "warming", "draining", "failed", "serving"}
        /\ (lc = a.lc \/ lc = "draining")
    BY <1>3 DEF SlotRec
  <2> HIDE DEF lc
  <2>3. b \in SlotRec
    BY <1>3, <2>2 DEF SlotRec
  <2>4. /\ b.home = a.home /\ b.lc = lc /\ b.active = a.active /\ b.conn = a.conn
        /\ b.old = a.old /\ b.dial = a.dial /\ b.mon = a.mon /\ b.proof = a.proof
        /\ b.replaces = a.replaces /\ b.replacement = a.replacement
    BY <1>3 DEF SlotRec
  <2> HIDE DEF b
  <2>5. LocalOK(retired, b)
    BY <1>2, <1>3, <2>2, <2>4 DEF LocalOK, ConnOK, DrainOK, UseOK
  <2>6. Kept(retired, a, b)
    BY <2>2, <2>3, <2>4, <2>5 DEF Kept
  <2>7. s \in Slot /\ slot[s] = a
    BY <1>2
  <2> QED
    BY <1>1, <1>7, <2>1, <2>4, <2>6, <2>7, OneSlot
<1>9. CASE failed
  <2> DEFINE source == a.replaces
             linked == source # None /\ slot[source].replacement = s
             b == [a EXCEPT !.lc = "failed", !.replaces = None]
  <2>1. after = [t \in Slot |-> IF t = s THEN b
                                ELSE IF linked /\ t = source
                                THEN [slot[t] EXCEPT !.replacement = None] ELSE slot[t]]
    BY <1>9 DEF CandidateFailed
  <2>2. b \in SlotRec
    BY <1>3 DEF SlotRec
  <2>3. /\ b.home = a.home /\ b.lc = "failed" /\ b.active = a.active /\ b.conn = a.conn
        /\ b.old = a.old /\ b.dial = a.dial /\ b.mon = a.mon /\ b.proof = a.proof
    BY <1>3 DEF SlotRec
  <2> HIDE DEF b, linked, source
  <2>4. LocalOK(retired, b)
    BY <1>2, <1>3, <2>3 DEF LocalOK, ConnOK, DrainOK, UseOK
  <2> HIDE DEF after
  <2>5. [b EXCEPT !.lc = "failed"] = b
    BY <2>2, <2>3 DEF SlotRec
  <2>6. after[s] = b
    BY <1>2, <2>1
  <2>7. slot' = after
    <3>1. slot' = [after EXCEPT ![s] = [b EXCEPT !.lc = "failed"]]
      BY <1>4, <2>3, <2>6
    <3> QED
      BY <1>2, <2>1, <2>5, <2>6, <3>1
  <2>8. ASSUME NEW t \in Slot
        PROVE  /\ slot'[t] \in SlotRec /\ LocalOK(retired, slot'[t])
               /\ slot'[t].home = slot[t].home
               /\ slot'[t].active = slot[t].active
               /\ slot'[t].lc = IF t = s THEN "failed" ELSE slot[t].lc
    <3>1. CASE t = s
      BY <2>1, <2>2, <2>3, <2>4, <2>7, <3>1
    <3>2. CASE t # s
      <4>1. slot'[t] = [slot[t] EXCEPT !.replacement = None] \/ slot'[t] = slot[t]
        BY <2>1, <2>7, <3>2
      <4>2. slot[t] \in SlotRec /\ LocalOK(retired, slot[t])
        BY SlotFacts
      <4> QED
        <5> DEFINE d == [slot[t] EXCEPT !.replacement = None]
        <5>1. /\ d \in SlotRec /\ LocalOK(retired, d) /\ d.home = slot[t].home
              /\ d.active = slot[t].active /\ d.lc = slot[t].lc
          BY <1>3, <4>2, RelinkedFacts
        <5> HIDE DEF d
        <5>2. slot'[t] = d \/ slot'[t] = slot[t]
          BY <4>1 DEF d
        <5> QED
          BY <3>2, <4>2, <5>1, <5>2
    <3> QED
      BY <3>1, <3>2
  <2>9. LinksOK(slot')
    <3>1. s \in Warming
      BY <1>9
    <3>2. \A t \in Slot : slot'[t].home = "pool" /\ slot'[t].lc = "warming"
                            => t # s /\ slot[t].home = "pool" /\ slot[t].lc = "warming"
      BY <2>8
    <3> QED
      BY <3>1, <3>2, CandidateGone
  <2>10. slot' = [t \in Slot |-> slot'[t]]
    BY <2>1, <2>7
  <2> QED
    BY <1>1, <1>3, <1>7, <2>8, <2>9, <2>10, ManySlots
<1> QED
  BY <1>8, <1>9

\* The source of a promoted candidate drains, or goes when it has no users.
DrainedSource(a, c) ==
    LET old == [a EXCEPT !.lc = "draining", !.replacement = IF @ = c THEN None ELSE @,
                         !.proof.other = TRUE]
    IN  IF old.active = 0 THEN Collect(Removed(old)) ELSE Prepare(old, All)

LEMMA DrainedFacts ==
    ASSUME retired \in BOOLEAN, NEW a \in SlotRec, LocalOK(retired, a), NEW c
    PROVE  LET b == DrainedSource(a, c)
           IN  /\ b \in SlotRec /\ LocalOK(retired, b) /\ b.active = a.active
               /\ b.home = "pool" => a.home = "pool" /\ b.lc = "draining"
<1> DEFINE p == [a.proof EXCEPT !.other = TRUE]
           l == IF a.replacement = c THEN None ELSE a.replacement
           d == [a EXCEPT !.lc = "draining", !.replacement = l, !.proof = p]
           b == DrainedSource(a, c)
<1>1. p \in ProofRec /\ p.other = TRUE /\ p.rules = a.proof.rules /\ l \in Slot \cup {None}
  BY DEF SlotRec, ProofRec
<1>2. b = IF d.active = 0 THEN Collect(Removed(d)) ELSE Prepare(d, All)
  BY DEF DrainedSource
<1> HIDE DEF p, l
<1>3. d \in SlotRec
  BY <1>1 DEF SlotRec
<1>4. /\ d.home = a.home /\ d.lc = "draining" /\ d.active = a.active /\ d.conn = a.conn
      /\ d.old = a.old /\ d.dial = a.dial /\ d.mon = a.mon /\ d.proof = p
  BY DEF SlotRec
<1> HIDE DEF d
<1>5. ConnOK(d) /\ DrainOK(d)
  BY <1>1, <1>4 DEF LocalOK, ConnOK, DrainOK
<1>6. CASE d.active = 0
  <2> DEFINE r == Removed(d)
  <2>1. r \in SlotRec /\ LocalOK(retired, r) /\ r.home # "pool" /\ r.active = d.active
    BY <1>3, <1>5, RemovedFacts
  <2> HIDE DEF r
  <2>2. /\ Collect(r) \in SlotRec /\ Collect(r).active = r.active /\ LocalOK(retired, Collect(r))
        /\ Collect(r) = r \/ Collect(r) = Blank
    BY <2>1, CollectFacts
  <2>3. Collect(r).home # "pool"
    BY <2>1, <2>2, BlankFacts
  <2>4. b = Collect(r)
    BY <1>2, <1>6 DEF r
  <2> HIDE DEF b
  <2> QED
    BY <1>4, <2>1, <2>2, <2>3, <2>4 DEF b
<1>7. CASE d.active # 0
  <2> DEFINE e == Prepare(d, All)
  <2>1. e \in SlotRec /\ DrainOK(e) /\ \E m \in MonRec : e = [d EXCEPT !.mon = m]
    BY <1>1, <1>3, <1>4, <1>5, PrepareFacts
  <2> HIDE DEF e
  <2>2. /\ e.lc = "draining" /\ e.home = a.home /\ e.active = a.active /\ e.conn = a.conn
        /\ e.old = a.old /\ e.dial = a.dial
    BY <1>3, <1>4, <2>1 DEF SlotRec
  <2>3. LocalOK(retired, e)
    BY <1>4, <1>7, <2>1, <2>2 DEF LocalOK, ConnOK, UseOK
  <2>4. b = e
    BY <1>2, <1>7 DEF e
  <2> HIDE DEF b
  <2> QED
    BY <2>1, <2>2, <2>3, <2>4 DEF b
<1> QED
  BY <1>6, <1>7

\* The candidate that has answered serves, or drains when the pool is retired.
LEMMA PromotedFacts ==
    ASSUME retired \in BOOLEAN, NEW a \in SlotRec, LocalOK(retired, a), a.active > 0
    PROVE  LET b == [a EXCEPT !.replaces = None, !.health = "healthy",
                              !.lc = IF retired THEN "draining" ELSE "serving"]
           IN  /\ b \in SlotRec /\ LocalOK(retired, b) /\ b.active = a.active
               /\ b.home = a.home /\ b.lc # "warming"
<1> DEFINE lc == IF retired THEN "draining" ELSE "serving"
           b == [a EXCEPT !.replaces = None, !.health = "healthy", !.lc = lc]
<1>1. lc \in {"draining", "serving"}
  OBVIOUS
<1> HIDE DEF lc
<1>2. b \in SlotRec
  BY <1>1 DEF SlotRec
<1>3. /\ b.home = a.home /\ b.lc = lc /\ b.active = a.active /\ b.conn = a.conn
      /\ b.old = a.old /\ b.dial = a.dial /\ b.mon = a.mon /\ b.proof = a.proof
  BY DEF SlotRec
<1>4. a.active \in Nat
  BY DEF SlotRec
<1> HIDE DEF b
<1>5. LocalOK(retired, b)
  BY <1>1, <1>3, <1>4 DEF LocalOK, ConnOK, DrainOK, UseOK
<1> QED
  BY <1>1, <1>2, <1>3, <1>5 DEF b, lc

LEMMA CandidateAnswersStep ==
    ASSUME IInv, NEW q \in Request, CandidateAnswers(q)
    PROVE  IInv'
<1>1. req[q].st = "trip" /\ retired' = retired
  BY DEF CandidateAnswers
<1>2. PICK c \in Slot : c = req[q].slot /\ slot[c].active \in Nat /\ slot[c].active > 0
  BY <1>1, HolderFacts
<1> DEFINE n == [Settled(q) EXCEPT !.st = "answered"]
<1>3. n \in ReqRec /\ HeldOK(n) /\ n.slot = req[q].slot
  BY <1>1, SettledAs
<1>4. req' = [req EXCEPT ![q] = n] /\ slot' = IF c \in Warming THEN Promoted(c) ELSE slot
  BY <1>2 DEF CandidateAnswers
<1> HIDE DEF n
<1>5. CASE c \notin Warming
  BY <1>1, <1>3, <1>4, <1>5, OneRequest
<1>6. CASE c \in Warming
  <2> DEFINE a == slot[c]
             source == a.replaces
             b == [a EXCEPT !.replaces = None, !.health = "healthy",
                            !.lc = IF retired THEN "draining" ELSE "serving"]
  <2>1. /\ req' \in [Request -> ReqRec]
        /\ \A p \in Request : HeldOK(req'[p]) /\ req'[p].slot = req[p].slot
    BY <1>3, <1>4, RequestStays
  <2>2. slot' = [t \in Slot |-> IF t = c THEN b
                                ELSE IF t = source THEN DrainedSource(slot[source], c)
                                ELSE slot[t]]
    BY <1>4, <1>6 DEF Promoted, DrainedSource
  <2>3. a \in SlotRec /\ LocalOK(retired, a) /\ retired \in BOOLEAN /\ a.home = "pool"
    BY <1>6, SlotFacts DEF Warming, Pool
  <2>4. /\ b \in SlotRec /\ LocalOK(retired, b) /\ b.active = a.active
        /\ b.home = a.home /\ b.lc # "warming"
    BY <1>2, <2>3, PromotedFacts
  <2> HIDE DEF b
  <2>5. ASSUME NEW t \in Slot
        PROVE  /\ slot'[t] \in SlotRec /\ LocalOK(retired, slot'[t])
               /\ slot'[t].home = "pool" => slot[t].home = "pool"
               /\ slot'[t].active = slot[t].active
               /\ slot'[t].home = "pool" /\ slot'[t].lc = "warming" => t # c /\ slot'[t] = slot[t]
    <3>1. CASE t = c
      <4>1. slot'[t] = b
        BY <2>2, <3>1
      <4> QED
        BY <2>4, <3>1, <4>1
    <3>2. slot[t] \in SlotRec /\ LocalOK(retired, slot[t])
      BY SlotFacts
    <3>3. CASE t # c /\ t = source
      <4> DEFINE d == DrainedSource(slot[t], c)
      <4>1. /\ d \in SlotRec /\ LocalOK(retired, d) /\ d.active = slot[t].active
            /\ d.home = "pool" => slot[t].home = "pool" /\ d.lc = "draining"
        BY <2>3, <3>2, DrainedFacts
      <4>2. slot'[t] = d
        BY <2>2, <3>3
      <4> HIDE DEF d
      <4> QED
        BY <3>3, <4>1, <4>2
    <3>4. CASE t # c /\ t # source
      BY <2>2, <3>2, <3>4
    <3> QED
      BY <3>1, <3>3, <3>4
  <2>6. LinksOK(slot')
    <3>1. \A t \in Slot : slot'[t].home = "pool" /\ slot'[t].lc = "warming"
                            => t # c /\ slot[t].home = "pool" /\ slot[t].lc = "warming"
      BY <2>5
    <3> QED
      BY <1>6, <3>1, CandidateGone
  <2>7. slot' = [t \in Slot |-> slot'[t]]
    BY <2>2
  <2> QED
    BY <1>1, <2>1, <2>3, <2>5, <2>6, <2>7, ManySlots
<1> QED
  BY <1>5, <1>6

\* A serving slot that has a connection again drops an idle candidate.
LEMMA ObserveStep ==
    ASSUME IInv, NEW s \in Slot, ObservePhysicalDial(s)
    PROVE  IInv'
<1> DEFINE a == slot[s]
<1>1. /\ a \in SlotRec /\ LocalOK(retired, a) /\ retired \in BOOLEAN
      /\ slot \in [Slot -> SlotRec] /\ a.dial = "registered"
  BY SlotFacts DEF ObservePhysicalDial
<1>2. retired' = retired /\ req' = req
  BY DEF ObservePhysicalDial
<1>3. CASE s \notin Pool
  <2> DEFINE b == Collect([a EXCEPT !.dial = "idle"])
  <2>1. Kept(retired, a, b) /\ b.active = a.active
    BY <1>1, KeptIdle, KeptCollect
  <2>2. slot' = [slot EXCEPT ![s] = b]
    BY <1>3 DEF ObservePhysicalDial
  <2> HIDE DEF b
  <2> QED
    BY <1>2, <2>1, <2>2, SlotAlone
<1>4. CASE s \in Pool
  <2> DEFINE serving == a.lc = "serving"
             c == a.replacement
             drop == /\ serving /\ a.health = "degraded"
                     /\ c # None /\ slot[c].lc = "warming" /\ slot[c].active = 0
             old == IF a.conn = "live" THEN a.old + 1 ELSE a.old
             health == IF serving THEN "healthy" ELSE a.health
             link == IF drop THEN None ELSE c
             b == [a EXCEPT !.dial = "idle", !.conn = "live", !.old = old,
                            !.mon = NoMonitor, !.proof = NoProof,
                            !.health = health, !.replacement = link]
  <2>1. slot' = [t \in Slot |-> IF t = s THEN b
                                ELSE IF drop /\ t = c THEN Removed(slot[c]) ELSE slot[t]]
    BY <1>4 DEF ObservePhysicalDial, Observed
  <2>2. old \in 0..MaxOld
    BY <1>1, TransportsAssumption DEF LocalOK, ConnOK, SlotRec
  <2>3. health \in {"healthy", "degraded"} /\ link \in Slot \cup {None} /\ c \in Slot \cup {None}
    BY <1>1 DEF SlotRec
  <2>4. NoMonitor \in MonRec /\ NoProof \in ProofRec
    BY DEF NoMonitor, NoProof, MonRec, ProofRec
  <2>5. drop => a.lc = "serving" /\ slot[c].lc = "warming" /\ c \in Slot /\ c # s
    BY <2>3
  <2>6. a.home = "pool"
    BY <1>4 DEF Pool
  <2>7. link = IF drop THEN None ELSE c
    OBVIOUS
  <2> HIDE DEF drop, old, health, link, serving
  <2>8. b \in SlotRec
    BY <1>1, <2>2, <2>3, <2>4 DEF SlotRec
  <2>9. /\ b.home = a.home /\ b.lc = a.lc /\ b.active = a.active /\ b.dial = "idle"
        /\ b.mon = NoMonitor /\ b.proof = NoProof
        /\ b.replaces = a.replaces /\ b.replacement = link
    BY <1>1 DEF SlotRec
  <2> HIDE DEF b
  <2>10. LocalOK(retired, b)
    <3>1. ConnOK(b)
      BY <2>6, <2>9 DEF ConnOK
    <3>2. DrainOK(b)
      BY <2>9 DEF DrainOK, NoMonitor, NoProof
    <3>3. UseOK(retired, b)
      BY <1>1, <2>9 DEF LocalOK, UseOK
    <3> QED
      BY <3>1, <3>2, <3>3 DEF LocalOK
  <2>11. ASSUME NEW t \in Slot
         PROVE  /\ slot'[t] \in SlotRec /\ LocalOK(retired, slot'[t])
                /\ slot'[t].home = "pool" => slot[t].home = "pool"
                /\ slot'[t].active = slot[t].active
                /\ slot'[t].home = "pool" =>
                     /\ slot'[t].lc = slot[t].lc /\ slot'[t].replaces = slot[t].replaces
                     /\ slot'[t].replacement = IF t = s THEN link ELSE slot[t].replacement
                     /\ drop => t # c
    <3>1. CASE t = s
      <4>1. slot'[t] = b
        BY <2>1, <3>1
      <4> QED
        BY <2>5, <2>6, <2>8, <2>9, <2>10, <3>1, <4>1
    <3>2. slot[t] \in SlotRec /\ LocalOK(retired, slot[t])
      BY SlotFacts
    <3>3. CASE t # s /\ drop /\ t = c
      <4> DEFINE r == Removed(slot[t])
      <4>1. r \in SlotRec /\ LocalOK(retired, r) /\ r.home # "pool" /\ r.active = slot[t].active
        BY <1>1, <3>2, RemovedFacts DEF LocalOK
      <4>2. slot'[t] = r
        BY <2>1, <3>3
      <4> HIDE DEF r
      <4> QED
        BY <4>1, <4>2
    <3>4. CASE t # s /\ ~(drop /\ t = c)
      <4>1. slot'[t] = slot[t]
        BY <2>1, <3>4
      <4> QED
        BY <3>2, <3>4, <4>1
    <3> QED
      BY <3>1, <3>3, <3>4
  <2>12. LinksOK(slot')
    <3>1. LinksOK(slot)
      BY DEF IInv, Inv
    <3>2. /\ In(slot', "warming") \subseteq In(slot, "warming")
          /\ In(slot', "serving") \subseteq In(slot, "serving")
      BY <2>11 DEF In
    <3>3. ASSUME NEW w \in In(slot', "warming"), NEW t \in In(slot', "serving")
          PROVE  slot'[w].replaces = t <=> slot'[t].replacement = w
      <4>1. /\ slot'[w].replaces = slot[w].replaces /\ (drop => w # c)
            /\ slot'[t].replacement = IF t = s THEN link ELSE slot[t].replacement
        BY <2>11 DEF In
      <4>2. slot[w].replaces = t <=> slot[t].replacement = w
        BY <3>1, <3>2 DEF LinksOK
      <4>3. w # None
        BY TransportsAssumption DEF In
      <4> QED
        BY <2>7, <4>1, <4>2, <4>3
    <3> QED
      BY <3>1, <3>2, <3>3 DEF LinksOK
  <2>13. slot' = [t \in Slot |-> slot'[t]]
    BY <2>1
  <2>14. /\ req' \in [Request -> ReqRec]
         /\ \A q \in Request : HeldOK(req'[q]) /\ req'[q].slot = req[q].slot
    BY <1>2, RequestsSame
  <2>15. retired' \in BOOLEAN
    BY <1>1, <1>2
  <2> QED
    BY <1>2, <2>11, <2>12, <2>13, <2>14, <2>15, ManySlots
<1> QED
  BY <1>3, <1>4

-----------------------------------------------------------------------------
(* New slots. *)

LEMMA NewSlotFacts ==
    ASSUME NEW lc \in {"serving", "warming"}
    PROVE  /\ NewSlot(lc) \in SlotRec /\ NewSlot(lc).home = "pool" /\ NewSlot(lc).lc = lc
           /\ NewSlot(lc).replaces = None /\ NewSlot(lc).replacement = None
           /\ NewSlot(lc).active = 0 /\ ConnOK(NewSlot(lc)) /\ DrainOK(NewSlot(lc))
<1> DEFINE b == NewSlot(lc)
<1>1. b = [Blank EXCEPT !.lc = lc, !.home = "pool"]
  BY DEF NewSlot
<1>2. b \in SlotRec
  BY <1>1, BlankFacts DEF SlotRec
<1>3. /\ b.home = "pool" /\ b.lc = lc /\ b.replaces = None /\ b.replacement = None
      /\ b.active = 0 /\ b.dial = "idle" /\ b.mon = NoMonitor /\ b.proof = NoProof
  BY <1>1 DEF Blank
<1> HIDE DEF b
<1>4. ConnOK(b) /\ DrainOK(b)
  BY <1>3 DEF ConnOK, DrainOK, NoMonitor, NoProof
<1> QED
  BY <1>2, <1>3, <1>4 DEF b

\* Nothing refers to a fresh slot.
LEMMA FreshFacts ==
    ASSUME NEW c \in Slot, Fresh(c)
    PROVE  /\ slot[c].home = "closed" /\ slot[c].active = 0 /\ c # None
           /\ \A t \in Slot : slot[t].replaces # c /\ slot[t].replacement # c
BY BlankFacts, TransportsAssumption DEF Fresh

\* A new candidate is linked with its source on both sides.
LEMMA CandidateLinks ==
    ASSUME Warming = {}, NEW c \in Slot, Fresh(c), NEW source \in Slot \cup {None},
           slot'[c].lc = "warming", slot'[c].replaces = source,
           \A t \in Slot \ {c} :
              /\ slot'[t].home = slot[t].home /\ slot'[t].lc = slot[t].lc
              /\ slot'[t].replacement = IF t = source THEN c ELSE slot[t].replacement
    PROVE  LinksOK(slot')
<1>1. ASSUME NEW w \in In(slot', "warming") PROVE w = c
  BY DEF In, Warming, Pool
<1>2. ASSUME NEW t \in In(slot', "serving")
      PROVE  slot'[c].replaces = t <=> slot'[t].replacement = c
  <2>1. t \in Slot \ {c}
    BY DEF In
  <2> QED
    BY <2>1, FreshFacts
<1> QED
  BY <1>1, <1>2 DEF LinksOK

\* A new serving slot is linked with nothing.
LEMMA ServerLinks ==
    ASSUME IInv, NEW c \in Slot, Fresh(c),
           slot'[c].lc = "serving", slot'[c].replacement = None,
           \A t \in Slot \ {c} : slot'[t] = slot[t]
    PROVE  LinksOK(slot')
<1>1. LinksOK(slot)
  BY DEF IInv, Inv
<1>2. ASSUME NEW w \in In(slot', "warming")
      PROVE  w \in In(slot, "warming") /\ slot'[w] = slot[w] /\ w \in Slot
  BY DEF In
<1>3. ASSUME NEW w \in In(slot', "warming"), NEW t \in In(slot', "serving")
      PROVE  slot'[w].replaces = t <=> slot'[t].replacement = w
  <2>1. CASE t = c
    BY <1>2, <2>1, FreshFacts, TransportsAssumption
  <2>2. CASE t # c
    <3>1. t \in In(slot, "serving") /\ slot'[t] = slot[t]
      BY <2>2 DEF In
    <3> QED
      BY <1>1, <1>2, <3>1 DEF LinksOK
  <2> QED
    BY <2>1, <2>2
<1> QED
  BY <1>1, <1>2, <1>3 DEF LinksOK

\* One slot enters the pool.
LEMMA PoolGrows ==
    ASSUME IInv, NEW c \in Slot, Cardinality(Pool) < MaxTransports,
           slot' = [t \in Slot |-> slot'[t]], retired' = retired,
           \A t \in Slot : slot'[t] \in SlotRec /\ LocalOK(retired, slot'[t]),
           \A t \in Slot \ {c} : slot'[t].home = slot[t].home,
           LinksOK(slot'), CountsOK(slot', req'),
           req' \in [Request -> ReqRec], \A q \in Request : HeldOK(req'[q])
    PROVE  IInv'
<1>1. slot' \in [Slot -> SlotRec] /\ retired' \in BOOLEAN
  BY DEF IInv, Inv
<1>2. BoundOK(slot')
  <2> DEFINE sb == slot'
  <2>1. PoolOf(sb) \subseteq PoolOf(slot) \cup {c}
    BY DEF PoolOf
  <2>2. PoolOf(slot) = Pool
    BY DEF PoolOf, Pool
  <2> HIDE DEF sb
  <2>3. BoundOK(sb)
    BY <2>1, <2>2, BoundGrows
  <2> QED
    BY <2>3 DEF sb
<1> QED
  BY <1>1, <1>2 DEF IInv, Inv

\* The first user of a new slot.
LEMMA FirstUser ==
    ASSUME IInv, NEW q \in Request, NEW c \in Slot, Fresh(c), NEW b \in SlotRec,
           NEW kind \in {"client", "managed", "probation"}, req[q].st = "idle",
           slot'[c] = b, b.active = 1,
           \A t \in Slot \ {c} : slot'[t].active = slot[t].active,
           Hold(q, c, slot'[c], kind)
    PROVE  /\ CountsOK(slot', req')
           /\ req' \in [Request -> ReqRec] /\ \A p \in Request : HeldOK(req'[p])
<1>1. PICK n \in ReqRec : HeldOK(n) /\ n.slot = c /\ req' = [req EXCEPT ![q] = n]
  BY HoldFacts
<1>2. /\ req \in [Request -> ReqRec] /\ \A p \in Request : HeldOK(req[p])
      /\ CountsOK(slot, req)
  BY DEF IInv, Inv
<1>3. req'[q] = n /\ \A p \in Request \ {q} : req'[p] = req[p]
  BY <1>1, <1>2
<1>4. req' \in [Request -> ReqRec] /\ \A p \in Request : HeldOK(req'[p])
  BY <1>1, <1>2, <1>3
<1>5. req[q].slot = None /\ slot[c].active = 0
  BY <1>2, FreshFacts DEF HeldOK
<1> DEFINE sb == slot'
           rb == req'
<1>6. sb[c].active = slot[c].active + 1 /\ \A t \in Slot \ {c} : sb[t].active = slot[t].active
  BY <1>5
<1>7. rb[q].slot = c /\ \A p \in Request \ {q} : rb[p].slot = req[p].slot
  BY <1>1, <1>3
<1> HIDE DEF sb, rb
<1>8. CountsOK(sb, rb)
  BY <1>2, <1>5, <1>6, <1>7, CountsEnter
<1> QED
  BY <1>4, <1>8 DEF sb, rb

LEMMA AcquireNewStep ==
    ASSUME IInv, NEW q \in Request, NEW kind \in KindOf[q], NEW c \in Slot,
           AcquireNewTransport(q, kind, c)
    PROVE  IInv'
<1> DEFINE m == NewSlot("serving")
           b == [m EXCEPT !.active = 1]
<1>1. /\ slot' = [slot EXCEPT ![c] = b] /\ retired' = retired /\ req[q].st = "idle"
      /\ Fresh(c) /\ Cardinality(Pool) < MaxTransports /\ Hold(q, c, slot'[c], kind)
  BY DEF AcquireNewTransport
<1>2. slot \in [Slot -> SlotRec] /\ retired \in BOOLEAN
  BY SlotFacts
<1>3. /\ m \in SlotRec /\ m.home = "pool" /\ m.lc = "serving" /\ m.replacement = None
      /\ ConnOK(m) /\ DrainOK(m)
  BY NewSlotFacts
<1> HIDE DEF m
<1>4. b \in SlotRec
  BY <1>3 DEF SlotRec
<1>5. /\ b.home = "pool" /\ b.lc = "serving" /\ b.active = 1 /\ b.conn = m.conn
      /\ b.old = m.old /\ b.dial = m.dial /\ b.mon = m.mon /\ b.proof = m.proof
      /\ b.replacement = None
  BY <1>3 DEF SlotRec
<1> HIDE DEF b
<1>6. LocalOK(retired, b)
  BY <1>3, <1>5 DEF LocalOK, ConnOK, DrainOK, UseOK
<1>7. slot'[c] = b /\ \A t \in Slot \ {c} : slot'[t] = slot[t]
  BY <1>1, <1>2
<1>8. \A t \in Slot : slot'[t] \in SlotRec /\ LocalOK(retired, slot'[t])
  BY <1>4, <1>6, <1>7, SlotFacts
<1>9. LinksOK(slot')
  BY <1>1, <1>5, <1>7, ServerLinks
<1>10. kind \in {"client", "managed", "probation"}
  BY TransportsAssumption
<1>11. /\ CountsOK(slot', req')
       /\ req' \in [Request -> ReqRec] /\ \A p \in Request : HeldOK(req'[p])
  BY <1>1, <1>4, <1>5, <1>7, <1>10, FirstUser
<1>12. slot' = [t \in Slot |-> slot'[t]]
  BY <1>1, <1>2
<1>13. \A t \in Slot \ {c} : slot'[t].home = slot[t].home
  BY <1>7
<1> QED
  BY <1>1, <1>8, <1>9, <1>11, <1>12, <1>13, PoolGrows

LEMMA AcquireNewProbationStep ==
    ASSUME IInv, NEW q \in Request, NEW c \in Slot, NEW source \in Slot \cup {None},
           AcquireNewProbationTransport(q, c, source)
    PROVE  IInv'
<1> DEFINE m == NewSlot("warming")
           b == [m EXCEPT !.active = 1, !.replaces = source]
<1>1. /\ retired' = retired /\ req[q].st = "idle" /\ Warming = {}
      /\ Fresh(c) /\ Cardinality(Pool) < MaxTransports /\ Hold(q, c, slot'[c], "probation")
  BY DEF AcquireNewProbationTransport
<1>2. slot' = [t \in Slot |-> IF t = c THEN b
                              ELSE IF t = source THEN [slot[t] EXCEPT !.replacement = c]
                              ELSE slot[t]]
  BY DEF AcquireNewProbationTransport
<1>3. /\ m \in SlotRec /\ m.home = "pool" /\ m.lc = "warming"
      /\ ConnOK(m) /\ DrainOK(m)
  BY NewSlotFacts
<1> HIDE DEF m
<1>4. b \in SlotRec
  BY <1>3 DEF SlotRec
<1>5. /\ b.home = "pool" /\ b.lc = "warming" /\ b.active = 1 /\ b.conn = m.conn
      /\ b.old = m.old /\ b.dial = m.dial /\ b.mon = m.mon /\ b.proof = m.proof
      /\ b.replaces = source
  BY <1>3 DEF SlotRec
<1> HIDE DEF b
<1>6. LocalOK(retired, b)
  BY <1>3, <1>5 DEF LocalOK, ConnOK, DrainOK, UseOK
<1>7. slot'[c] = b
  BY <1>2
<1>8. ASSUME NEW t \in Slot \ {c}
      PROVE  /\ slot'[t] \in SlotRec /\ LocalOK(retired, slot'[t])
             /\ slot'[t].home = slot[t].home /\ slot'[t].lc = slot[t].lc
             /\ slot'[t].active = slot[t].active
             /\ slot'[t].replacement = IF t = source THEN c ELSE slot[t].replacement
  <2>1. slot[t] \in SlotRec /\ LocalOK(retired, slot[t]) /\ retired \in BOOLEAN
    BY SlotFacts
  <2>2. CASE t = source
    <3> DEFINE d == [slot[t] EXCEPT !.replacement = c]
    <3>1. /\ d \in SlotRec /\ LocalOK(retired, d) /\ d.home = slot[t].home
          /\ d.lc = slot[t].lc /\ d.active = slot[t].active /\ d.replacement = c
      BY <2>1, RelinkedFacts
    <3>2. slot'[t] = d
      BY <1>2, <2>2
    <3> HIDE DEF d
    <3> QED
      BY <2>2, <3>1, <3>2
  <2>3. CASE t # source
    <3>1. slot'[t] = slot[t]
      BY <1>2, <2>3
    <3> QED
      BY <2>1, <2>3, <3>1
  <2> QED
    BY <2>2, <2>3
<1>9. \A t \in Slot : slot'[t] \in SlotRec /\ LocalOK(retired, slot'[t])
  BY <1>4, <1>6, <1>7, <1>8
<1>10. LinksOK(slot')
  BY <1>1, <1>5, <1>7, <1>8, CandidateLinks
<1>11. /\ CountsOK(slot', req')
       /\ req' \in [Request -> ReqRec] /\ \A p \in Request : HeldOK(req'[p])
  BY <1>1, <1>4, <1>5, <1>7, <1>8, FirstUser
<1>12. slot' = [t \in Slot |-> slot'[t]]
  BY <1>2
<1> QED
  BY <1>1, <1>8, <1>9, <1>10, <1>11, <1>12, PoolGrows

\* A new reason, or a slot found degraded.
Worse(a, health, reason) == [a EXCEPT !.health = health, !.reason = reason]

LEMMA WorseFacts ==
    ASSUME NEW rt \in BOOLEAN, NEW a \in SlotRec, LocalOK(rt, a),
           NEW health \in {"healthy", "degraded"},
           NEW reason \in {"ordinary", "severe", "hole", "error"}
    PROVE  /\ Worse(a, health, reason) \in SlotRec
           /\ LocalOK(rt, Worse(a, health, reason))
           /\ Kept(rt, a, Worse(a, health, reason))
           /\ Worse(a, health, reason).active = a.active
           /\ Worse(a, health, reason).home = a.home
           /\ Worse(a, health, reason).lc = a.lc
           /\ Worse(a, health, reason).replaces = a.replaces
           /\ Worse(a, health, reason).replacement = a.replacement
<1> DEFINE b == [a EXCEPT !.health = health, !.reason = reason]
<1>1. b \in SlotRec
  BY DEF SlotRec
<1>2. /\ b.home = a.home /\ b.lc = a.lc /\ b.active = a.active /\ b.conn = a.conn
      /\ b.old = a.old /\ b.dial = a.dial /\ b.mon = a.mon /\ b.proof = a.proof
      /\ b.replaces = a.replaces /\ b.replacement = a.replacement
  BY DEF SlotRec
<1> HIDE DEF b
<1>3. LocalOK(rt, b)
  BY <1>2 DEF LocalOK, ConnOK, DrainOK, UseOK
<1>4. Kept(rt, a, b)
  BY <1>1, <1>2, <1>3 DEF Kept
<1> QED
  BY <1>1, <1>2, <1>3, <1>4 DEF b, Worse

LEMMA DegradeStep ==
    ASSUME IInv, NEW s \in Slot, NEW why \in Reason \cup {"error"},
           NEW c \in Slot \cup {None}, Degrade(s, why, c)
    PROVE  IInv'
<1> DEFINE a == slot[s]
<1>1. /\ a \in SlotRec /\ LocalOK(retired, a) /\ slot \in [Slot -> SlotRec]
      /\ retired \in BOOLEAN
  BY SlotFacts
<1>2. why \in {"ordinary", "severe", "hole", "error"}
  BY TransportsAssumption
<1>3. PICK r \in {a, [a EXCEPT !.health = "degraded", !.reason = why]} :
         slot' = WithCandidate([slot EXCEPT ![s] = r], s, c)
  BY DEF Degrade
<1>4. /\ r \in SlotRec /\ LocalOK(retired, r) /\ Kept(retired, a, r) /\ r.active = a.active
      /\ r.home = a.home /\ r.lc = a.lc /\ r.replaces = a.replaces
      /\ r.replacement = a.replacement
  <2> DEFINE d == [a EXCEPT !.health = "degraded", !.reason = why]
  <2>1. /\ d \in SlotRec /\ LocalOK(retired, d) /\ Kept(retired, a, d) /\ d.active = a.active
        /\ d.home = a.home /\ d.lc = a.lc /\ d.replaces = a.replaces
        /\ d.replacement = a.replacement
    <3> DEFINE h == "degraded"
    <3>1. h \in {"healthy", "degraded"} /\ d = Worse(a, h, why)
      BY DEF Worse
    <3> HIDE DEF h, d
    <3> QED
      BY <1>1, <1>2, <3>1, WorseFacts
  <2>2. r = a \/ r = d
    OBVIOUS
  <2> HIDE DEF d
  <2> QED
    BY <1>1, <2>1, <2>2, KeptSame
<1> DEFINE slots == [slot EXCEPT ![s] = r]
<1>5. slots \in [Slot -> SlotRec] /\ \A t \in Slot : slots[t] = IF t = s THEN r ELSE slot[t]
  BY <1>1, <1>4
<1>6. slot' = [t \in Slot |->
                 IF t = c THEN [NewSlot("warming") EXCEPT
                                   !.replaces = s, !.reason = slots[s].reason]
                 ELSE IF t = s /\ c # None THEN [slots[s] EXCEPT !.replacement = c]
                 ELSE IF t \in Warming /\ slots[t].replaces = s
                 THEN [slots[t] EXCEPT !.reason = slots[s].reason]
                 ELSE slots[t]]
  BY <1>3 DEF WithCandidate
<1>7. retired' = retired /\ req' = req /\ ~retired /\ s \in Serving
  BY DEF Degrade
<1> HIDE DEF slots
<1>8. /\ req' \in [Request -> ReqRec]
      /\ \A q \in Request : HeldOK(req'[q]) /\ req'[q].slot = req[q].slot
  BY <1>7, RequestsSame
<1>9. slot' = [t \in Slot |-> slot'[t]]
  BY <1>6
<1>10. CASE c = None
  <2>1. ASSUME NEW t \in Slot
        PROVE  Kept(retired', slot[t], slot'[t]) /\ slot'[t].active = slot[t].active
    <3> DEFINE x == slots[t]
               y == [x EXCEPT !.reason = slots[s].reason]
    <3>1. slot'[t] = x \/ slot'[t] = y
      BY <1>6, <1>10, TransportsAssumption
    <3>2. /\ x \in SlotRec /\ LocalOK(retired, x) /\ Kept(retired, slot[t], x)
          /\ x.active = slot[t].active
      <4>1. slot[t] \in SlotRec /\ LocalOK(retired, slot[t])
        BY SlotFacts
      <4> QED
        BY <1>4, <1>5, <4>1, KeptSame
    <3>3. slots[s].reason \in {"ordinary", "severe", "hole", "error"}
      BY <1>5 DEF SlotRec
    <3> HIDE DEF x
    <3>4. y = [x EXCEPT !.health = x.health, !.reason = slots[s].reason]
      BY <3>2 DEF SlotRec
    <3>5. x.health \in {"healthy", "degraded"}
      BY <3>2 DEF SlotRec
    <3>6. Kept(retired, x, y) /\ y.active = x.active
      <4> DEFINE h == x.health
                 w == slots[s].reason
      <4>1. y = Worse(x, h, w)
        BY <3>4 DEF Worse
      <4>2. h \in {"healthy", "degraded"} /\ w \in {"ordinary", "severe", "hole", "error"}
        BY <3>3, <3>5
      <4> HIDE DEF h, w, y
      <4> QED
        BY <1>1, <3>2, <4>1, <4>2, WorseFacts
    <3> HIDE DEF y
    <3>7. Kept(retired, slot[t], y)
      BY <3>2, <3>6 DEF Kept
    <3> QED
      BY <1>7, <3>1, <3>2, <3>6, <3>7
  <2>2. retired' \in BOOLEAN
    BY <1>1, <1>7
  <2> QED
    BY <1>8, <1>9, <2>1, <2>2, AllKept
<1>11. CASE c # None
  <2>1. c \in Slot /\ Fresh(c) /\ Warming = {} /\ Cardinality(Pool) < MaxTransports
    BY <1>11 DEF Degrade, MayCreate
  <2>2. c # s /\ slot[c].active = 0
    BY <1>7, <2>1, FreshFacts DEF Serving, Pool
  <2> DEFINE m == NewSlot("warming")
             why2 == slots[s].reason
             b == [m EXCEPT !.replaces = s, !.reason = why2]
  <2>3. /\ m \in SlotRec /\ m.home = "pool" /\ m.lc = "warming" /\ m.active = 0
        /\ ConnOK(m) /\ DrainOK(m)
    BY NewSlotFacts
  <2>4. slot'[c] = b
    BY <1>6, <2>1
  <2>5. why2 \in {"ordinary", "severe", "hole", "error"}
    BY <1>5 DEF SlotRec
  <2> HIDE DEF m, why2
  <2>6. b \in SlotRec
    BY <2>3, <2>5 DEF SlotRec
  <2>7. /\ b.home = "pool" /\ b.lc = "warming" /\ b.active = 0 /\ b.conn = m.conn
        /\ b.old = m.old /\ b.dial = m.dial /\ b.mon = m.mon /\ b.proof = m.proof
        /\ b.replaces = s
    BY <2>3 DEF SlotRec
  <2> HIDE DEF b
  <2>8. LocalOK(retired, b)
    BY <1>7, <2>3, <2>7 DEF LocalOK, ConnOK, DrainOK, UseOK
  <2>9. ASSUME NEW t \in Slot \ {c}
        PROVE  /\ slot'[t] \in SlotRec /\ LocalOK(retired, slot'[t])
               /\ slot'[t].home = slot[t].home /\ slot'[t].lc = slot[t].lc
               /\ slot'[t].active = slot[t].active
               /\ slot'[t].replacement = IF t = s THEN c ELSE slot[t].replacement
    <3>1. CASE t = s
      <4> DEFINE d == [r EXCEPT !.replacement = c]
      <4>1. slot'[t] = d
        BY <1>5, <1>6, <1>11, <3>1
      <4>2. /\ d \in SlotRec /\ LocalOK(retired, d) /\ d.home = r.home
            /\ d.lc = r.lc /\ d.active = r.active /\ d.replacement = c
        BY <1>1, <1>4, RelinkedFacts
      <4> HIDE DEF d
      <4> QED
        BY <1>4, <3>1, <4>1, <4>2
    <3>2. CASE t # s
      <4>1. slot'[t] = slot[t]
        BY <1>5, <1>6, <2>1, <3>2
      <4>2. slot[t] \in SlotRec /\ LocalOK(retired, slot[t])
        BY SlotFacts
      <4> QED
        BY <3>2, <4>1, <4>2
    <3> QED
      BY <3>1, <3>2
  <2>10. \A t \in Slot : slot'[t] \in SlotRec /\ LocalOK(retired, slot'[t])
    BY <2>4, <2>6, <2>8, <2>9
  <2>11. LinksOK(slot')
    BY <2>1, <2>4, <2>7, <2>9, CandidateLinks
  <2>12. CountsOK(slot', req')
    <3>1. \A t \in Slot : slot'[t].active = slot[t].active
      BY <2>2, <2>4, <2>7, <2>9
    <3>2. CountsOK(slot, req)
      BY DEF IInv, Inv
    <3> QED
      BY <1>7, <3>1, <3>2 DEF CountsOK, HoldersOf
  <2> QED
    BY <1>7, <1>8, <1>9, <2>1, <2>9, <2>10, <2>11, <2>12, PoolGrows
<1> QED
  BY <1>10, <1>11

-----------------------------------------------------------------------------
(* The theorems. *)

LEMMA InitIInv ==
    ASSUME Init
    PROVE  IInv
<1>1. slot \in [Slot -> SlotRec] /\ \A s \in Slot : LocalOK(retired, slot[s])
  BY BlankFacts DEF Init
<1>2. req \in [Request -> ReqRec] /\ \A q \in Request : HeldOK(req[q])
  BY IdleFacts DEF Init
<1>3. PoolOf(slot) = {} /\ In(slot, "warming") = {}
  BY BlankFacts DEF Init, PoolOf, In
<1>4. LinksOK(slot)
  BY <1>3 DEF LinksOK
<1>5. BoundOK(slot)
  BY <1>3, FS_EmptySet, TransportsAssumption DEF BoundOK
<1>6. CountsOK(slot, req)
  <2>1. ASSUME NEW s \in Slot PROVE HoldersOf(req, s) = {} /\ slot[s].active = 0
    BY BlankFacts, IdleFacts, TransportsAssumption DEF Init, HoldersOf
  <2> QED
    BY <2>1, FS_EmptySet DEF CountsOK
<1> QED
  BY <1>1, <1>2, <1>4, <1>5, <1>6 DEF Init, IInv, Inv

LEMMA NextIInv ==
    ASSUME IInv, [Next]_vars
    PROVE  IInv'
<1>1. CASE UNCHANGED vars
  BY <1>1 DEF vars, IInv
<1>2. ASSUME NEW q \in Request, NEW s \in Slot,
             \/ \E kind \in KindOf[q] : AcquireTransport(q, kind, s) \/ AcquireNewTransport(q, kind, s)
             \/ AcquireProbationTransport(q, s)
             \/ \E source \in Slot \cup {None} : AcquireNewProbationTransport(q, s, source)
      PROVE  IInv'
  BY <1>2, AcquireStep, AcquireNewStep, AcquireNewProbationStep
<1>3. ASSUME NEW q \in Request,
             \/ RetryOnSource(q) \/ ReleaseTransport(q) \/ TripFails(q)
             \/ CallerLeaves(q) \/ CandidateAnswers(q)
             \/ \E accepted \in BOOLEAN : TakeoverValidated(q, accepted)
             \/ RegisterTunnel(q) \/ CloseTunnel(q) \/ FastFail(q)
      PROVE  IInv'
  BY <1>3, RetryOnSourceStep, ReleaseStep, TripFailsStep, CallerLeavesStep,
     CandidateAnswersStep, TakeoverStep, RegisterTunnelStep, TunnelEndsStep
<1>4. ASSUME NEW s \in Slot,
             \/ Dial(s) \/ DialFails(s) \/ OwnPhysicalConnection(s) \/ ObservePhysicalDial(s)
             \/ CloseSlot(s) \/ ForcedClose(s)
             \/ ConnectionDies(s) \/ OldConnectionDies(s)
             \/ \E why \in Reason \cup {"error"}, c \in Slot \cup {None} : Degrade(s, why, c)
             \/ \E rule \in MixedRule : ArmForBlackhole(s, rule)
      PROVE  IInv'
  BY <1>4, DialStep, DialFailsStep, OwnStep, ObserveStep, CloseSlotStep, ForcedCloseStep,
     DeathStep, DegradeStep, ArmForBlackholeStep
<1>5. ASSUME (\E rule \in MixedRule : ArmForBreaker(rule)) \/ Retire \/ Close
      PROVE  IInv'
  BY <1>5, ArmForBreakerStep, RetireStep, CloseStep
<1> QED
  BY <1>1, <1>2, <1>3, <1>4, <1>5 DEF Next

LEMMA Invariance == Spec => []IInv
<1>1. Init => IInv
  BY InitIInv
<1>2. IInv /\ [Next]_vars => IInv'
  BY NextIInv
<1> QED
  BY <1>1, <1>2, PTL DEF Spec

\* Rotation keeps the pool sound whatever the interleaving of requests, dials,
\* deaths, samples, drains and the retirement of the generation: at most one
\* candidate, linked with its source on both sides, exact counts, no slot
\* beyond maxTransportsPerKey and none left behind without users
\* (validateHTTP3RotationState, releaseTransport, promoteHTTP3Candidate).
THEOREM RotationStaysSound == Spec => []RotationSound
<1>1. IInv => RotationSound
  <2> SUFFICES ASSUME IInv PROVE RotationSound
    OBVIOUS
  <2>1. TypeOK
    BY DEF IInv, Inv, TypeOK, SlotState, RequestState, SlotRec, ReqRec, MonRec, ProofRec
  <2>2. In(slot, "warming") = Warming /\ In(slot, "serving") = Serving /\ PoolOf(slot) = Pool
    BY DEF In, Warming, Serving, Pool, PoolOf
  <2>3. LinksOK(slot) /\ BoundOK(slot) /\ CountsOK(slot, req)
        /\ \A s \in Slot : slot[s] \in SlotRec /\ UseOK(retired, slot[s])
    BY DEF IInv, Inv, LocalOK
  <2>4. Cardinality(Warming) <= 1
    <3>1. CASE Warming = {}
      BY <3>1, FS_EmptySet
    <3>2. ASSUME NEW c \in Warming PROVE Cardinality(Warming) <= 1
      <4>1. Warming = {c}
        BY <2>2, <2>3 DEF LinksOK
      <4> QED
        <5>1. Cardinality({c}) = 1
          BY FS_Singleton
        <5> QED
          BY <4>1, <5>1
    <3> QED
      BY <3>1, <3>2
  <2>5. Cardinality(Pool) <= MaxTransports
    BY <2>2, <2>3 DEF BoundOK
  <2>6. \A s \in Slot : slot[s].active = Cardinality(Holders(s))
    <3>1. ASSUME NEW s \in Slot PROVE Holders(s) = HoldersOf(req, s)
      BY DEF Holders, HoldersOf
    <3> QED
      BY <2>3, <3>1 DEF CountsOK
  <2>7. ASSUME NEW s \in Warming
        PROVE  /\ slot[s].active <= 1
               /\ \A t \in Serving : slot[s].replaces = t <=> slot[t].replacement = s
    <3>1. slot[s].active <= 1
      BY <2>3 DEF UseOK, Warming, Pool
    <3> QED
      BY <2>2, <2>3, <3>1 DEF LinksOK
  <2>8. ASSUME NEW s \in Pool, slot[s].active = 0
        PROVE  ~retired /\ slot[s].lc \in {"warming", "serving"}
    BY <2>3, <2>8 DEF UseOK, Pool
  <2> QED
    BY <2>1, <2>4, <2>5, <2>6, <2>7, <2>8 DEF RotationSound
<1> QED
  BY <1>1, Invariance, PTL

\* Whenever a dial returns, fails or is still to be observed, and however often
\* the connection has been replaced, a closed slot keeps no live connection
\* (ownPhysicalConnection, observeHTTP3PhysicalDial, slot.close).
THEOREM ConnectionsStayOwned == Spec => []NoConnectionEscapes
<1>1. IInv => NoConnectionEscapes
  <2> SUFFICES ASSUME IInv, NEW s \in Slot, slot[s].home = "closed" PROVE Live(s) = 0
    BY DEF NoConnectionEscapes
  <2>1. ConnOK(slot[s])
    BY SlotFacts DEF LocalOK
  <2> QED
    BY <2>1 DEF ConnOK, Live
<1> QED
  BY <1>1, Invariance, PTL

\* The monitor of a forced drain ends a stream, or closes a connection under its
\* users, only where each of them was armed for that connection or another slot
\* has answered since: a count of eligible streams that equals the number of
\* users leaves no user out (streamFastFailEligibleLocked, checkHTTP3ForcedDrainAt).
THEOREM NeighboursAreSpared == Spec => []NeighbourSpared
<1>1. IInv => NeighbourSpared
  <2> SUFFICES ASSUME IInv, NEW s \in Slot, Monitored(s),
                      NEW q \in (IF MayClose(s) THEN Holders(s) ELSE Eligible(s))
               PROVE  RuleOf[q] \in slot[s].proof.rules \/ slot[s].proof.other
    BY DEF NeighbourSpared
  <2>1. DrainOK(slot[s]) /\ CountsOK(slot, req)
    BY SlotFacts DEF LocalOK, IInv, Inv
  <2>2. CASE slot[s].mon.all
    BY <2>1, <2>2 DEF DrainOK
  <2>3. CASE ~slot[s].mon.all
    <3>1. q \in Eligible(s)
      <4>1. CASE ~MayClose(s)
        BY <4>1
      <4>2. CASE MayClose(s)
        <5>1. Eligible(s) \subseteq Holders(s) /\ Holders(s) \in SUBSET Request
          BY DEF Eligible, Tunnels, Holders
        <5>2. Holders(s) = HoldersOf(req, s)
          BY DEF Holders, HoldersOf
        <5>3. Cardinality(Eligible(s)) = Cardinality(Holders(s))
          BY <2>1, <2>3, <4>2, <5>2 DEF MayClose, CountsOK
        <5>4. Eligible(s) = Holders(s)
          BY <5>1, <5>3, SubsetsFinite, FS_Subset
        <5> QED
          BY <4>2, <5>4
      <4> QED
        BY <4>1, <4>2
    <3>2. RuleOf[q] \in slot[s].mon.rules
      BY <2>3, <3>1 DEF Eligible
    <3> QED
      BY <2>1, <3>2 DEF DrainOK
  <2> QED
    BY <2>2, <2>3
<1> QED
  BY <1>1, Invariance, PTL
=============================================================================
