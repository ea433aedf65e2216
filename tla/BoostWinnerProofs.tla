-------------------------- MODULE BoostWinnerProofs --------------------------
(***************************************************************************)
(* Tokens and decisions of the winner cache are valid exactly while their  *)
(* view of the cache is, for every number of requests, rules and targets   *)
(* and every size of the cache.                                            *)
(***************************************************************************)
EXTENDS BoostWinner, FiniteSetTheorems, TLAPS

\* A generation names one store: no token is ahead of the counter, and a token
\* that names the current entry has its address.
GenerationsOK ==
    /\ \A k \in Key : /\ entries[k].generation <= nextGeneration
                      /\ entries[k].generation = 0 => entries[k].left = 0
    /\ \A p \in Process :
         /\ proc[p].generation <= nextGeneration
         /\ proc[p].generation # 0 /\ entries[proc[p].key].generation = proc[p].generation
              => entries[proc[p].key].addr = proc[p].addr

Deciding == {"begun", "loaded", "missed", "racing"}

\* Who has a token and who is deciding.
StepsOK ==
    \A p \in Process :
        /\ proc[p].generation # 0 => proc[p].st \in {"loaded", "cached", "relaying"}
        /\ proc[p].state # 0 => proc[p].st \in Deciding
        /\ proc[p].st = "racing" => proc[p].state # 0

\* A decision state belongs to one key.
OwnKey ==
    \A p, q \in Process :
        proc[p].state # 0 /\ proc[p].state = proc[q].state => proc[p].key = proc[q].key

\* A decision whose state is still the key's saw the entry that is there.
SeesEntry ==
    \A p \in Process :
        proc[p].state # 0 /\ decisions[proc[p].key] = proc[p].state
        => /\ proc[p].expires = entries[proc[p].key].left
           /\ proc[p].hadEntry <=> Present(proc[p].key)

CurrentIsClean ==
    \A p \in Process :
        proc[p].state # 0 => (DecisionCurrent(p) <=> "decision" \notin dirty[p])

ReferencesOK == \A s \in StateId : references[s] = Cardinality(Deciders(s))

NoTombstone ==
    \A k \in Key : decisions[k] # 0 => \E p \in Deciders(decisions[k]) : proc[p].key = k

Entries == {k \in Key : Present(k)}
RoomOK == Cardinality(Entries) <= MaxEntries

\* The inductive invariant.
IInv ==
    /\ TypeOK
    /\ GenerationsOK
    /\ StepsOK
    /\ OwnKey
    /\ SeesEntry
    /\ TokenExact
    /\ CurrentIsClean
    /\ ReferencesOK
    /\ NoTombstone
    /\ RoomOK

-----------------------------------------------------------------------------
(* Finite sets and decision states. *)

PRecord == [st : Steps, key : Key, addr : Target \cup {NoTarget}, generation : 0..MaxGen,
            state : {0} \cup StateId, expires : 0..TTL, hadEntry : BOOLEAN]
ERecord == [addr : Target \cup {NoTarget}, left : 0..TTL, generation : 0..MaxGen]

\* The types without the counters of references, which follow from ReferencesOK.
TypedRest ==
    /\ entries \in [Key -> ERecord]
    /\ nextGeneration \in 0..MaxGen
    /\ decisions \in [Key -> {0} \cup StateId]
    /\ references \in [StateId -> Int]
    /\ proc \in [Process -> PRecord]
    /\ dirty \in [Process -> SUBSET {"token", "decision"}]

LEMMA ProcessesFinite ==
    /\ IsFiniteSet(Process) /\ Cardinality(Process) \in Nat
    /\ \A S \in SUBSET Process :
         IsFiniteSet(S) /\ Cardinality(S) \in 0..Cardinality(Process)
<1>1. IsFiniteSet(Process)
  BY WinnerAssumption, FS_Union DEF Process
<1>2. Cardinality(Process) \in Nat
  BY <1>1, FS_CardinalityType
<1>3. ASSUME NEW S \in SUBSET Process
      PROVE  IsFiniteSet(S) /\ Cardinality(S) \in 0..Cardinality(Process)
  <2>1. IsFiniteSet(S) /\ Cardinality(S) <= Cardinality(Process)
    BY <1>1, FS_Subset
  <2>2. Cardinality(S) \in Nat
    BY <2>1, FS_CardinalityType
  <2> QED
    BY <1>2, <2>1, <2>2
<1> QED
  BY <1>1, <1>2, <1>3

LEMMA StatesAreNumbers ==
    StateId \in SUBSET Nat /\ 0 \notin StateId
BY ProcessesFinite DEF StateId

LEMMA TypesFollow ==
    ASSUME TypedRest', ReferencesOK'
    PROVE  TypeOK'
<1>1. \A s \in StateId : references'[s] \in 0..Cardinality(Process)
  <2> SUFFICES ASSUME NEW s \in StateId PROVE references'[s] \in 0..Cardinality(Process)
    OBVIOUS
  <2>1. references'[s] = Cardinality(Deciders(s)') /\ Deciders(s)' \in SUBSET Process
    BY DEF ReferencesOK, Deciders
  <2> QED
    BY <2>1, ProcessesFinite
<1>2. references' \in [StateId -> 0..Cardinality(Process)]
  BY <1>1 DEF TypedRest
<1> QED
  BY <1>2 DEF TypedRest, TypeOK, PRecord, ERecord

LEMMA TypesSplit ==
    ASSUME TypeOK
    PROVE  TypedRest
<1>1. references \in [StateId -> Int]
  BY ProcessesFinite DEF TypeOK
<1> QED
  BY <1>1 DEF TypedRest, TypeOK, PRecord, ERecord

\* A process without a decision finds a state object that nobody holds.
LEMMA FreshStateFree ==
    ASSUME IInv, NEW p \in Process, proc[p].state = 0
    PROVE  /\ FreshState \in StateId /\ references[FreshState] = 0
           /\ Deciders(FreshState) = {}
<1>1. \E s \in StateId : Deciders(s) = {}
  <2> SUFFICES ASSUME \A s \in StateId : Deciders(s) # {} PROVE FALSE
    OBVIOUS
  <2> DEFINE g == [s \in StateId |-> CHOOSE q \in Process : proc[q].state = s]
             T == Process \ {p}
  <2>1. ASSUME NEW s \in StateId PROVE g[s] \in Process /\ proc[g[s]].state = s
    <3>1. \E q \in Process : proc[q].state = s
      BY DEF Deciders
    <3> QED
      BY <3>1
  <2>2. g \in [StateId -> T]
    <3>1. \A s \in StateId : g[s] \in T
      BY <2>1, StatesAreNumbers
    <3> QED
      BY <3>1
  <2>3. \A s, t \in StateId : g[s] = g[t] => s = t
    BY <2>1
  <2> HIDE DEF g
  <2>4. g \in Injection(StateId, T)
    BY <2>2, <2>3 DEF Injection, IsInjective
  <2>5. IsFiniteSet(T) /\ Cardinality(T) = Cardinality(Process) - 1
    BY ProcessesFinite, FS_RemoveElement
  <2>6. Cardinality(StateId) = Cardinality(Process)
    <3>1. Cardinality(Process) \in Nat /\ 1 \in Int
      BY ProcessesFinite
    <3>2. Cardinality(1..Cardinality(Process))
            = IF 1 > Cardinality(Process) THEN 0 ELSE Cardinality(Process) - 1 + 1
      BY <3>1, FS_Interval
    <3> QED
      BY <3>1, <3>2 DEF StateId
  <2>7. Cardinality(StateId) <= Cardinality(T)
    BY <2>4, <2>5, FS_Injection
  <2> QED
    BY <2>5, <2>6, <2>7, ProcessesFinite
<1>2. PICK s \in StateId : Deciders(s) = {}
  BY <1>1
<1>3. references[s] = 0
  BY <1>2, FS_EmptySet DEF IInv, ReferencesOK
<1>4. FreshState \in StateId /\ references[FreshState] = 0
  BY <1>3 DEF FreshState
<1>5. Deciders(FreshState) \in SUBSET Process /\ Cardinality(Deciders(FreshState)) = 0
  BY <1>4 DEF IInv, ReferencesOK, Deciders
<1>6. IsFiniteSet(Deciders(FreshState))
  BY <1>5, ProcessesFinite
<1> QED
  BY <1>4, <1>5, <1>6, FS_EmptySet

-----------------------------------------------------------------------------
(* What a step may do, whoever takes it.  K are the keys it mutates. *)

EntryEffect(K) ==
    /\ nextGeneration' \in {nextGeneration, nextGeneration + 1}
    /\ \A k \in Key \ K : entries'[k] = entries[k]
    /\ \A k \in K : \/ entries'[k] = NoEntry
                    \/ /\ nextGeneration' = nextGeneration + 1
                       /\ entries'[k].generation = nextGeneration + 1

\* A token is dropped, ages with its key, or is taken from the entry.
TokenKept(q, K) ==
    \/ proc'[q].generation = 0
    \/ /\ proc'[q].generation = proc[q].generation /\ proc'[q].addr = proc[q].addr
       /\ proc'[q].key = proc[q].key
       /\ "token" \in dirty'[q] <=> (proc[q].key \in K \/ "token" \in dirty[q])
    \/ /\ entries'[proc'[q].key].generation = proc'[q].generation
       /\ entries'[proc'[q].key].addr = proc'[q].addr
       /\ "token" \notin dirty'[q]

\* So is a decision.
DecisionKept(q, K) ==
    \/ proc'[q].state = 0
    \/ /\ proc'[q].state = proc[q].state /\ proc'[q].key = proc[q].key
       /\ proc'[q].expires = proc[q].expires /\ proc'[q].hadEntry = proc[q].hadEntry
       /\ decisions'[proc[q].key] = proc[q].state
            <=> decisions[proc[q].key] = proc[q].state /\ proc[q].key \notin K
       /\ "decision" \in dirty'[q] <=> (proc[q].key \in K \/ "decision" \in dirty[q])
    \/ /\ decisions'[proc'[q].key] = proc'[q].state
       /\ proc'[q].expires = entries'[proc'[q].key].left
       /\ proc'[q].hadEntry <=> entries'[proc'[q].key].generation # 0
       /\ proc'[q].hadEntry => proc'[q].expires > 0
       /\ "decision" \notin dirty'[q]

LEMMA TokensKeep ==
    ASSUME IInv, TypedRest', NEW K \in SUBSET Key, EntryEffect(K),
           \A q \in Process : TokenKept(q, K)
    PROVE  GenerationsOK' /\ TokenExact'
<1>1. TypedRest
  BY TypesSplit DEF IInv
<1>2. /\ nextGeneration \in Nat /\ nextGeneration' \in Nat /\ nextGeneration <= nextGeneration'
  BY <1>1, WinnerAssumption DEF TypedRest, EntryEffect
<1>3. ASSUME NEW k \in Key
      PROVE  /\ entries[k].generation \in Nat /\ entries'[k].generation \in Nat
             /\ entries[k].generation <= nextGeneration
             /\ entries[k].generation = 0 => entries[k].left = 0
  BY <1>1, WinnerAssumption DEF TypedRest, ERecord, IInv, GenerationsOK
<1>4. ASSUME NEW k \in Key
      PROVE  /\ entries'[k].generation <= nextGeneration'
             /\ entries'[k].generation = 0 => entries'[k].left = 0
  <2>1. CASE k \notin K
    BY <1>2, <1>3, <2>1 DEF EntryEffect
  <2>2. CASE k \in K
    BY <1>2, <1>3, <2>2 DEF EntryEffect, NoEntry
  <2> QED
    BY <2>1, <2>2
<1>5. ASSUME NEW q \in Process
      PROVE  /\ proc[q].generation \in Nat /\ proc'[q].generation \in Nat
             /\ proc[q].key \in Key /\ proc'[q].key \in Key
             /\ proc[q].generation <= nextGeneration
             /\ proc[q].generation # 0 /\ entries[proc[q].key].generation = proc[q].generation
                  => entries[proc[q].key].addr = proc[q].addr
             /\ proc[q].generation # 0 =>
                  (entries[proc[q].key].generation = proc[q].generation
                     <=> "token" \notin dirty[q])
  BY <1>1, WinnerAssumption DEF TypedRest, PRecord, IInv, GenerationsOK, TokenExact, TokenCurrent
<1>6. ASSUME NEW q \in Process
      PROVE  /\ proc'[q].generation <= nextGeneration'
             /\ proc'[q].generation # 0 =>
                  /\ entries'[proc'[q].key].generation = proc'[q].generation
                       => entries'[proc'[q].key].addr = proc'[q].addr
                  /\ (entries'[proc'[q].key].generation = proc'[q].generation
                        <=> "token" \notin dirty'[q])
  <2>1. CASE proc'[q].generation = 0
    BY <1>2, <2>1
  <2>2. CASE /\ proc'[q].generation # 0
             /\ proc'[q].generation = proc[q].generation /\ proc'[q].addr = proc[q].addr
             /\ proc'[q].key = proc[q].key
             /\ "token" \in dirty'[q] <=> (proc[q].key \in K \/ "token" \in dirty[q])
    <3>1. CASE proc[q].key \in K
      <4>1. entries'[proc[q].key].generation # proc[q].generation
        BY <1>2, <1>3, <1>5, <2>2, <3>1 DEF EntryEffect, NoEntry
      <4> QED
        BY <1>2, <1>5, <2>2, <3>1, <4>1
    <3>2. CASE proc[q].key \notin K
      <4>1. entries'[proc[q].key] = entries[proc[q].key]
        BY <1>5, <3>2 DEF EntryEffect
      <4> QED
        BY <1>2, <1>5, <2>2, <3>2, <4>1
    <3> QED
      BY <3>1, <3>2
  <2>3. CASE /\ proc'[q].generation # 0
             /\ entries'[proc'[q].key].generation = proc'[q].generation
             /\ entries'[proc'[q].key].addr = proc'[q].addr
             /\ "token" \notin dirty'[q]
    BY <1>4, <1>5, <2>3
  <2> QED
    BY <2>1, <2>2, <2>3 DEF TokenKept
<1> QED
  BY <1>4, <1>6 DEF GenerationsOK, TokenExact, TokenCurrent

LEMMA DecisionsKeep ==
    ASSUME IInv, TypedRest', NEW K \in SUBSET Key, EntryEffect(K),
           \A q \in Process : DecisionKept(q, K)
    PROVE  SeesEntry' /\ CurrentIsClean'
<1>1. TypedRest
  BY TypesSplit DEF IInv
<1>2. ASSUME NEW q \in Process
      PROVE  /\ proc[q].key \in Key /\ proc'[q].key \in Key
             /\ proc[q].hadEntry \in BOOLEAN /\ proc'[q].hadEntry \in BOOLEAN
  BY <1>1 DEF TypedRest, PRecord
<1>3. ASSUME NEW q \in Process, proc'[q].state # 0
      PROVE  /\ decisions'[proc'[q].key] = proc'[q].state
                  => /\ proc'[q].expires = entries'[proc'[q].key].left
                     /\ proc'[q].hadEntry <=> entries'[proc'[q].key].generation # 0
             /\ (/\ decisions'[proc'[q].key] = proc'[q].state
                 /\ proc'[q].hadEntry => proc'[q].expires > 0)
                  <=> "decision" \notin dirty'[q]
  <2>1. CASE /\ proc'[q].state = proc[q].state /\ proc'[q].key = proc[q].key
             /\ proc'[q].expires = proc[q].expires /\ proc'[q].hadEntry = proc[q].hadEntry
             /\ decisions'[proc[q].key] = proc[q].state
                  <=> decisions[proc[q].key] = proc[q].state /\ proc[q].key \notin K
             /\ "decision" \in dirty'[q] <=> (proc[q].key \in K \/ "decision" \in dirty[q])
    <3>1. proc[q].key \notin K => entries'[proc[q].key] = entries[proc[q].key]
      BY <1>2 DEF EntryEffect
    <3>2. /\ decisions[proc[q].key] = proc[q].state
               => /\ proc[q].expires = entries[proc[q].key].left
                  /\ proc[q].hadEntry <=> entries[proc[q].key].generation # 0
          /\ (/\ decisions[proc[q].key] = proc[q].state
              /\ proc[q].hadEntry => proc[q].expires > 0)
               <=> "decision" \notin dirty[q]
      BY <1>3, <2>1 DEF IInv, SeesEntry, CurrentIsClean, DecisionCurrent, Present
    <3> QED
      BY <2>1, <3>1, <3>2
  <2>2. CASE /\ decisions'[proc'[q].key] = proc'[q].state
             /\ proc'[q].expires = entries'[proc'[q].key].left
             /\ proc'[q].hadEntry <=> entries'[proc'[q].key].generation # 0
             /\ proc'[q].hadEntry => proc'[q].expires > 0
             /\ "decision" \notin dirty'[q]
    BY <2>2
  <2> QED
    BY <1>3, <2>1, <2>2 DEF DecisionKept
<1> QED
  BY <1>3 DEF SeesEntry, CurrentIsClean, DecisionCurrent, Present

-----------------------------------------------------------------------------
(* The references to decision states. *)

SameDecision(q) ==
    /\ proc'[q].state = proc[q].state
    /\ proc[q].state # 0 => proc'[q].key = proc[q].key

\* The decision of p ends, or p begins one, or nobody's does either.
ReferenceEffect(p) ==
    /\ \A q \in Process \ {p} : SameDecision(q)
    /\ \/ /\ SameDecision(p) /\ references' = references
          /\ \A k \in Key : decisions'[k] \in {decisions[k], 0}
       \/ /\ proc[p].state # 0 /\ proc'[p].state = 0
          /\ references' = [references EXCEPT ![proc[p].state] = @ - 1]
          /\ \A k \in Key : decisions'[k] \in {decisions[k], 0}
          /\ decisions'[proc[p].key] = proc[p].state => references[proc[p].state] # 1
       \/ /\ proc[p].state = 0 /\ proc'[p].state \in StateId
          /\ references' = [references EXCEPT ![proc'[p].state] = @ + 1]
          /\ decisions'[proc'[p].key] = proc'[p].state
          /\ \A k \in Key \ {proc'[p].key} : decisions'[k] = decisions[k]
          /\ \/ decisions[proc'[p].key] = proc'[p].state
             \/ Deciders(proc'[p].state) = {}

LEMMA ReferencesKeep ==
    ASSUME IInv, TypedRest', NEW p \in Process, ReferenceEffect(p)
    PROVE  ReferencesOK' /\ OwnKey' /\ NoTombstone'
<1>1. TypedRest
  BY TypesSplit DEF IInv
<1>2. ASSUME NEW s PROVE /\ Deciders(s) \in SUBSET Process /\ Deciders(s)' \in SUBSET Process
                         /\ \A q \in Process : /\ q \in Deciders(s) <=> proc[q].state = s
                                               /\ q \in Deciders(s)' <=> proc'[q].state = s
  BY DEF Deciders
<1>3. ASSUME NEW q \in Process
      PROVE  /\ proc[q].state \in {0} \cup StateId /\ proc'[q].state \in {0} \cup StateId
             /\ proc[q].key \in Key /\ proc'[q].key \in Key
  BY <1>1 DEF TypedRest, PRecord
<1>4. ASSUME NEW s \in StateId PROVE references[s] = Cardinality(Deciders(s)) /\ s # 0
  BY StatesAreNumbers DEF IInv, ReferencesOK
<1>5. references \in [StateId -> Int]
  BY <1>1 DEF TypedRest
<1>6. \A q \in Process \ {p} : SameDecision(q)
  BY DEF ReferenceEffect
\* the states of a key have deciders of that key only
<1>7. ASSUME NEW k \in Key, decisions[k] # 0, NEW q \in Process, proc[q].state = decisions[k]
      PROVE  proc[q].key = k
  <2>1. PICK f \in Deciders(decisions[k]) : proc[f].key = k
    BY <1>7 DEF IInv, NoTombstone
  <2>2. f \in Process /\ proc[f].state = decisions[k]
    BY <2>1 DEF Deciders
  <2> QED
    BY <1>7, <2>1, <2>2 DEF IInv, OwnKey
<1>8. CASE /\ SameDecision(p) /\ references' = references
           /\ \A k \in Key : decisions'[k] \in {decisions[k], 0}
  <2>1. \A q \in Process : SameDecision(q)
    BY <1>6, <1>8
  <2>2. ASSUME NEW s \in StateId PROVE Deciders(s)' = Deciders(s)
    BY <2>1 DEF Deciders, SameDecision
  <2>3. ReferencesOK'
    BY <1>4, <1>8, <2>2 DEF ReferencesOK
  <2>4. OwnKey'
    BY <2>1 DEF IInv, OwnKey, SameDecision
  <2>5. NoTombstone'
    <3> SUFFICES ASSUME NEW k \in Key, decisions'[k] # 0
                 PROVE  \E q \in Process : proc'[q].state = decisions'[k] /\ proc'[q].key = k
      BY DEF NoTombstone, Deciders
    <3>1. decisions'[k] = decisions[k] /\ decisions[k] # 0
      BY <1>8
    <3>2. PICK q \in Process : proc[q].state = decisions[k] /\ proc[q].key = k
      BY <3>1 DEF IInv, NoTombstone, Deciders
    <3> QED
      BY <2>1, <3>1, <3>2 DEF SameDecision
  <2> QED
    BY <2>3, <2>4, <2>5
<1>9. CASE /\ proc[p].state # 0 /\ proc'[p].state = 0
           /\ references' = [references EXCEPT ![proc[p].state] = @ - 1]
           /\ \A k \in Key : decisions'[k] \in {decisions[k], 0}
           /\ decisions'[proc[p].key] = proc[p].state => references[proc[p].state] # 1
  <2>0. PICK s \in StateId : s = proc[p].state
    BY <1>3, <1>9
  <2>1. p \in Deciders(s) /\ s # 0
    BY <1>4, <2>0 DEF Deciders
  <2>2. Deciders(s)' = Deciders(s) \ {p}
    <3>1. \A q \in Process : proc'[q].state = s <=> proc[q].state = s /\ q # p
      BY <1>6, <1>9, <2>0, <2>1 DEF SameDecision
    <3> QED
      BY <1>2, <3>1
  <2>3. ASSUME NEW t \in StateId, t # s PROVE Deciders(t)' = Deciders(t)
    <3>1. \A q \in Process : proc'[q].state = t <=> proc[q].state = t
      BY <1>4, <1>6, <1>9, <2>0, <2>3 DEF SameDecision
    <3> QED
      BY <3>1 DEF Deciders
  <2>4. Cardinality(Deciders(s) \ {p}) = Cardinality(Deciders(s)) - 1
    BY <1>2, <2>1, ProcessesFinite, FS_RemoveElement
  <2>5. ReferencesOK'
    BY <1>4, <1>5, <1>9, <2>0, <2>2, <2>3, <2>4 DEF ReferencesOK
  <2>6. \A q \in Process : proc'[q].state # 0 => q # p /\ SameDecision(q)
    BY <1>6, <1>9
  <2>7. OwnKey'
    BY <2>6 DEF IInv, OwnKey, SameDecision
  <2>8. NoTombstone'
    <3> SUFFICES ASSUME NEW k \in Key, decisions'[k] # 0
                 PROVE  \E q \in Process : proc'[q].state = decisions'[k] /\ proc'[q].key = k
      BY DEF NoTombstone, Deciders
    <3>1. decisions'[k] = decisions[k] /\ decisions[k] # 0
      BY <1>9
    <3>2. PICK q \in Process : proc[q].state = decisions[k] /\ proc[q].key = k
      BY <3>1 DEF IInv, NoTombstone, Deciders
    <3>3. CASE q # p
      BY <1>6, <3>1, <3>2, <3>3 DEF SameDecision
    <3>4. CASE q = p
      <4>1. references[s] # 1 /\ decisions[k] = s
        BY <1>9, <2>0, <3>1, <3>2, <3>4
      <4>2. Cardinality(Deciders(s)) # 1
        BY <1>4, <4>1
      <4>3. Deciders(s) # {p}
        BY <4>2, FS_Singleton
      <4>4. PICK f \in Deciders(s) : f # p
        BY <2>1, <4>3
      <4>5. f \in Process /\ proc[f].state = s
        BY <4>4 DEF Deciders
      <4>6. proc[f].key = k
        BY <1>7, <3>1, <4>1, <4>5
      <4> QED
        BY <1>6, <3>1, <4>1, <4>4, <4>5, <4>6 DEF SameDecision
    <3> QED
      BY <3>3, <3>4
  <2> QED
    BY <2>5, <2>7, <2>8
<1>10. CASE /\ proc[p].state = 0 /\ proc'[p].state \in StateId
            /\ references' = [references EXCEPT ![proc'[p].state] = @ + 1]
            /\ decisions'[proc'[p].key] = proc'[p].state
            /\ \A k \in Key \ {proc'[p].key} : decisions'[k] = decisions[k]
            /\ \/ decisions[proc'[p].key] = proc'[p].state
               \/ Deciders(proc'[p].state) = {}
  <2>1. PICK s \in StateId : s = proc'[p].state
    BY <1>10
  <2>2. p \notin Deciders(s) /\ Deciders(s)' = Deciders(s) \cup {p}
    BY <1>2, <1>4, <1>6, <1>10, <2>1 DEF SameDecision
  <2>3. ASSUME NEW t \in StateId, t # s PROVE Deciders(t)' = Deciders(t)
    <3>1. \A q \in Process : proc'[q].state = t <=> proc[q].state = t
      BY <1>4, <1>6, <1>10, <2>1, <2>3 DEF SameDecision
    <3> QED
      BY <3>1 DEF Deciders
  <2>4. Cardinality(Deciders(s) \cup {p}) = Cardinality(Deciders(s)) + 1
    BY <1>2, <2>2, ProcessesFinite, FS_AddElement
  <2>5. ReferencesOK'
    BY <1>4, <1>5, <1>10, <2>1, <2>2, <2>3, <2>4 DEF ReferencesOK
  <2>6. ASSUME NEW q \in Process \ {p}, proc'[q].state = s PROVE proc'[q].key = proc'[p].key
    <3>1. proc[q].state = s /\ proc'[q].key = proc[q].key /\ q \in Deciders(s)
      BY <1>2, <1>4, <1>6, <2>6 DEF SameDecision
    <3>2. decisions[proc'[p].key] = s
      BY <1>10, <2>1, <3>1
    <3> QED
      BY <1>3, <1>4, <1>7, <3>1, <3>2
  <2>7. OwnKey'
    <3> SUFFICES ASSUME NEW q \in Process, NEW f \in Process, proc'[q].state # 0,
                        proc'[q].state = proc'[f].state
                 PROVE  proc'[q].key = proc'[f].key
      BY DEF OwnKey
    <3>1. CASE q # p /\ f # p
      BY <1>6, <3>1 DEF IInv, OwnKey, SameDecision
    <3>2. CASE q = p \/ f = p
      BY <2>1, <2>6, <3>2
    <3> QED
      BY <3>1, <3>2
  <2>8. NoTombstone'
    <3> SUFFICES ASSUME NEW k \in Key, decisions'[k] # 0
                 PROVE  \E q \in Process : proc'[q].state = decisions'[k] /\ proc'[q].key = k
      BY DEF NoTombstone, Deciders
    <3>1. CASE k = proc'[p].key
      BY <1>10, <3>1
    <3>2. CASE k # proc'[p].key
      <4>1. decisions'[k] = decisions[k] /\ decisions[k] # 0
        BY <1>10, <3>2
      <4>2. PICK q \in Process : proc[q].state = decisions[k] /\ proc[q].key = k
        BY <4>1 DEF IInv, NoTombstone, Deciders
      <4>3. q # p
        BY <1>10, <4>1, <4>2
      <4> QED
        BY <1>6, <4>1, <4>2, <4>3 DEF SameDecision
    <3> QED
      BY <3>1, <3>2
  <2> QED
    BY <2>5, <2>7, <2>8
<1> QED
  BY <1>8, <1>9, <1>10 DEF ReferenceEffect

\* Together: a step that keeps the parts keeps the invariant.
LEMMA PartsKeep ==
    ASSUME IInv, TypedRest', StepsOK', RoomOK', NEW p \in Process, ReferenceEffect(p),
           NEW K \in SUBSET Key, EntryEffect(K),
           \A q \in Process : TokenKept(q, K) /\ DecisionKept(q, K)
    PROVE  IInv'
<1>1. GenerationsOK' /\ TokenExact'
  BY TokensKeep
<1>2. SeesEntry' /\ CurrentIsClean'
  BY DecisionsKeep
<1>3. ReferencesOK' /\ OwnKey' /\ NoTombstone'
  BY ReferencesKeep
<1>4. TypeOK'
  BY <1>3, TypesFollow
<1> QED
  BY <1>1, <1>2, <1>3, <1>4 DEF IInv

-----------------------------------------------------------------------------
(* The record a process goes on with. *)

RecordOK(r) ==
    /\ r \in PRecord
    /\ r.generation # 0 => r.st \in {"loaded", "cached", "relaying"}
    /\ r.state # 0 => r.st \in Deciding
    /\ r.st = "racing" => r.state # 0

\* r has the decision of p, if p has one.
SameView(p, r) ==
    \/ r.state = 0 /\ proc[p].state = 0
    \/ /\ r.state = proc[p].state /\ r.key = proc[p].key
       /\ r.expires = proc[p].expires /\ r.hadEntry = proc[p].hadEntry

SameToken(p, r) ==
    r.generation = proc[p].generation /\ r.addr = proc[p].addr /\ r.key = proc[p].key

LEMMA AnyKeyIsKey == AnyKey \in Key
BY WinnerAssumption DEF AnyKey

LEMMA FreshTyped ==
    ASSUME NEW k \in Key
    PROVE  /\ Fresh(k) \in PRecord /\ Fresh(k).state = 0 /\ Fresh(k).generation = 0
           /\ Fresh(k).key = k /\ Fresh(k).st = "begun"
<1>1. 0 \in 0..TTL /\ 0 \in 0..MaxGen
  BY WinnerAssumption
<1> QED
  BY <1>1 DEF Fresh, PRecord, Steps

LEMMA IdleTyped ==
    ASSUME NEW p \in Process
    PROVE  /\ RecordOK(Idle(p)) /\ Idle(p).state = 0 /\ Idle(p).generation = 0
           /\ Idle(p).st = "idle"
<1> DEFINE k == IF p \in Key THEN p ELSE AnyKey
           f == Fresh(k)
<1>1. k \in Key
  BY AnyKeyIsKey
<1>2. f \in PRecord /\ f.state = 0 /\ f.generation = 0
  BY <1>1, FreshTyped
<1>3. Idle(p) = [f EXCEPT !.st = "idle"]
  BY DEF Idle
<1> HIDE DEF f, k
<1>4. [f EXCEPT !.st = "idle"] \in PRecord
  BY <1>2 DEF PRecord, Steps
<1>5. /\ [f EXCEPT !.st = "idle"].state = 0 /\ [f EXCEPT !.st = "idle"].generation = 0
      /\ [f EXCEPT !.st = "idle"].st = "idle"
  BY <1>2 DEF PRecord
<1> QED
  BY <1>3, <1>4, <1>5 DEF RecordOK, Deciding

\* The record of p at another step.
LEMMA AtTyped ==
    ASSUME IInv, NEW p \in Process, NEW st \in Steps
    PROVE  /\ At(p, st) \in PRecord /\ At(p, st).st = st
           /\ At(p, st).state = proc[p].state /\ At(p, st).key = proc[p].key
           /\ At(p, st).expires = proc[p].expires /\ At(p, st).hadEntry = proc[p].hadEntry
           /\ At(p, st).generation = proc[p].generation /\ At(p, st).addr = proc[p].addr
<1>1. proc[p] \in PRecord
  BY TypesSplit DEF IInv, TypedRest
<1> QED
  BY <1>1 DEF At, PRecord

LEMMA ProcFacts ==
    ASSUME IInv, NEW p \in Process
    PROVE  RecordOK(proc[p])
BY TypesSplit DEF IInv, TypedRest, StepsOK, RecordOK

\* Without new entries the cache has room.
LEMMA RoomKept ==
    ASSUME IInv, Entries' \in SUBSET Entries
    PROVE  RoomOK'
<1>1. Entries \in SUBSET Key
  BY DEF Entries
<1>2. IsFiniteSet(Entries)
  BY <1>1, WinnerAssumption, FS_Subset
<1>3. Cardinality(Entries') <= Cardinality(Entries) /\ IsFiniteSet(Entries')
  BY <1>2, FS_Subset
<1>4. Cardinality(Entries') \in Nat /\ Cardinality(Entries) \in Nat
  BY <1>2, <1>3, FS_CardinalityType
<1>5. Cardinality(Entries) <= MaxEntries /\ MaxEntries \in Nat
  BY WinnerAssumption DEF IInv, RoomOK
<1> QED
  BY <1>3, <1>4, <1>5 DEF RoomOK

\* Only the record of p has changed.
LEMMA OneRecord ==
    ASSUME IInv, NEW p \in Process, NEW r, RecordOK(r), proc' = [proc EXCEPT ![p] = r]
    PROVE  /\ proc' \in [Process -> PRecord] /\ StepsOK' /\ proc'[p] = r
           /\ \A q \in Process \ {p} : proc'[q] = proc[q]
<1>1. proc \in [Process -> PRecord]
  BY TypesSplit DEF IInv, TypedRest
<1>2. proc' \in [Process -> PRecord] /\ proc'[p] = r
      /\ \A q \in Process \ {p} : proc'[q] = proc[q]
  BY <1>1 DEF RecordOK
<1>3. StepsOK'
  <2> SUFFICES ASSUME NEW q \in Process
               PROVE  /\ proc'[q].generation # 0 => proc'[q].st \in {"loaded", "cached", "relaying"}
                      /\ proc'[q].state # 0 => proc'[q].st \in Deciding
                      /\ proc'[q].st = "racing" => proc'[q].state # 0
    BY DEF StepsOK, Deciding
  <2>1. CASE q = p
    BY <1>2, <2>1 DEF RecordOK
  <2>2. CASE q # p
    BY <1>2, <2>2, ProcFacts DEF RecordOK
  <2> QED
    BY <2>1, <2>2
<1> QED
  BY <1>2, <1>3

-----------------------------------------------------------------------------
(* The kinds of steps. *)

\* Steps that only go on to another stage.
LEMMA QuietStep ==
    ASSUME IInv, UNCHANGED <<entries, nextGeneration, decisions, references, dirty>>,
           proc' \in [Process -> PRecord], StepsOK',
           \A q \in Process : SameToken(q, proc'[q]) /\ SameView(q, proc'[q])
                              /\ proc'[q].state = proc[q].state
    PROVE  IInv'
<1>1. PICK p \in Process : TRUE
  BY AnyKeyIsKey DEF Process
<1>2. TypedRest
  BY TypesSplit DEF IInv
<1>3. TypedRest'
  BY <1>2 DEF TypedRest
<1>4. {} \in SUBSET Key /\ EntryEffect({})
  BY DEF EntryEffect
<1>5. ASSUME NEW q \in Process PROVE TokenKept(q, {}) /\ DecisionKept(q, {})
  <2>1. TokenKept(q, {})
    BY DEF TokenKept, SameToken
  <2>2. DecisionKept(q, {})
    BY DEF DecisionKept, SameView
  <2> QED
    BY <2>1, <2>2
<1>6. ReferenceEffect(p)
  <2>1. \A q \in Process : SameDecision(q)
    BY DEF SameDecision, SameView, SameToken
  <2> QED
    BY <2>1 DEF ReferenceEffect
<1>7. Entries' = Entries
  BY DEF Entries, Present
<1> QED
  BY <1>3, <1>4, <1>5, <1>6, <1>7, RoomKept, PartsKeep

\* Steps of one process that leave the cache alone.
LEMMA LocalStep ==
    ASSUME IInv, NEW p \in Process, NEW r, RecordOK(r), proc' = [proc EXCEPT ![p] = r],
           UNCHANGED <<entries, nextGeneration, decisions, references>>,
           dirty' \in [Process -> SUBSET {"token", "decision"}],
           \A q \in Process \ {p} : dirty'[q] = dirty[q],
           SameView(p, r),
           r.state # 0 => ("decision" \in dirty'[p] <=> "decision" \in dirty[p]),
           \/ r.generation = 0
           \/ SameToken(p, r) /\ ("token" \in dirty'[p] <=> "token" \in dirty[p])
           \/ /\ entries[r.key].generation = r.generation /\ entries[r.key].addr = r.addr
              /\ "token" \notin dirty'[p]
    PROVE  IInv'
<1>1. /\ proc' \in [Process -> PRecord] /\ StepsOK' /\ proc'[p] = r
      /\ \A q \in Process \ {p} : proc'[q] = proc[q]
  BY OneRecord
<1>2. TypedRest
  BY TypesSplit DEF IInv
<1>3. TypedRest'
  BY <1>1, <1>2 DEF TypedRest
<1>4. {} \in SUBSET Key /\ EntryEffect({})
  BY DEF EntryEffect
<1>5. ASSUME NEW q \in Process PROVE TokenKept(q, {}) /\ DecisionKept(q, {})
  <2>1. CASE q # p
    BY <1>1, <2>1 DEF TokenKept, DecisionKept
  <2>2. CASE q = p
    <3>1. TokenKept(p, {})
      BY <1>1 DEF TokenKept, SameToken
    <3>2. DecisionKept(p, {})
      BY <1>1 DEF DecisionKept, SameView
    <3> QED
      BY <2>2, <3>1, <3>2
  <2> QED
    BY <2>1, <2>2
<1>6. ReferenceEffect(p)
  <2>1. \A q \in Process : SameDecision(q)
    BY <1>1 DEF SameDecision, SameView
  <2> QED
    BY <2>1 DEF ReferenceEffect
<1>7. Entries' = Entries
  BY DEF Entries, Present
<1> QED
  BY <1>1, <1>3, <1>4, <1>5, <1>6, <1>7, RoomKept, PartsKeep

\* p deletes the entry of its key.
LEMMA DeleteStep ==
    ASSUME IInv, NEW p \in Process, NEW r, RecordOK(r), proc' = [proc EXCEPT ![p] = r],
           deleteBoostWinnerLocked(proc[p].key), Outdate({proc[p].key}, p, {"token"}),
           UNCHANGED <<nextGeneration, references>>,
           SameView(p, r), r.generation = 0
    PROVE  IInv'
<1>1. /\ proc' \in [Process -> PRecord] /\ StepsOK' /\ proc'[p] = r
      /\ \A q \in Process \ {p} : proc'[q] = proc[q]
  BY OneRecord
<1>2. TypedRest
  BY TypesSplit DEF IInv
<1>3. PICK k \in Key : k = proc[p].key
  BY <1>2 DEF TypedRest, PRecord
<1>4. NoEntry \in ERecord /\ NoEntry.generation = 0
  <2>1. 0 \in 0..TTL /\ 0 \in 0..MaxGen
    BY WinnerAssumption
  <2> QED
    BY <2>1 DEF NoEntry, ERecord
<1>5. /\ entries' = [entries EXCEPT ![k] = NoEntry]
      /\ decisions' = [decisions EXCEPT ![k] = 0]
  BY <1>3 DEF deleteBoostWinnerLocked
<1>6. /\ entries'[k] = NoEntry /\ decisions'[k] = 0
      /\ \A o \in Key \ {k} : entries'[o] = entries[o] /\ decisions'[o] = decisions[o]
      /\ entries' \in [Key -> ERecord] /\ decisions' \in [Key -> {0} \cup StateId]
  BY <1>2, <1>4, <1>5 DEF TypedRest
<1>7. /\ \A q \in Process \ {p} :
             dirty'[q] = IF proc[q].key = k THEN Views(q) ELSE dirty[q]
      /\ dirty'[p] = Views(p) \ {"token"}
      /\ dirty' \in [Process -> SUBSET {"token", "decision"}]
  BY <1>2, <1>3 DEF Outdate, Views, TypedRest
<1>8. TypedRest'
  BY <1>1, <1>2, <1>6, <1>7 DEF TypedRest
<1>9. {k} \in SUBSET Key /\ EntryEffect({k})
  BY <1>6 DEF EntryEffect
<1>10. ASSUME NEW q \in Process PROVE TokenKept(q, {k}) /\ DecisionKept(q, {k})
  <2>1. proc[q].key \in Key /\ proc[q].state \in {0} \cup StateId
    BY <1>2 DEF TypedRest, PRecord
  <2>2. CASE q # p
    <3>1. TokenKept(q, {k})
      BY <1>1, <1>7, <2>2 DEF TokenKept, Views
    <3>2. DecisionKept(q, {k})
      BY <1>1, <1>6, <1>7, <2>1, <2>2 DEF DecisionKept, Views
    <3> QED
      BY <3>1, <3>2
  <2>3. CASE q = p
    <3>1. TokenKept(p, {k})
      BY <1>1 DEF TokenKept
    <3>2. DecisionKept(p, {k})
      BY <1>1, <1>3, <1>6, <1>7 DEF DecisionKept, SameView, Views
    <3> QED
      BY <2>3, <3>1, <3>2
  <2> QED
    BY <2>2, <2>3
<1>11. ReferenceEffect(p)
  <2>1. \A q \in Process : SameDecision(q)
    BY <1>1 DEF SameDecision, SameView
  <2>2. \A o \in Key : decisions'[o] \in {decisions[o], 0}
    BY <1>6
  <2> QED
    BY <2>1, <2>2 DEF ReferenceEffect
<1>12. Entries' \in SUBSET Entries
  BY <1>4, <1>6 DEF Entries, Present
<1> QED
  BY <1>1, <1>8, <1>9, <1>10, <1>11, <1>12, RoomKept, PartsKeep

\* p gives its decision back, if it has one.
LEMMA ReleaseStep ==
    ASSUME IInv, NEW p \in Process, NEW r \in PRecord, r.st \notin Deciding,
           r.generation # 0 => r.st \in {"loaded", "cached", "relaying"},
           r.generation = 0 \/ SameToken(p, r),
           ReleaseDecision(p, r), UNCHANGED <<entries, nextGeneration>>
    PROVE  IInv'
<1> DEFINE z == [r EXCEPT !.state = 0, !.expires = 0, !.hadEntry = FALSE]
<1>1. /\ z.state = 0 /\ z.generation = r.generation /\ z.key = r.key /\ z.addr = r.addr
      /\ z.st = r.st /\ z \in PRecord
  <2>1. 0 \in 0..TTL
    BY WinnerAssumption
  <2> QED
    BY <2>1 DEF PRecord
<1>2. RecordOK(z)
  BY <1>1 DEF RecordOK, Deciding
<1>3. proc' = [proc EXCEPT ![p] = z]
  BY DEF ReleaseDecision
<1> HIDE DEF z
<1>0. CASE proc[p].state = 0
  <2>1. /\ references' = references /\ decisions' = decisions
        /\ dirty' = [dirty EXCEPT ![p] = dirty[p] \ {"decision"}]
    BY <1>0 DEF ReleaseDecision
  <2>2. dirty \in [Process -> SUBSET {"token", "decision"}]
    BY TypesSplit DEF IInv, TypedRest
  <2>3. /\ dirty' \in [Process -> SUBSET {"token", "decision"}]
        /\ \A q \in Process \ {p} : dirty'[q] = dirty[q]
        /\ "token" \in dirty'[p] <=> "token" \in dirty[p]
    BY <2>1, <2>2
  <2>4. SameView(p, z) /\ (z.generation = 0 \/ SameToken(p, z))
    BY <1>0, <1>1 DEF SameView, SameToken
  <2> QED
    BY <1>1, <1>2, <1>3, <2>1, <2>3, <2>4, LocalStep
<1> SUFFICES ASSUME proc[p].state # 0 PROVE IInv'
  BY <1>0
<1>4. /\ proc' \in [Process -> PRecord] /\ StepsOK' /\ proc'[p] = z
      /\ \A q \in Process \ {p} : proc'[q] = proc[q]
  BY <1>2, <1>3, OneRecord
<1>5. TypedRest
  BY TypesSplit DEF IInv
<1>6. PICK k \in Key, s \in StateId : k = proc[p].key /\ s = proc[p].state
  BY <1>5 DEF TypedRest, PRecord
<1>7. /\ references' = [references EXCEPT ![s] = references[s] - 1]
      /\ decisions' = IF references[s] = 1 /\ decisions[k] = s
                      THEN [decisions EXCEPT ![k] = 0] ELSE decisions
      /\ dirty' = [dirty EXCEPT ![p] = dirty[p] \ {"decision"}]
  BY <1>6 DEF ReleaseDecision, ReferencesAfterRelease, DecisionsAfterRelease
<1>8. /\ \A o \in Key : \/ decisions'[o] = decisions[o]
                        \/ /\ o = k /\ references[s] = 1 /\ decisions[k] = s
                           /\ decisions'[o] = 0
      /\ decisions' \in [Key -> {0} \cup StateId]
      /\ decisions'[k] = s => references[s] # 1
  BY <1>5, <1>6, <1>7, StatesAreNumbers DEF TypedRest
<1>9. /\ dirty' \in [Process -> SUBSET {"token", "decision"}]
      /\ dirty'[p] = dirty[p] \ {"decision"}
      /\ \A q \in Process \ {p} : dirty'[q] = dirty[q]
  BY <1>5, <1>7 DEF TypedRest
<1>10. TypedRest'
  <2>1. references' \in [StateId -> Int]
    BY <1>5, <1>7 DEF TypedRest
  <2> QED
    BY <1>4, <1>5, <1>8, <1>9, <2>1 DEF TypedRest
\* if the state goes, p was its last decider
<1>11. ASSUME references[s] = 1, NEW q \in Process, proc[q].state = s PROVE q = p
  <2>1. Deciders(s) \in SUBSET Process /\ {p} \in SUBSET Deciders(s) /\ q \in Deciders(s)
    BY <1>6, <1>11 DEF Deciders
  <2>2. IsFiniteSet(Deciders(s)) /\ Cardinality(Deciders(s)) = 1
    BY <1>11, <2>1, ProcessesFinite DEF IInv, ReferencesOK
  <2>3. Cardinality({p}) = 1
    BY FS_Singleton
  <2>4. Deciders(s) = {p}
    BY <2>1, <2>2, <2>3, FS_Subset
  <2> QED
    BY <2>1, <2>4
<1>12. {} \in SUBSET Key /\ EntryEffect({})
  BY DEF EntryEffect
<1>13. ASSUME NEW q \in Process PROVE TokenKept(q, {}) /\ DecisionKept(q, {})
  <2>1. CASE q # p
    <3>1. TokenKept(q, {})
      BY <1>4, <1>9, <2>1 DEF TokenKept
    <3>2. CASE proc[q].state = 0
      BY <1>4, <2>1, <3>1, <3>2 DEF DecisionKept
    <3>3. CASE proc[q].state # 0
      <4>1. proc[q].key \in Key
        BY <1>5 DEF TypedRest, PRecord
      <4>2. decisions'[proc[q].key] = proc[q].state <=> decisions[proc[q].key] = proc[q].state
        BY <1>8, <1>11, <2>1, <3>3, <4>1
      <4> QED
        BY <1>4, <1>9, <2>1, <3>1, <4>2 DEF DecisionKept
    <3> QED
      BY <3>2, <3>3
  <2>2. CASE q = p
    <3>1. TokenKept(p, {})
      BY <1>1, <1>4, <1>9 DEF TokenKept, SameToken
    <3>2. DecisionKept(p, {})
      BY <1>1, <1>4 DEF DecisionKept
    <3> QED
      BY <2>2, <3>1, <3>2
  <2> QED
    BY <2>1, <2>2
<1>14. ReferenceEffect(p)
  <2>1. \A q \in Process \ {p} : SameDecision(q)
    BY <1>4 DEF SameDecision
  <2>2. \A o \in Key : decisions'[o] \in {decisions[o], 0}
    BY <1>8
  <2>3. /\ proc[p].state # 0 /\ proc'[p].state = 0
        /\ references' = [references EXCEPT ![proc[p].state] = @ - 1]
        /\ decisions'[proc[p].key] = proc[p].state => references[proc[p].state] # 1
    BY <1>1, <1>4, <1>6, <1>7, <1>8
  <2> QED
    BY <2>1, <2>2, <2>3 DEF ReferenceEffect
<1>15. Entries' = Entries
  BY DEF Entries, Present
<1> QED
  BY <1>4, <1>10, <1>12, <1>13, <1>14, <1>15, RoomKept, PartsKeep

\* p begins a decision for k.
LEMMA BeginStep ==
    ASSUME IInv, NEW p \in Process, NEW k \in Key, NEW st \in {"begun", "racing"},
           proc[p].state = 0, BeginDecision(p, k, st)
    PROVE  IInv'
<1>1. TypedRest
  BY TypesSplit DEF IInv
<1>2. /\ entries[k] \in ERecord /\ entries[k].left \in 0..TTL /\ entries[k].left \in Nat
      /\ decisions[k] \in {0} \cup StateId
      /\ entries[k].generation = 0 => entries[k].left = 0
  BY <1>1, WinnerAssumption DEF TypedRest, ERecord, IInv, GenerationsOK
<1>3. FreshState \in StateId /\ references[FreshState] = 0 /\ Deciders(FreshState) = {}
  BY FreshStateFree
<1>4. PICK s \in StateId :
        /\ s = (IF (IF Expired(k) THEN 0 ELSE decisions[k]) = 0 THEN FreshState ELSE decisions[k])
        /\ Expired(k) => Deciders(s) = {}
        /\ Deciders(s) = {} \/ decisions[k] = s
  BY <1>2, <1>3
<1> DEFINE had == Present(k) /\ ~Expired(k)
           z == [Fresh(k) EXCEPT !.st = st, !.state = s, !.expires = entries[k].left,
                                 !.hadEntry = had]
<1>5. /\ entries' = IF Expired(k) THEN [entries EXCEPT ![k] = NoEntry] ELSE entries
      /\ decisions' = [decisions EXCEPT ![k] = s]
      /\ references' = [references EXCEPT ![s] = references[s] + 1]
      /\ proc' = [proc EXCEPT ![p] = z]
      /\ Outdate(IF Expired(k) THEN {k} ELSE {}, p, {"token", "decision"})
      /\ nextGeneration' = nextGeneration
  BY <1>4 DEF BeginDecision
<1>6. /\ z \in PRecord /\ z.state = s /\ z.key = k /\ z.generation = 0 /\ z.st = st
      /\ z.expires = entries[k].left /\ z.hadEntry = had
  <2> DEFINE f == Fresh(k)
  <2>1. f \in PRecord /\ f.key = k /\ f.generation = 0
    BY FreshTyped
  <2>2. had \in BOOLEAN
    BY DEF Present, Expired
  <2> HIDE DEF f, had
  <2>3. LET y == [f EXCEPT !.st = st, !.state = s, !.expires = entries[k].left,
                                 !.hadEntry = had] IN
        /\ y \in PRecord /\ y.state = s /\ y.key = k /\ y.generation = 0 /\ y.st = st
        /\ y.expires = entries[k].left /\ y.hadEntry = had
    BY <1>2, <1>4, <2>1, <2>2 DEF PRecord, Steps
  <2> QED
    BY <2>3 DEF f
<1>7. RecordOK(z)
  BY <1>6, StatesAreNumbers DEF RecordOK, Deciding
<1> HIDE DEF z
<1>8. /\ proc' \in [Process -> PRecord] /\ StepsOK' /\ proc'[p] = z
      /\ \A q \in Process \ {p} : proc'[q] = proc[q]
  BY <1>5, <1>7, OneRecord
<1>9. NoEntry \in ERecord /\ NoEntry.generation = 0 /\ NoEntry.left = 0
  <2>1. 0 \in 0..TTL /\ 0 \in 0..MaxGen
    BY WinnerAssumption
  <2> QED
    BY <2>1 DEF NoEntry, ERecord
<1>10. PICK K \in SUBSET Key : K = IF Expired(k) THEN {k} ELSE {}
  OBVIOUS
<1>11. /\ \A o \in Key : entries'[o] = IF o \in K THEN NoEntry ELSE entries[o]
       /\ entries' \in [Key -> ERecord]
       /\ decisions'[k] = s /\ \A o \in Key \ {k} : decisions'[o] = decisions[o]
       /\ decisions' \in [Key -> {0} \cup StateId]
  BY <1>1, <1>5, <1>9, <1>10 DEF TypedRest
<1>12. /\ \A q \in Process \ {p} :
             dirty'[q] = IF proc[q].key \in K THEN Views(q) ELSE dirty[q]
       /\ dirty'[p] = {}
       /\ dirty' \in [Process -> SUBSET {"token", "decision"}]
  <2>1. Outdate(K, p, {"token", "decision"})
    BY <1>5, <1>10
  <2> QED
    BY <1>1, <2>1 DEF Outdate, Views, TypedRest
<1>13. TypedRest'
  <2>1. references' \in [StateId -> Int]
    BY <1>1, <1>5 DEF TypedRest
  <2> QED
    BY <1>1, <1>5, <1>8, <1>11, <1>12, <2>1 DEF TypedRest
<1>14. EntryEffect(K)
  BY <1>5, <1>11 DEF EntryEffect
<1>15. ASSUME NEW q \in Process PROVE TokenKept(q, K) /\ DecisionKept(q, K)
  <2>1. CASE q # p
    <3>1. TokenKept(q, K)
      BY <1>8, <1>12, <2>1 DEF TokenKept, Views
    <3>2. CASE proc[q].state = 0
      BY <1>8, <2>1, <3>1, <3>2 DEF DecisionKept
    <3>3. CASE proc[q].state # 0
      <4>1. proc[q].key \in Key
        BY <1>1 DEF TypedRest, PRecord
      <4>2. Deciders(s) = {} => proc[q].state # s
        BY DEF Deciders
      <4>3. decisions'[proc[q].key] = proc[q].state
              <=> decisions[proc[q].key] = proc[q].state /\ proc[q].key \notin K
        <5>1. CASE proc[q].key # k
          BY <1>10, <1>11, <4>1, <5>1
        <5>2. CASE proc[q].key = k /\ Expired(k)
          BY <1>4, <1>10, <1>11, <4>2, <5>2
        <5>3. CASE proc[q].key = k /\ ~Expired(k)
          BY <1>3, <1>4, <1>10, <1>11, <3>3, <4>2, <5>3
        <5> QED
          BY <5>1, <5>2, <5>3
      <4>4. "decision" \in dirty'[q] <=> (proc[q].key \in K \/ "decision" \in dirty[q])
        BY <1>12, <2>1, <3>3 DEF Views
      <4> QED
        BY <1>8, <2>1, <3>1, <4>3, <4>4 DEF DecisionKept
    <3> QED
      BY <3>2, <3>3
  <2>2. CASE q = p
    <3>1. TokenKept(p, K)
      BY <1>6, <1>8 DEF TokenKept
    <3>2. /\ z.expires = entries'[k].left
          /\ z.hadEntry <=> entries'[k].generation # 0
          /\ z.hadEntry => z.expires > 0
      <4>1. CASE Expired(k)
        <5>1. entries'[k] = NoEntry /\ entries[k].left = 0
          BY <1>10, <1>11, <4>1 DEF Expired
        <5>2. ~z.hadEntry /\ z.expires = 0
          BY <1>6, <4>1, <5>1
        <5> QED
          BY <1>9, <5>1, <5>2
      <4>2. CASE ~Expired(k)
        <5>1. entries'[k] = entries[k]
          BY <1>10, <1>11, <4>2
        <5>2. z.hadEntry <=> entries[k].generation # 0
          BY <1>6, <4>2 DEF Present
        <5>3. entries[k].generation # 0 => entries[k].left # 0
          BY <4>2 DEF Present, Expired
        <5>4. entries[k].generation # 0 => entries[k].left > 0
          BY <1>2, <5>3
        <5> QED
          BY <1>6, <5>1, <5>2, <5>4
      <4> QED
        BY <4>1, <4>2
    <3>3. DecisionKept(p, K)
      BY <1>6, <1>8, <1>11, <1>12, <3>2 DEF DecisionKept
    <3> QED
      BY <2>2, <3>1, <3>3
  <2> QED
    BY <2>1, <2>2
<1>16. ReferenceEffect(p)
  <2>1. \A q \in Process \ {p} : SameDecision(q)
    BY <1>8 DEF SameDecision
  <2>2. /\ proc[p].state = 0 /\ proc'[p].state = s /\ proc'[p].key = k
    BY <1>6, <1>8
  <2>3. decisions[k] = s \/ Deciders(s) = {}
    BY <1>4
  <2>4. Deciders(proc'[p].state) = Deciders(s)
    BY <2>2
  <2> QED
    BY <1>5, <1>11, <2>1, <2>2, <2>3, <2>4 DEF ReferenceEffect
<1>17. Entries' \in SUBSET Entries
  BY <1>9, <1>11 DEF Entries, Present
<1> QED
  BY <1>8, <1>13, <1>14, <1>15, <1>16, <1>17, RoomKept, PartsKeep

\* What a store evicts, and that the cache keeps its size.
LEMMA StoreKeepsRoom ==
    ASSUME IInv, NEW k \in Key, NEW V \in Victims(k), NEW e, e.generation # 0,
           \A o \in Key : entries'[o] = IF o = k THEN e ELSE IF o \in V THEN NoEntry ELSE entries[o]
    PROVE  RoomOK' /\ V \in SUBSET Key /\ k \notin V
<1>1. /\ Entries \in SUBSET Key /\ IsFiniteSet(Entries) /\ Cardinality(Entries) \in Nat
      /\ Cardinality(Entries) <= MaxEntries /\ MaxEntries \in Nat /\ MaxEntries > 0
  <2>1. Entries \in SUBSET Key
    BY DEF Entries
  <2>2. IsFiniteSet(Entries)
    BY <2>1, WinnerAssumption, FS_Subset
  <2> QED
    BY <2>1, <2>2, FS_CardinalityType, WinnerAssumption DEF IInv, RoomOK
<1>2. \A o \in Key : o \in Entries <=> entries[o].generation # 0
  BY DEF Entries, Present
<1>3. \A o \in Key : o \in Entries' <=> entries'[o].generation # 0
  BY DEF Entries, Present
<1>4. NoEntry.generation = 0
  BY DEF NoEntry
<1>5. \A o \in Key : o \in Entries' <=> o = k \/ (o \notin V /\ o \in Entries)
  BY <1>2, <1>3, <1>4
<1>6. Entries' \in SUBSET Key
  BY DEF Entries
<1>7. CASE V = {} /\ k \in Entries
  <2>1. Entries' = Entries
    BY <1>1, <1>5, <1>6, <1>7
  <2> QED
    BY <1>1, <1>7, <2>1 DEF RoomOK
<1>8. CASE V = {} /\ k \notin Entries /\ ~(Cardinality(Entries) >= MaxEntries)
  <2>1. Entries' = Entries \cup {k}
    BY <1>1, <1>5, <1>6, <1>8
  <2>2. Cardinality(Entries') = Cardinality(Entries) + 1
    BY <1>1, <1>8, <2>1, FS_AddElement
  <2> QED
    BY <1>1, <1>8, <2>2 DEF RoomOK
<1>9. CASE k \notin Entries /\ \E o \in Entries : V = {o}
  <2>1. PICK o \in Entries : V = {o}
    BY <1>9
  <2>2. Entries' = (Entries \ {o}) \cup {k}
    BY <1>1, <1>5, <1>6, <1>9, <2>1
  <2>3. IsFiniteSet(Entries \ {o}) /\ Cardinality(Entries \ {o}) = Cardinality(Entries) - 1
    BY <1>1, <2>1, FS_RemoveElement
  <2>4. Cardinality(Entries') = Cardinality(Entries) - 1 + 1
    BY <1>9, <2>2, <2>3, FS_AddElement
  <2> QED
    BY <1>1, <1>9, <2>1, <2>4 DEF RoomOK
<1>10. \/ V = {} /\ k \in Entries
       \/ V = {} /\ k \notin Entries /\ ~(Cardinality(Entries) >= MaxEntries)
       \/ k \notin Entries /\ \E o \in Entries : V = {o}
  BY DEF Victims, Entries, Present
<1> QED
  BY <1>7, <1>8, <1>9, <1>10

\* p stores a new winner for its key.
LEMMA StoreStep ==
    ASSUME IInv, NEW p \in Process, NEW a \in Target, NEW r, RecordOK(r),
           proc' = [proc EXCEPT ![p] = r], StoreWinner(p, proc[p].key, a), r.state = 0,
           \/ r.generation = 0
           \/ r.generation = nextGeneration + 1 /\ r.addr = a /\ r.key = proc[p].key,
           \/ proc[p].state = 0 /\ references' = references
           \/ proc[p].state # 0 /\ references' = ReferencesAfterRelease(proc[p].state)
    PROVE  IInv'
<1>1. /\ proc' \in [Process -> PRecord] /\ StepsOK' /\ proc'[p] = r
      /\ \A q \in Process \ {p} : proc'[q] = proc[q]
  BY OneRecord
<1>2. TypedRest
  BY TypesSplit DEF IInv
<1>3. PICK k \in Key : k = proc[p].key
  BY <1>2 DEF TypedRest, PRecord
<1>4. PICK e \in ERecord : e = NewEntry(k, a) /\ e.generation = nextGeneration + 1 /\ e.addr = a
  <2>1. nextGeneration \in Nat /\ nextGeneration + 1 \in 0..MaxGen /\ TTL \in 0..TTL
    BY <1>2, WinnerAssumption DEF TypedRest, StoreWinner
  <2>2. NewEntry(k, a) \in ERecord
    BY <2>1 DEF NewEntry, ERecord
  <2>3. NewEntry(k, a).generation = nextGeneration + 1 /\ NewEntry(k, a).addr = a
    BY DEF NewEntry
  <2> QED
    BY <2>2, <2>3
<1>5. /\ nextGeneration' = nextGeneration + 1 /\ nextGeneration' \in 0..MaxGen
      /\ nextGeneration + 1 # 0
  BY <1>2, WinnerAssumption DEF StoreWinner, TypedRest
<1>6. PICK V \in Victims(k) :
        /\ entries' = [o \in Key |-> IF o = k THEN e ELSE IF o \in V THEN NoEntry ELSE entries[o]]
        /\ decisions' = [o \in Key |-> IF o \in V \cup {k} THEN 0 ELSE decisions[o]]
        /\ Outdate(V \cup {k}, p, {"token", "decision"})
  BY <1>3, <1>4 DEF StoreWinner
<1>7. RoomOK' /\ V \in SUBSET Key /\ k \notin V
  BY <1>4, <1>5, <1>6, StoreKeepsRoom
<1>8. PICK K \in SUBSET Key : K = V \cup {k}
  BY <1>7
<1>9. NoEntry \in ERecord
  <2>1. 0 \in 0..TTL /\ 0 \in 0..MaxGen
    BY WinnerAssumption
  <2> QED
    BY <2>1 DEF NoEntry, ERecord
<1>10. /\ entries' \in [Key -> ERecord] /\ entries'[k] = e
       /\ \A o \in Key \ K : entries'[o] = entries[o] /\ decisions'[o] = decisions[o]
       /\ \A o \in K \ {k} : entries'[o] = NoEntry
       /\ \A o \in K : decisions'[o] = 0
       /\ decisions' \in [Key -> {0} \cup StateId]
  BY <1>2, <1>4, <1>6, <1>8, <1>9 DEF TypedRest
<1>11. /\ \A q \in Process \ {p} :
             dirty'[q] = IF proc[q].key \in K THEN Views(q) ELSE dirty[q]
       /\ dirty'[p] = {}
       /\ dirty' \in [Process -> SUBSET {"token", "decision"}]
  <2>1. Outdate(K, p, {"token", "decision"})
    BY <1>6, <1>8
  <2> QED
    BY <1>2, <2>1 DEF Outdate, Views, TypedRest
<1>12. TypedRest'
  <2>1. references' \in [StateId -> Int]
    BY <1>2 DEF TypedRest, ReferencesAfterRelease
  <2> QED
    BY <1>1, <1>2, <1>5, <1>10, <1>11, <2>1 DEF TypedRest
<1>13. EntryEffect(K)
  BY <1>4, <1>5, <1>10 DEF EntryEffect
<1>14. ASSUME NEW q \in Process PROVE TokenKept(q, K) /\ DecisionKept(q, K)
  <2>1. proc[q].key \in Key
    BY <1>2 DEF TypedRest, PRecord
  <2>2. CASE q # p
    <3>1. TokenKept(q, K)
      BY <1>1, <1>11, <2>2 DEF TokenKept, Views
    <3>2. DecisionKept(q, K)
      BY <1>1, <1>10, <1>11, <2>1, <2>2 DEF DecisionKept, Views
    <3> QED
      BY <3>1, <3>2
  <2>3. CASE q = p
    <3>1. TokenKept(p, K)
      BY <1>1, <1>3, <1>4, <1>10, <1>11 DEF TokenKept
    <3>2. DecisionKept(p, K)
      BY <1>1 DEF DecisionKept
    <3> QED
      BY <2>3, <3>1, <3>2
  <2> QED
    BY <2>2, <2>3
<1>15. ReferenceEffect(p)
  <2>1. \A q \in Process \ {p} : SameDecision(q)
    BY <1>1 DEF SameDecision
  <2>2. \A o \in Key : decisions'[o] \in {decisions[o], 0}
    BY <1>8, <1>10
  <2>3. CASE proc[p].state = 0 /\ references' = references
    BY <1>1, <2>1, <2>2, <2>3 DEF ReferenceEffect, SameDecision
  <2>4. CASE proc[p].state # 0 /\ references' = ReferencesAfterRelease(proc[p].state)
    <3>1. decisions'[proc[p].key] # proc[p].state
      BY <1>3, <1>8, <1>10, <2>4
    <3> QED
      BY <1>1, <2>1, <2>2, <2>4, <3>1 DEF ReferenceEffect, ReferencesAfterRelease
  <2> QED
    BY <2>3, <2>4
<1> QED
  BY <1>1, <1>7, <1>12, <1>13, <1>14, <1>15, PartsKeep

LEMMA TickKeeps ==
    ASSUME IInv, Tick
    PROVE  IInv'
<1>1. TypedRest
  BY TypesSplit DEF IInv
<1>2. PICK p \in Process : TRUE
  BY AnyKeyIsKey DEF Process
<1>3. ASSUME NEW k \in Key
      PROVE  /\ entries[k] \in ERecord /\ entries'[k] \in ERecord
             /\ entries'[k].generation = entries[k].generation
             /\ entries'[k].addr = entries[k].addr
             /\ entries[k].left \in Nat
             /\ entries'[k].left = IF entries[k].left > 0 THEN entries[k].left - 1 ELSE 0
             /\ entries[k].generation = 0 => entries[k].left = 0
  <2>1. entries[k] \in ERecord /\ (entries[k].generation = 0 => entries[k].left = 0)
    BY <1>1 DEF TypedRest, IInv, GenerationsOK
  <2>2. entries[k].left \in 0..TTL /\ TTL \in Nat
    BY <2>1, WinnerAssumption DEF ERecord
  <2>3. CASE entries[k].left > 0
    <3>1. entries'[k] = [entries[k] EXCEPT !.left = entries[k].left - 1]
      BY <2>3 DEF Tick
    <3>2. entries[k].left - 1 \in 0..TTL
      BY <2>2, <2>3
    <3> QED
      BY <2>1, <2>2, <2>3, <3>1, <3>2 DEF ERecord
  <2>4. CASE ~(entries[k].left > 0)
    <3>1. entries'[k] = entries[k] /\ entries[k].left = 0
      BY <2>2, <2>4 DEF Tick
    <3> QED
      BY <2>1, <2>2, <2>4, <3>1
  <2> QED
    BY <2>3, <2>4
<1>4. ASSUME NEW q \in Process
      PROVE  /\ proc'[q] \in PRecord /\ proc'[q].st = proc[q].st /\ proc'[q].key = proc[q].key
             /\ proc'[q].addr = proc[q].addr /\ proc'[q].generation = proc[q].generation
             /\ proc'[q].state = proc[q].state /\ proc'[q].hadEntry = proc[q].hadEntry
             /\ proc'[q].expires = IF proc[q].expires > 0 THEN proc[q].expires - 1 ELSE 0
             /\ proc[q].expires \in Nat /\ proc[q].key \in Key
             /\ proc[q].hadEntry \in BOOLEAN
  <2> DEFINE n == IF proc[q].expires > 0 THEN proc[q].expires - 1 ELSE 0
  <2>1. proc[q] \in PRecord
    BY <1>1 DEF TypedRest
  <2>2. proc[q].expires \in 0..TTL /\ TTL \in Nat
    BY <2>1, WinnerAssumption DEF PRecord
  <2>3. n \in 0..TTL
    BY <2>2
  <2>4. proc'[q] = [proc[q] EXCEPT !.expires = n]
    BY DEF Tick
  <2> HIDE DEF n
  <2>5. /\ proc'[q] \in PRecord /\ proc'[q].st = proc[q].st /\ proc'[q].key = proc[q].key
        /\ proc'[q].addr = proc[q].addr /\ proc'[q].generation = proc[q].generation
        /\ proc'[q].state = proc[q].state /\ proc'[q].hadEntry = proc[q].hadEntry
        /\ proc'[q].expires = n
    BY <2>1, <2>3, <2>4 DEF PRecord
  <2>6. proc[q].key \in Key /\ proc[q].hadEntry \in BOOLEAN
    BY <2>1 DEF PRecord
  <2> QED
    BY <2>2, <2>5, <2>6 DEF n
<1>5. /\ UNCHANGED <<nextGeneration, decisions, references>>
      /\ DOMAIN proc' = Process /\ DOMAIN entries' = Key
  BY DEF Tick
<1>6. ASSUME NEW q \in Process
      PROVE  /\ "token" \in dirty'[q] <=> "token" \in dirty[q]
             /\ proc[q].state # 0 =>
                  ("decision" \in dirty'[q]
                     <=> "decision" \in dirty[q] \/ entries[proc[q].key].left = 1)
  BY DEF Tick, Views
<1>7. TypedRest'
  <2>1. entries' \in [Key -> ERecord]
    BY <1>3 DEF Tick
  <2>2. proc' \in [Process -> PRecord]
    BY <1>4 DEF Tick
  <2>3. dirty' \in [Process -> SUBSET {"token", "decision"}]
    BY <1>1 DEF Tick, Views, TypedRest
  <2> QED
    BY <1>1, <1>5, <2>1, <2>2, <2>3 DEF TypedRest
<1>8. StepsOK'
  BY <1>4 DEF IInv, StepsOK, Deciding
<1>9. GenerationsOK'
  <2>1. ASSUME NEW k \in Key
        PROVE  /\ entries'[k].generation <= nextGeneration'
               /\ entries'[k].generation = 0 => entries'[k].left = 0
    BY <1>3, <1>5 DEF IInv, GenerationsOK
  <2>2. ASSUME NEW q \in Process
        PROVE  /\ proc'[q].generation <= nextGeneration'
               /\ proc'[q].generation # 0
                    /\ entries'[proc'[q].key].generation = proc'[q].generation
                    => entries'[proc'[q].key].addr = proc'[q].addr
    BY <1>3, <1>4, <1>5 DEF IInv, GenerationsOK
  <2> QED
    BY <2>1, <2>2 DEF GenerationsOK
<1>10. TokenExact'
  <2> SUFFICES ASSUME NEW q \in Process, proc'[q].generation # 0
               PROVE  (/\ entries'[proc'[q].key].generation = proc'[q].generation
                       /\ entries'[proc'[q].key].addr = proc'[q].addr)
                        <=> "token" \notin dirty'[q]
    BY DEF TokenExact, TokenCurrent
  <2>1. (/\ entries[proc[q].key].generation = proc[q].generation
         /\ entries[proc[q].key].addr = proc[q].addr) <=> "token" \notin dirty[q]
    BY <1>4 DEF IInv, TokenExact, TokenCurrent
  <2> QED
    BY <1>3, <1>4, <1>6, <2>1
<1>11. ASSUME NEW q \in Process, proc'[q].state # 0
       PROVE  /\ decisions'[proc'[q].key] = proc'[q].state
                   => /\ proc'[q].expires = entries'[proc'[q].key].left
                      /\ proc'[q].hadEntry <=> entries'[proc'[q].key].generation # 0
              /\ (/\ decisions'[proc'[q].key] = proc'[q].state
                  /\ proc'[q].hadEntry => proc'[q].expires > 0)
                   <=> "decision" \notin dirty'[q]
  <2> DEFINE k == proc[q].key
  <2>1. /\ decisions[k] = proc[q].state
             => /\ proc[q].expires = entries[k].left
                /\ proc[q].hadEntry <=> entries[k].generation # 0
        /\ (/\ decisions[k] = proc[q].state
            /\ proc[q].hadEntry => proc[q].expires > 0)
             <=> "decision" \notin dirty[q]
    BY <1>4, <1>11 DEF IInv, SeesEntry, CurrentIsClean, DecisionCurrent, Present
  <2>2. /\ proc'[q].key = k /\ proc'[q].state = proc[q].state /\ decisions' = decisions
        /\ proc'[q].hadEntry = proc[q].hadEntry /\ k \in Key /\ proc[q].state # 0
    BY <1>4, <1>5, <1>11
  <2>3. "decision" \in dirty'[q] <=> "decision" \in dirty[q] \/ entries[k].left = 1
    BY <1>6, <2>2
  <2> HIDE DEF k
  <2>4. CASE decisions[k] # proc[q].state
    BY <2>1, <2>2, <2>3, <2>4
  <2>5. CASE decisions[k] = proc[q].state
    <3>1. proc'[q].expires = entries'[k].left
      BY <1>3, <1>4, <2>1, <2>2, <2>5
    <3>2. proc[q].hadEntry <=> entries'[k].generation # 0
      BY <1>3, <2>1, <2>2, <2>5
    <3>3. entries[k].left = 1 => proc[q].hadEntry /\ entries'[k].left = 0
      BY <1>3, <2>1, <2>2, <2>5
    <3>4. entries[k].left # 1 => (entries'[k].left > 0 <=> entries[k].left > 0)
      BY <1>3, <2>2
    <3>5. ~(0 > 0)
      OBVIOUS
    <3> QED
      BY <2>1, <2>2, <2>3, <2>5, <3>1, <3>2, <3>3, <3>4, <3>5
  <2> QED
    BY <2>4, <2>5
<1>12. SeesEntry' /\ CurrentIsClean'
  BY <1>11 DEF SeesEntry, CurrentIsClean, DecisionCurrent, Present
<1>13. ReferenceEffect(p)
  <2>1. \A q \in Process : SameDecision(q)
    BY <1>4 DEF SameDecision
  <2> QED
    BY <1>5, <2>1 DEF ReferenceEffect
<1>14. ReferencesOK' /\ OwnKey' /\ NoTombstone'
  BY <1>7, <1>13, ReferencesKeep
<1>15. RoomOK'
  <2>1. Entries' = Entries
    BY <1>3 DEF Entries, Present
  <2> QED
    BY <2>1, RoomKept
<1> QED
  BY <1>7, <1>8, <1>9, <1>10, <1>12, <1>14, <1>15, TypesFollow DEF IInv

-----------------------------------------------------------------------------
(* The actions. *)

\* deleteBoostWinnerIfCurrent, whether the token is current or not.
LEMMA DeleteIfCurrentKeeps ==
    ASSUME IInv, NEW p \in Process, NEW r, RecordOK(r), SameView(p, r), r.generation = 0,
           DeleteIfCurrent(p, r)
    PROVE  IInv'
<1>1. CASE TokenCurrent(p)
  BY <1>1, DeleteStep DEF DeleteIfCurrent
<1>2. CASE ~TokenCurrent(p)
  <2>1. dirty \in [Process -> SUBSET {"token", "decision"}]
    BY TypesSplit DEF IInv, TypedRest
  <2>2. dirty' = [dirty EXCEPT ![p] = dirty[p] \ {"token"}]
    BY <1>2 DEF DeleteIfCurrent
  <2>3. /\ dirty' \in [Process -> SUBSET {"token", "decision"}]
        /\ \A q \in Process \ {p} : dirty'[q] = dirty[q]
        /\ "decision" \in dirty'[p] <=> "decision" \in dirty[p]
    BY <2>1, <2>2
  <2> QED
    BY <1>2, <2>3, LocalStep DEF DeleteIfCurrent
<1> QED
  BY <1>1, <1>2

\* The record of p without its token.
LEMMA NoTokenTyped ==
    ASSUME NEW r \in PRecord
    PROVE  LET n == NoToken(r) IN
           /\ n \in PRecord /\ n.generation = 0 /\ n.st = r.st /\ n.state = r.state
           /\ n.key = r.key /\ n.expires = r.expires /\ n.hadEntry = r.hadEntry
<1>1. 0 \in 0..MaxGen
  BY WinnerAssumption
<1> QED
  BY <1>1 DEF NoToken, PRecord

LEMMA AfterTyped ==
    ASSUME IInv, NEW p \in Process, NEW done \in {"idle", "relaying"}
    PROVE  LET f == After(p, done) IN
           /\ RecordOK(f) /\ f.state = 0 /\ f.generation = 0 /\ f.st = done
           /\ done = "relaying" => f.key = proc[p].key
<1>1. CASE done = "idle"
  BY <1>1, IdleTyped DEF After
<1>2. CASE done = "relaying"
  <2> DEFINE g == Fresh(proc[p].key)
  <2>1. proc[p].key \in Key
    BY ProcFacts DEF RecordOK, PRecord
  <2>2. g \in PRecord /\ g.state = 0 /\ g.generation = 0 /\ g.key = proc[p].key
    BY <2>1, FreshTyped
  <2>3. After(p, done) = [g EXCEPT !.st = "relaying"]
    BY <1>2 DEF After
  <2> HIDE DEF g
  <2>4. LET f == [g EXCEPT !.st = "relaying"] IN
        /\ f \in PRecord /\ f.state = 0 /\ f.generation = 0 /\ f.key = proc[p].key
        /\ f.st = "relaying"
    BY <2>2 DEF PRecord, Steps
  <2> QED
    BY <1>2, <2>3, <2>4 DEF RecordOK, Deciding
<1> QED
  BY <1>1, <1>2

\* The record of p with the token of the entry it has just stored.
LEMMA WithTokenTyped ==
    ASSUME IInv, NEW r, RecordOK(r), r.state = 0, r.st \in {"idle", "relaying"},
           r.st = "idle" => r.generation = 0, NEW a \in Target, nextGeneration < MaxGen
    PROVE  LET w == WithToken(r, a) IN
           /\ RecordOK(w) /\ w.state = 0
           /\ w.generation = 0 \/ (w.generation = nextGeneration + 1 /\ w.addr = a /\ w.key = r.key)
<1>1. CASE r.st = "idle"
  BY <1>1 DEF WithToken
<1>2. CASE r.st = "relaying"
  <2>1. nextGeneration + 1 \in 0..MaxGen
    BY WinnerAssumption DEF IInv, TypeOK
  <2>2. WithToken(r, a) = [r EXCEPT !.addr = a, !.generation = nextGeneration + 1]
    BY <1>2 DEF WithToken
  <2>3. LET w == [r EXCEPT !.addr = a, !.generation = nextGeneration + 1] IN
        /\ w \in PRecord /\ w.state = 0 /\ w.st = "relaying" /\ w.key = r.key
        /\ w.generation = nextGeneration + 1 /\ w.addr = a
    BY <1>2, <2>1 DEF RecordOK, PRecord
  <2> QED
    BY <2>2, <2>3 DEF RecordOK, Deciding
<1> QED
  BY <1>1, <1>2

\* Dropping the token, or both views of a process that is not deciding.
LEMMA DropKeeps ==
    ASSUME IInv, NEW p \in Process, NEW r, RecordOK(r), SameView(p, r), r.generation = 0,
           proc' = [proc EXCEPT ![p] = r],
           UNCHANGED <<entries, nextGeneration, decisions, references>>,
           \/ dirty' = [dirty EXCEPT ![p] = dirty[p] \ {"token"}]
           \/ dirty' = [dirty EXCEPT ![p] = {}] /\ r.state = 0
    PROVE  IInv'
<1>1. dirty \in [Process -> SUBSET {"token", "decision"}]
  BY TypesSplit DEF IInv, TypedRest
<1>2. /\ dirty' \in [Process -> SUBSET {"token", "decision"}]
      /\ \A q \in Process \ {p} : dirty'[q] = dirty[q]
      /\ r.state # 0 => ("decision" \in dirty'[p] <=> "decision" \in dirty[p])
  BY <1>1
<1> QED
  BY <1>2, LocalStep

\* The fields of the records that are not deciding.
LEMMA StageFacts ==
    ASSUME IInv, NEW p \in Process
    PROVE  /\ proc[p].state # 0 => proc[p].st \in Deciding
           /\ proc[p].st = "racing" => proc[p].state # 0
           /\ proc[p].st \notin {"loaded", "cached", "relaying"} => proc[p].generation = 0
           /\ proc[p] \in PRecord /\ proc[p].key \in Key
BY ProcFacts DEF RecordOK, PRecord

LEMMA PublishKeeps ==
    ASSUME IInv, NEW p \in Process, NEW a \in Target, NEW done \in {"idle", "relaying"},
           Publish(p, a, done)
    PROVE  IInv'
<1>1. proc[p].state # 0
  BY StageFacts DEF Publish, Deciding
<1>2. /\ RecordOK(After(p, done)) /\ After(p, done).state = 0 /\ After(p, done).generation = 0
      /\ After(p, done).st = done
      /\ done = "relaying" => After(p, done).key = proc[p].key
  BY AfterTyped
<1>3. CASE /\ DecisionCurrent(p)
           /\ references' = ReferencesAfterRelease(proc[p].state)
           /\ StoreWinner(p, proc[p].key, a)
           /\ proc' = [proc EXCEPT ![p] = WithToken(After(p, done), a)]
  <2> DEFINE f == After(p, done)
             w == WithToken(f, a)
  <2>1. nextGeneration < MaxGen
    BY <1>3 DEF StoreWinner
  <2> HIDE DEF f
  <2>2. RecordOK(f) /\ f.state = 0 /\ f.st \in {"idle", "relaying"} /\ f.generation = 0
        /\ f.st = done /\ (done = "relaying" => f.key = proc[p].key)
    BY <1>2 DEF f
  <2>3. /\ RecordOK(w) /\ w.state = 0
        /\ w.generation = 0 \/ (w.generation = nextGeneration + 1 /\ w.addr = a /\ w.key = f.key)
    BY <2>1, <2>2, WithTokenTyped
  <2>4. w.generation # 0 => done = "relaying"
    BY <2>2 DEF WithToken
  <2>5. proc' = [proc EXCEPT ![p] = w]
    BY <1>3 DEF f
  <2> HIDE DEF w
  <2>6. w.generation = 0 \/ (w.generation = nextGeneration + 1 /\ w.addr = a /\ w.key = proc[p].key)
    BY <2>2, <2>3, <2>4
  <2> QED
    BY <1>1, <1>3, <2>3, <2>5, <2>6, StoreStep
<1>4. CASE /\ ReleaseDecision(p, After(p, done))
           /\ UNCHANGED <<entries, nextGeneration>>
  <2>1. After(p, done) \in PRecord /\ After(p, done).st \notin Deciding
    BY <1>2 DEF RecordOK, Deciding
  <2> QED
    BY <1>1, <1>2, <1>4, <2>1, ReleaseStep
<1> QED
  BY <1>3, <1>4 DEF Publish

LEMMA RaceLostKeeps ==
    ASSUME IInv, NEW p \in Process, RaceLost(p)
    PROVE  IInv'
<1>1. proc[p].state # 0
  BY StageFacts DEF RaceLost, Deciding
<1>2. Idle(p) \in PRecord /\ Idle(p).st \notin Deciding /\ Idle(p).generation = 0
  BY IdleTyped DEF RecordOK, Deciding
<1> QED
  BY <1>1, <1>2, ReleaseStep DEF RaceLost

LEMMA LoadKeeps ==
    ASSUME IInv, NEW p \in Process, LoadToken(p)
    PROVE  IInv'
<1> DEFINE m == At(p, "missed")
           k == proc[p].key
<1>1. proc[p].st = "begun" /\ proc[p].generation = 0 /\ k \in Key
  BY StageFacts DEF LoadToken
<1>2. /\ m \in PRecord /\ m.st = "missed" /\ m.state = proc[p].state /\ m.key = proc[p].key
      /\ m.expires = proc[p].expires /\ m.hadEntry = proc[p].hadEntry
      /\ m.generation = proc[p].generation /\ m.addr = proc[p].addr
  BY AtTyped DEF Steps
<1>3. RecordOK(m) /\ SameView(p, m) /\ m.generation = 0
  BY <1>1, <1>2 DEF RecordOK, Deciding, SameView
<1> HIDE DEF m
<1>4. dirty \in [Process -> SUBSET {"token", "decision"}]
  BY TypesSplit DEF IInv, TypedRest
<1>5. CASE /\ proc' = [proc EXCEPT ![p] = m]
           /\ UNCHANGED <<entries, decisions, dirty, nextGeneration, references>>
  BY <1>3, <1>4, <1>5, LocalStep
<1>6. CASE /\ proc' = [proc EXCEPT ![p] = m]
           /\ deleteBoostWinnerLocked(k) /\ Outdate({k}, p, {"token"})
           /\ UNCHANGED <<nextGeneration, references>>
  BY <1>3, <1>6, DeleteStep
<1>7. CASE /\ Present(k)
           /\ proc' = [proc EXCEPT ![p] = [At(p, "loaded") EXCEPT
                         !.addr = entries[k].addr, !.generation = entries[k].generation]]
           /\ dirty' = [dirty EXCEPT ![p] = dirty[p] \ {"token"}]
           /\ UNCHANGED <<entries, decisions, nextGeneration, references>>
  <2> DEFINE l == At(p, "loaded")
             r == [l EXCEPT !.addr = entries[k].addr, !.generation = entries[k].generation]
  <2>1. /\ l \in PRecord /\ l.st = "loaded" /\ l.state = proc[p].state /\ l.key = proc[p].key
        /\ l.expires = proc[p].expires /\ l.hadEntry = proc[p].hadEntry
    BY AtTyped DEF Steps
  <2>2. entries[k].addr \in Target \cup {NoTarget} /\ entries[k].generation \in 0..MaxGen
    BY <1>1, TypesSplit DEF IInv, TypedRest, ERecord
  <2> HIDE DEF l
  <2>3. /\ r \in PRecord /\ r.st = "loaded" /\ r.state = proc[p].state /\ r.key = proc[p].key
        /\ r.expires = proc[p].expires /\ r.hadEntry = proc[p].hadEntry
        /\ r.addr = entries[k].addr /\ r.generation = entries[k].generation
    BY <2>1, <2>2 DEF PRecord
  <2>4. proc' = [proc EXCEPT ![p] = r]
    BY <1>7 DEF l
  <2> HIDE DEF r
  <2>5. RecordOK(r) /\ SameView(p, r)
    BY <1>1, <2>3 DEF RecordOK, Deciding, SameView
  <2>6. /\ dirty' \in [Process -> SUBSET {"token", "decision"}]
        /\ \A q \in Process \ {p} : dirty'[q] = dirty[q]
        /\ "decision" \in dirty'[p] <=> "decision" \in dirty[p]
        /\ "token" \notin dirty'[p]
    BY <1>4, <1>7
  <2>7. /\ entries[r.key].generation = r.generation /\ entries[r.key].addr = r.addr
    BY <2>3
  <2> QED
    BY <1>7, <2>4, <2>5, <2>6, <2>7, LocalStep
<1> QED
  BY <1>5, <1>6, <1>7 DEF LoadToken, m

LEMMA BeginsKeep ==
    ASSUME IInv, NEW p \in Process, NEW k \in Key, NEW st \in {"begun", "racing"},
           proc[p].st \in {"idle", "released", "starting"}, BeginDecision(p, k, st)
    PROVE  IInv'
<1>1. proc[p].state = 0
  BY StageFacts DEF Deciding
<1> QED
  BY <1>1, BeginStep

LEMMA NothingDueKeeps ==
    ASSUME IInv, NEW p \in Process, NEW k \in Key, NothingDue(p, k)
    PROVE  IInv'
<1>1. proc[p].state = 0
  BY StageFacts DEF NothingDue, Deciding
<1>2. RecordOK(Fresh(k)) /\ SameView(p, Fresh(k)) /\ Fresh(k).generation = 0 /\ Fresh(k).state = 0
  BY <1>1, FreshTyped DEF RecordOK, SameView
<1>3. dirty \in [Process -> SUBSET {"token", "decision"}]
  BY TypesSplit DEF IInv, TypedRest
<1> QED
  BY <1>2, <1>3, LocalStep DEF NothingDue

LEMMA ClaimedKeeps ==
    ASSUME IInv, NEW p \in Process, ClaimedRecovery(p)
    PROVE  IInv'
<1> DEFINE m == At(p, "racing")
<1>1. proc[p].st = "begun" /\ proc[p].state # 0 /\ proc[p].generation = 0
  BY StageFacts DEF ClaimedRecovery, Deciding
<1>2. /\ m \in PRecord /\ m.st = "racing" /\ m.state = proc[p].state /\ m.key = proc[p].key
      /\ m.expires = proc[p].expires /\ m.hadEntry = proc[p].hadEntry
      /\ m.generation = proc[p].generation
  BY AtTyped DEF Steps
<1>3. proc' = [proc EXCEPT ![p] = m]
  BY DEF ClaimedRecovery
<1> HIDE DEF m
<1>4. RecordOK(m) /\ SameView(p, m) /\ m.generation = 0
  BY <1>1, <1>2 DEF RecordOK, Deciding, SameView
<1>5. dirty \in [Process -> SUBSET {"token", "decision"}]
  BY TypesSplit DEF IInv, TypedRest
<1> QED
  BY <1>3, <1>4, <1>5, LocalStep DEF ClaimedRecovery

LEMMA UsesCachedKeeps ==
    ASSUME IInv, NEW p \in Process, UsesCached(p)
    PROVE  IInv'
<1> DEFINE m == At(p, "cached")
<1>2. /\ m \in PRecord /\ m.st = "cached" /\ SameToken(p, m)
  BY AtTyped DEF Steps, SameToken
<1>3. ReleaseDecision(p, m) /\ UNCHANGED <<entries, nextGeneration>>
  BY DEF UsesCached
<1> HIDE DEF m
<1>4. m.st \notin Deciding
  BY <1>2 DEF Deciding
<1> QED
  BY <1>2, <1>3, <1>4, ReleaseStep

LEMMA DropsViewKeeps ==
    ASSUME IInv, NEW p \in Process, DropsView(p)
    PROVE  IInv'
<1> DEFINE m == At(p, "released")
<1>1. proc[p].generation = 0
  BY StageFacts DEF DropsView
<1>2. m \in PRecord /\ m.st = "released" /\ m.generation = 0
  BY <1>1, AtTyped DEF Steps
<1>3. ReleaseDecision(p, m) /\ UNCHANGED <<entries, nextGeneration>>
  BY DEF DropsView
<1> HIDE DEF m
<1>4. m.st \notin Deciding
  BY <1>2 DEF Deciding
<1> QED
  BY <1>1, <1>2, <1>3, <1>4, ReleaseStep

\* The record with which p goes on at st when it has dropped its token.
LEMMA WithoutToken ==
    ASSUME IInv, NEW p \in Process, NEW st \in Steps,
           proc[p].state # 0 => st \in Deciding, st # "racing"
    PROVE  LET n == NoToken(At(p, st)) IN
           RecordOK(n) /\ SameView(p, n) /\ n.generation = 0
<1> DEFINE m == At(p, st)
           n == NoToken(m)
<1>1. /\ m \in PRecord /\ m.st = st /\ m.state = proc[p].state /\ m.key = proc[p].key
      /\ m.expires = proc[p].expires /\ m.hadEntry = proc[p].hadEntry
  BY AtTyped
<1> HIDE DEF m
<1>2. /\ n \in PRecord /\ n.generation = 0 /\ n.st = m.st /\ n.state = m.state
      /\ n.key = m.key /\ n.expires = m.expires /\ n.hadEntry = m.hadEntry
  BY <1>1, NoTokenTyped
<1> HIDE DEF n
<1>3. RecordOK(n) /\ SameView(p, n) /\ n.generation = 0
  BY <1>1, <1>2 DEF RecordOK, SameView
<1> QED
  BY <1>3 DEF n, m

LEMMA EvictsKeeps ==
    ASSUME IInv, NEW p \in Process, EvictsUnusable(p)
    PROVE  IInv'
<1> DEFINE n == NoToken(At(p, "missed"))
<1>2. "missed" \in Steps /\ "missed" \in Deciding
  BY DEF Steps, Deciding
<1>3. RecordOK(n) /\ SameView(p, n) /\ n.generation = 0
  BY <1>2, WithoutToken
<1>4. DeleteIfCurrent(p, n)
  BY DEF EvictsUnusable
<1> HIDE DEF n
<1> QED
  BY <1>3, <1>4, DeleteIfCurrentKeeps

\* A connection that ends, with or without a deletion.
LEMMA EndsKeep ==
    ASSUME IInv, NEW p \in Process, proc[p].st \in {"cached", "relaying"},
           \/ DeleteIfCurrent(p, Idle(p))
           \/ /\ proc' = [proc EXCEPT ![p] = Idle(p)]
              /\ dirty' = [dirty EXCEPT ![p] = {}]
              /\ UNCHANGED <<entries, nextGeneration, decisions, references>>
    PROVE  IInv'
<1>1. proc[p].state = 0
  BY StageFacts DEF Deciding
<1>2. RecordOK(Idle(p)) /\ SameView(p, Idle(p)) /\ Idle(p).generation = 0 /\ Idle(p).state = 0
  BY <1>1, IdleTyped DEF SameView
<1>3. CASE DeleteIfCurrent(p, Idle(p))
  BY <1>2, <1>3, DeleteIfCurrentKeeps
<1>4. CASE /\ proc' = [proc EXCEPT ![p] = Idle(p)]
           /\ dirty' = [dirty EXCEPT ![p] = {}]
           /\ UNCHANGED <<entries, nextGeneration, decisions, references>>
  BY <1>2, <1>4, DropKeeps
<1> QED
  BY <1>3, <1>4

\* The relay of a winner that is not the cached one.
LEMMA NeutralKeeps ==
    ASSUME IInv, NEW p \in Process, proc[p].st = "cached",
           proc' = [proc EXCEPT ![p] = NoToken(At(p, "relaying"))],
           dirty' = [dirty EXCEPT ![p] = dirty[p] \ {"token"}],
           UNCHANGED <<entries, nextGeneration, decisions, references>>
    PROVE  IInv'
<1> DEFINE n == NoToken(At(p, "relaying"))
<1>1. proc[p].state = 0 /\ "relaying" \in Steps /\ "relaying" \notin Deciding
  BY StageFacts DEF Deciding, Steps
<1>2. RecordOK(n) /\ SameView(p, n) /\ n.generation = 0
  BY <1>1, WithoutToken
<1>3. proc' = [proc EXCEPT ![p] = n]
  OBVIOUS
<1> HIDE DEF n
<1> QED
  BY <1>2, <1>3, DropKeeps

LEMMA FallbackKeeps ==
    ASSUME IInv, NEW p \in Process, NEW a \in Target, FallbackWon(p, a)
    PROVE  IInv'
<1>1. proc[p].st = "cached" /\ references' = references
  BY DEF FallbackWon
<1>2. CASE /\ StoreWinner(p, proc[p].key, a)
           /\ proc' = [proc EXCEPT ![p] = WithToken(At(p, "relaying"), a)]
  <2> DEFINE m == At(p, "relaying")
             w == WithToken(m, a)
  <2>1. proc[p].state = 0 /\ nextGeneration < MaxGen
    BY <1>1, <1>2, StageFacts DEF Deciding, StoreWinner
  <2>2. m \in PRecord /\ m.st = "relaying" /\ m.state = 0 /\ m.key = proc[p].key
    BY <2>1, AtTyped DEF Steps
  <2>3. proc' = [proc EXCEPT ![p] = w]
    BY <1>2
  <2> HIDE DEF m
  <2>4. RecordOK(m)
    BY <2>2 DEF RecordOK, Deciding
  <2>5. /\ RecordOK(w) /\ w.state = 0
        /\ w.generation = 0 \/ (w.generation = nextGeneration + 1 /\ w.addr = a /\ w.key = m.key)
    BY <2>1, <2>2, <2>4, WithTokenTyped
  <2> HIDE DEF w
  <2> QED
    BY <1>1, <1>2, <2>1, <2>2, <2>3, <2>5, StoreStep
<1>3. CASE /\ proc' = [proc EXCEPT ![p] = NoToken(At(p, "relaying"))]
           /\ dirty' = [dirty EXCEPT ![p] = dirty[p] \ {"token"}]
           /\ UNCHANGED <<entries, nextGeneration, decisions>>
  BY <1>1, <1>3, NeutralKeeps
<1> QED
  BY <1>2, <1>3 DEF FallbackWon

\* The hit may start the rule's lazy job, which is not the request.
LEMMA CacheHitKeeps ==
    ASSUME IInv, NEW p \in Request, CacheHit(p)
    PROVE  IInv'
<1> DEFINE k == proc[p].key
           m == At(p, "relaying")
           j == At(k, "starting")
<1>1. p \in Process /\ k \in Key /\ k \in Process /\ p # k
  BY StageFacts, WinnerAssumption DEF Process
<1>2. proc[p].st = "cached" /\ proc[p].state = 0
  BY <1>1, StageFacts DEF CacheHit, Deciding
<1>3. PICK lazy \in BOOLEAN :
        /\ lazy => proc[k].st = "idle"
        /\ proc' = [proc EXCEPT ![p] = m, ![k] = IF lazy THEN j ELSE @]
  BY DEF CacheHit
<1>4. /\ m \in PRecord /\ m.st = "relaying" /\ m.state = 0 /\ SameToken(p, m)
  BY <1>1, <1>2, AtTyped DEF Steps, SameToken
<1>5. /\ j \in PRecord /\ j.st = "starting" /\ j.state = proc[k].state /\ SameToken(k, j)
  BY <1>1, AtTyped DEF Steps, SameToken
<1>6. lazy => proc[k].state = 0 /\ proc[k].generation = 0
  BY <1>1, <1>3, StageFacts DEF Deciding
<1>7. proc \in [Process -> PRecord]
  BY TypesSplit DEF IInv, TypedRest
<1> HIDE DEF k, m, j
<1>8. /\ proc'[p] = m /\ proc'[k] = IF lazy THEN j ELSE proc[k]
      /\ \A q \in Process \ {p, k} : proc'[q] = proc[q]
      /\ proc' \in [Process -> PRecord]
  BY <1>1, <1>3, <1>4, <1>5, <1>7
<1>9. ASSUME NEW q \in Process
      PROVE  /\ SameToken(q, proc'[q]) /\ SameView(q, proc'[q])
             /\ proc'[q].state = proc[q].state /\ RecordOK(proc'[q])
  <2>1. CASE q = p
    BY <1>2, <1>4, <1>8, <2>1 DEF SameView, RecordOK, Deciding
  <2>2. CASE q = k /\ lazy
    BY <1>5, <1>6, <1>8, <2>2 DEF SameView, SameToken, RecordOK, Deciding
  <2>3. CASE proc'[q] = proc[q]
    BY <2>3, ProcFacts DEF SameView, SameToken
  <2> QED
    BY <1>8, <2>1, <2>2, <2>3
<1>10. StepsOK'
  BY <1>9 DEF StepsOK, RecordOK
<1> QED
  BY <1>8, <1>9, <1>10, QuietStep DEF CacheHit

LEMMA InitKeeps ==
    ASSUME Init
    PROVE  IInv
<1>1. ASSUME NEW p \in Process
      PROVE  /\ proc[p] = Idle(p) /\ RecordOK(Idle(p)) /\ Idle(p).state = 0
             /\ Idle(p).generation = 0 /\ Idle(p).st = "idle"
  BY IdleTyped DEF Init
<1>2. ASSUME NEW k \in Key PROVE entries[k] = NoEntry /\ decisions[k] = 0
  BY DEF Init
<1>3. NoEntry \in ERecord
  BY WinnerAssumption DEF NoEntry, ERecord
<1>4. TypeOK
  <2>1. entries \in [Key -> ERecord] /\ decisions \in [Key -> {0} \cup StateId]
    BY <1>3 DEF Init
  <2>2. proc \in [Process -> PRecord]
    BY <1>1 DEF Init, RecordOK
  <2>3. references \in [StateId -> 0..Cardinality(Process)]
    <3>1. 0 \in 0..Cardinality(Process)
      BY ProcessesFinite
    <3> QED
      BY <3>1 DEF Init
  <2>4. nextGeneration \in 0..MaxGen /\ dirty \in [Process -> SUBSET {"token", "decision"}]
    BY WinnerAssumption DEF Init
  <2> QED
    BY <2>1, <2>2, <2>3, <2>4 DEF TypeOK, ERecord, PRecord
<1>5. GenerationsOK
  <2>1. \A k \in Key : entries[k].generation <= nextGeneration
                       /\ (entries[k].generation = 0 => entries[k].left = 0)
    BY <1>2 DEF NoEntry, Init
  <2>2. \A p \in Process : proc[p].generation = 0 /\ 0 <= nextGeneration
    BY <1>1 DEF Init
  <2> QED
    BY <2>1, <2>2 DEF GenerationsOK
<1>6. StepsOK
  BY <1>1 DEF StepsOK, RecordOK
<1>7. OwnKey /\ SeesEntry /\ TokenExact /\ CurrentIsClean
  BY <1>1 DEF OwnKey, SeesEntry, TokenExact, CurrentIsClean
<1>8. ReferencesOK
  <2> SUFFICES ASSUME NEW s \in StateId PROVE references[s] = Cardinality(Deciders(s))
    BY DEF ReferencesOK
  <2>1. Deciders(s) = {}
    BY <1>1, StatesAreNumbers DEF Deciders
  <2> QED
    BY <2>1, FS_EmptySet DEF Init
<1>9. NoTombstone
  BY <1>2 DEF NoTombstone
<1>10. RoomOK
  <2>1. Entries = {}
    BY <1>2 DEF Entries, Present, NoEntry
  <2> QED
    BY <2>1, FS_EmptySet, WinnerAssumption DEF RoomOK
<1> QED
  BY <1>4, <1>5, <1>6, <1>7, <1>8, <1>9, <1>10 DEF IInv

LEMMA NextKeeps ==
    ASSUME IInv, [Next]_vars
    PROVE  IInv'
<1>1. ASSUME NEW r \in Request, NEW k \in Key, Begin(r, k) PROVE IInv'
  BY <1>1, BeginsKeep DEF Begin, Process
<1>20. ASSUME NEW r \in Request, NEW k \in Key, NothingDue(r, k) PROVE IInv'
  BY <1>20, NothingDueKeeps DEF Process
<1>2. ASSUME NEW r \in Request, ClaimedRecovery(r) PROVE IInv'
  BY <1>2, ClaimedKeeps DEF Process
<1>3. ASSUME NEW r \in Request, LoadToken(r) PROVE IInv'
  BY <1>3, LoadKeeps DEF Process
<1>4. ASSUME NEW r \in Request, UsesCached(r) PROVE IInv'
  BY <1>4, UsesCachedKeeps DEF Process
<1>5. ASSUME NEW r \in Request, EvictsUnusable(r) PROVE IInv'
  BY <1>5, EvictsKeeps DEF Process
<1>6. ASSUME NEW r \in Request, DropsView(r) PROVE IInv'
  BY <1>6, DropsViewKeeps DEF Process
<1>7. ASSUME NEW r \in Request, BeginsRace(r) PROVE IInv'
  <2>1. r \in Process /\ proc[r].key \in Key
    BY StageFacts DEF Process
  <2> QED
    BY <1>7, <2>1, BeginsKeep DEF BeginsRace
<1>8. ASSUME NEW r \in Request, RaceLost(r) PROVE IInv'
  BY <1>8, RaceLostKeeps DEF Process
<1>9. ASSUME NEW r \in Request, NEW a \in Target, Publish(r, a, "relaying") PROVE IInv'
  BY <1>9, PublishKeeps DEF Process
<1>10. ASSUME NEW r \in Request, CacheHit(r) PROVE IInv'
  BY <1>10, CacheHitKeeps
<1>11. ASSUME NEW r \in Request, NeutralFallback(r) PROVE IInv'
  BY <1>11, NeutralKeeps DEF NeutralFallback, Process
<1>12. ASSUME NEW r \in Request, CachedLost(r) \/ CachedRefused(r) PROVE IInv'
  BY <1>12, EndsKeep DEF CachedLost, CachedRefused, Process
<1>13. ASSUME NEW r \in Request, NEW a \in Target, FallbackWon(r, a) PROVE IInv'
  BY <1>13, FallbackKeeps DEF Process
<1>14. ASSUME NEW r \in Request, RelayBroke(r) \/ RelayEnded(r) PROVE IInv'
  BY <1>14, EndsKeep DEF RelayBroke, RelayEnded, Process
<1>15. ASSUME NEW k \in Key, LazyBegins(k) PROVE IInv'
  BY <1>15, BeginsKeep DEF LazyBegins, Process
<1>16. ASSUME NEW k \in Key, LazyFails(k) PROVE IInv'
  BY <1>16, RaceLostKeeps DEF LazyFails, Process
<1>17. ASSUME NEW k \in Key, NEW a \in Target, LazyPublishes(k, a) PROVE IInv'
  BY <1>17, PublishKeeps DEF LazyPublishes, Process
<1>18. ASSUME Tick PROVE IInv'
  BY <1>18, TickKeeps
<1>19. ASSUME UNCHANGED vars PROVE IInv'
  <2>1. /\ UNCHANGED <<entries, nextGeneration, decisions, references, dirty>>
        /\ proc' = proc /\ proc' \in [Process -> PRecord] /\ StepsOK'
    BY <1>19, TypesSplit DEF vars, IInv, TypedRest, StepsOK
  <2>2. \A q \in Process : SameToken(q, proc'[q]) /\ SameView(q, proc'[q])
                           /\ proc'[q].state = proc[q].state
    BY <2>1 DEF SameToken, SameView
  <2> QED
    BY <2>1, <2>2, QuietStep
<1> QED
  BY <1>1, <1>2, <1>3, <1>4, <1>5, <1>6, <1>7, <1>8, <1>9, <1>10, <1>11, <1>12, <1>13,
     <1>14, <1>15, <1>16, <1>17, <1>18, <1>19, <1>20 DEF Next

-----------------------------------------------------------------------------
\* The invariant holds in every state of the winner cache, whatever the sizes of
\* the instance, the life of an entry and the capacity of the cache.
THEOREM Invariance == Spec => []IInv
<1>1. Init => IInv
  BY InitKeeps
<1>2. IInv /\ [Next]_vars => IInv'
  BY NextKeeps
<1> QED
  BY <1>1, <1>2, PTL DEF Spec

\* deleteBoostWinnerIfCurrent and replaceBoostWinnerIfCurrent accept a token
\* exactly while the entry it was loaded from, or stored as, is the one in the
\* cache: a store, a deletion, an expiry or an eviction in between refuses it,
\* and nothing else does.
THEOREM TokensAreExact == Spec => []TokenExact
<1>1. IInv => TokenExact
  BY DEF IInv
<1> QED
  BY <1>1, Invariance, PTL

\* publishBoostWinnerDecision stores exactly the decisions whose key nothing has
\* happened to since they began, the references of a state count its decisions,
\* no state outlives them in cache.decisions, and the cache stays within its size.
THEOREM DecisionsAreExact == Spec => []DecisionExact
<1>1. IInv => DecisionExact
  BY DEF IInv, DecisionExact, CurrentIsClean, ReferencesOK, NoTombstone, RoomOK, Entries
<1> QED
  BY <1>1, Invariance, PTL
=============================================================================
