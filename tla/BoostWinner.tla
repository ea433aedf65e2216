----------------------------- MODULE BoostWinner -----------------------------
(***************************************************************************)
(* The cache of boost winners (controller/boost.go): which target won the  *)
(* last race of each rule.  Races last long and write the cache when they  *)
(* end, so a writer proves that the entry it decided from is still there:  *)
(* a cached race by the generation token it loaded, a fresh race or a lazy *)
(* refresh by the identity of a decision state that every mutation of the  *)
(* key removes.  Each critical section of the cache lock is one action.    *)
(***************************************************************************)
EXTENDS Naturals, FiniteSets

CONSTANTS
    Request,     \* client connections, each inside HandleBoost
    Key,         \* boostRuleKey of the boost rules; also names a rule's lazy job
    Target,      \* target addresses
    NoTarget,    \* the empty address
    TTL,         \* boostWinnerTTL
    MaxEntries,  \* boostWinnerCacheMax
    MaxGen       \* bound on cache.nextGeneration

ASSUME WinnerAssumption ==
    /\ IsFiniteSet(Request) /\ IsFiniteSet(Key) /\ Key # {}
    /\ Request \cap Key = {}
    /\ NoTarget \notin Target
    /\ {TTL, MaxEntries} \subseteq Nat \ {0}
    /\ MaxGen \in Nat

Process == Request \cup Key
StateId == 1..Cardinality(Process)

VARIABLES
    entries,         \* cache.entries: target, remaining life, generation (0: none)
    nextGeneration,  \* cache.nextGeneration
    decisions,       \* cache.decisions: the key's current decision state, 0 for none
    references,      \* boostWinnerDecisionState.references
    proc,            \* each request and lazy job: its step, token and decision
    dirty            \* history: which views of a process are out of date

vars == <<entries, nextGeneration, decisions, references, proc, dirty>>

NoEntry == [addr |-> NoTarget, left |-> 0, generation |-> 0]

\* Token and decision of a process; state = 0 after the decision is released,
\* expires is what remains of the entry it began with, if hadEntry.
\* Between two connections a request is at no key of its own.
AnyKey == CHOOSE k \in Key : TRUE
Fresh(k) == [st |-> "begun", key |-> k, addr |-> NoTarget, generation |-> 0,
             state |-> 0, expires |-> 0, hadEntry |-> FALSE]
Idle(p) == [Fresh(IF p \in Key THEN p ELSE AnyKey) EXCEPT !.st = "idle"]

Steps == {"idle", "begun", "loaded", "missed", "released", "racing", "cached", "relaying",
          "starting"}

TypeOK ==
    /\ entries \in [Key -> [addr : Target \cup {NoTarget}, left : 0..TTL, generation : 0..MaxGen]]
    /\ nextGeneration \in 0..MaxGen
    /\ decisions \in [Key -> {0} \cup StateId]
    /\ references \in [StateId -> 0..Cardinality(Process)]
    /\ proc \in [Process -> [st : Steps, key : Key, addr : Target \cup {NoTarget},
                             generation : 0..MaxGen,
                             state : {0} \cup StateId, expires : 0..TTL, hadEntry : BOOLEAN]]
    /\ dirty \in [Process -> SUBSET {"token", "decision"}]

Init ==
    /\ entries = [k \in Key |-> NoEntry]
    /\ nextGeneration = 0
    /\ decisions = [k \in Key |-> 0]
    /\ references = [s \in StateId |-> 0]
    /\ proc = [p \in Process |-> Idle(p)]
    /\ dirty = [p \in Process |-> {}]

-----------------------------------------------------------------------------
Present(k) == entries[k].generation # 0
Expired(k) == Present(k) /\ entries[k].left = 0

\* the views a process has of its key
Views(q) == (IF proc[q].generation # 0 THEN {"token"} ELSE {})
              \cup (IF proc[q].state # 0 THEN {"decision"} ELSE {})

\* A mutation of the keys K outdates every view of them; p itself drops or
\* renews the views in own.
Outdate(K, p, own) ==
    dirty' = [q \in Process |->
        (IF proc[q].key \in K THEN Views(q) ELSE dirty[q]) \ (IF q = p THEN own ELSE {})]

MutDeleteLocked(k) == /\ entries' = [entries EXCEPT ![k] = NoEntry]
                      /\ UNCHANGED decisions

\* deleteBoostWinnerLocked
deleteBoostWinnerLocked(k) ==
    /\ entries' = [entries EXCEPT ![k] = NoEntry]
    /\ decisions' = [decisions EXCEPT ![k] = 0]

\* What storing k evicts: any one entry when k is new and the cache is full.
Victims(k) ==
    IF ~Present(k) /\ Cardinality({o \in Key : Present(o)}) >= MaxEntries
    THEN {{o} : o \in {o \in Key : Present(o)}} ELSE {{}}

NewEntry(k, a) == [addr |-> a, left |-> TTL, generation |-> nextGeneration + 1]

\* storeBoostWinnerLocked on behalf of p, which takes the new token
StoreWinner(p, k, a) ==
    /\ nextGeneration < MaxGen
    /\ nextGeneration' = nextGeneration + 1
    /\ \E V \in Victims(k) :
         /\ entries' = [o \in Key |->
              IF o = k THEN NewEntry(k, a) ELSE IF o \in V THEN NoEntry ELSE entries[o]]
         /\ decisions' = [o \in Key |-> IF o \in V \cup {k} THEN 0 ELSE decisions[o]]
         /\ Outdate(V \cup {k}, p, {"token", "decision"})

\* releaseBoostWinnerDecisionLocked for a decision with the state s
ReferencesAfterRelease(s) == [references EXCEPT ![s] = @ - 1]

DecisionsAfterRelease(k, s) ==
    IF references[s] = 1 /\ decisions[k] = s THEN [decisions EXCEPT ![k] = 0] ELSE decisions

\* releaseBoostWinnerDecision by p, which goes on with the record r
ReleaseDecision(p, r) ==
    LET k == proc[p].key
        s == proc[p].state
    IN  /\ IF s = 0 THEN UNCHANGED <<references, decisions>>
           ELSE /\ references' = ReferencesAfterRelease(s)
                /\ decisions' = DecisionsAfterRelease(k, s)
        /\ proc' = [proc EXCEPT ![p] = [r EXCEPT !.state = 0, !.expires = 0, !.hadEntry = FALSE]]
        /\ dirty' = [dirty EXCEPT ![p] = @ \ {"decision"}]

\* A state object nobody holds; identities of dropped objects may be reused.
FreshState == CHOOSE s \in StateId : references[s] = 0

\* beginBoostWinnerDecision by p for k, which goes on at the step st
BeginDecision(p, k, st) ==
    LET d == IF Expired(k) THEN 0 ELSE decisions[k]
        s == IF d = 0 THEN FreshState ELSE d
    IN  /\ entries' = IF Expired(k) THEN [entries EXCEPT ![k] = NoEntry] ELSE entries
        /\ decisions' = [decisions EXCEPT ![k] = s]
        /\ references' = [references EXCEPT ![s] = @ + 1]
        /\ proc' = [proc EXCEPT ![p] = [Fresh(k) EXCEPT !.st = st, !.state = s,
                                          !.expires = entries[k].left,
                                          !.hadEntry = Present(k) /\ ~Expired(k)]]
        /\ Outdate(IF Expired(k) THEN {k} ELSE {}, p, {"token", "decision"})
        /\ UNCHANGED nextGeneration

MutTokenCurrent(p) == Present(proc[p].key) /\ entries[proc[p].key].addr = proc[p].addr

\* the comparison in deleteBoostWinnerIfCurrent and replaceBoostWinnerIfCurrent
TokenCurrent(p) ==
    /\ proc[p].generation # 0
    /\ entries[proc[p].key].generation = proc[p].generation
    /\ entries[proc[p].key].addr = proc[p].addr

\* the comparison in publishBoostWinnerDecision
DecisionCurrent(p) ==
    /\ decisions[proc[p].key] = proc[p].state
    /\ proc[p].hadEntry => proc[p].expires > 0

\* deleteBoostWinnerIfCurrent by p, which goes on with the record r
DeleteIfCurrent(p, r) ==
    /\ proc' = [proc EXCEPT ![p] = r]
    /\ IF TokenCurrent(p)
       THEN deleteBoostWinnerLocked(proc[p].key) /\ Outdate({proc[p].key}, p, {"token"})
       ELSE /\ dirty' = [dirty EXCEPT ![p] = @ \ {"token"}]
            /\ UNCHANGED <<entries, decisions>>
    /\ UNCHANGED <<nextGeneration, references>>

NoToken(r) == [r EXCEPT !.generation = 0, !.addr = NoTarget]
\* the token of the entry that StoreWinner makes; nobody keeps one when idle
WithToken(r, a) ==
    IF r.st = "idle" THEN r
    ELSE [r EXCEPT !.addr = a, !.generation = nextGeneration + 1]
At(p, st) == [proc[p] EXCEPT !.st = st]
\* where a published race leaves its process
After(p, done) == IF done = "idle" THEN Idle(p) ELSE [Fresh(proc[p].key) EXCEPT !.st = done]

-----------------------------------------------------------------------------
\* HandleBoost

\* A circuit recovery is due: the decision is begun before the cache is looked at,
\* inside the attempt to claim the recovery probe.
Begin(r, k) ==
    /\ proc[r].st = "idle"
    /\ BeginDecision(r, k, "begun")

\* None is due, and a cache hit needs no decision.
NothingDue(r, k) ==
    /\ proc[r].st = "idle"
    /\ proc' = [proc EXCEPT ![r] = Fresh(k)]
    /\ UNCHANGED <<entries, nextGeneration, decisions, references, dirty>>

\* The owner of a recovery probe bypasses the cached winner.
ClaimedRecovery(r) ==
    /\ proc[r].st = "begun" /\ proc[r].state # 0
    /\ proc' = [proc EXCEPT ![r] = At(r, "racing")]
    /\ UNCHANGED <<entries, nextGeneration, decisions, references, dirty>>

\* loadBoostWinnerToken
LoadToken(r) ==
    LET k == proc[r].key IN
    /\ proc[r].st = "begun"
    /\ \/ /\ ~Present(k)
          /\ proc' = [proc EXCEPT ![r] = At(r, "missed")]
          /\ UNCHANGED <<entries, decisions, dirty>>
       \/ /\ Expired(k)
          /\ proc' = [proc EXCEPT ![r] = At(r, "missed")]
          /\ deleteBoostWinnerLocked(k)
          /\ Outdate({k}, r, {"token"})
       \/ /\ Present(k) /\ ~Expired(k)
          /\ proc' = [proc EXCEPT ![r] = [At(r, "loaded") EXCEPT
                        !.addr = entries[k].addr, !.generation = entries[k].generation]]
          /\ dirty' = [dirty EXCEPT ![r] = @ \ {"token"}]
          /\ UNCHANGED <<entries, decisions>>
    /\ UNCHANGED <<nextGeneration, references>>

\* The cached target's circuit is closed and its protocol healthy.
UsesCached(r) ==
    /\ proc[r].st = "loaded"
    /\ ReleaseDecision(r, At(r, "cached"))
    /\ UNCHANGED <<entries, nextGeneration>>

\* It is not: loadUsableBoostWinnerToken evicts the entry it looked at.
EvictsUnusable(r) ==
    /\ proc[r].st = "loaded"
    /\ DeleteIfCurrent(r, NoToken(At(r, "missed")))

\* The fresh race starts from the state after the eviction.
DropsView(r) ==
    /\ proc[r].st = "missed"
    /\ ReleaseDecision(r, At(r, "released"))
    /\ UNCHANGED <<entries, nextGeneration>>

BeginsRace(r) ==
    /\ proc[r].st = "released"
    /\ BeginDecision(r, proc[r].key, "racing")

\* No target answered, or the client has gone.
RaceLost(r) ==
    /\ proc[r].st = "racing"
    /\ ReleaseDecision(r, Idle(r))
    /\ UNCHANGED <<entries, nextGeneration>>

\* publishBoostWinnerDecision of the race p won by a: a decision that is no
\* longer current stores nothing and gives no token.
Publish(p, a, done) ==
    LET k == proc[p].key IN
    /\ proc[p].st = "racing"
    /\ \/ /\ DecisionCurrent(p)
          /\ references' = ReferencesAfterRelease(proc[p].state)
          /\ StoreWinner(p, k, a)
          /\ proc' = [proc EXCEPT ![p] = WithToken(After(p, done), a)]
       \/ /\ ~DecisionCurrent(p)
          /\ ReleaseDecision(p, After(p, done))
          /\ UNCHANGED <<entries, nextGeneration>>

\* The cached target won its race: the entry keeps its age, and in the second
\* half of its life it is refreshed by a lazy job, one per rule.
CacheHit(r) ==
    LET k == proc[r].key IN
    /\ proc[r].st = "cached"
    /\ \E lazy \in BOOLEAN :
         /\ lazy => proc[k].st = "idle"
         /\ proc' = [proc EXCEPT ![r] = At(r, "relaying"),
                                 ![k] = IF lazy THEN At(k, "starting") ELSE @]
    /\ UNCHANGED <<entries, nextGeneration, decisions, references, dirty>>

\* A fallback won after a failure that says nothing about the cached target.
NeutralFallback(r) ==
    /\ proc[r].st = "cached"
    /\ proc' = [proc EXCEPT ![r] = NoToken(At(r, "relaying"))]
    /\ dirty' = [dirty EXCEPT ![r] = @ \ {"token"}]
    /\ UNCHANGED <<entries, nextGeneration, decisions, references>>

\* A fallback or a hedge won: replaceBoostWinnerIfCurrent.
FallbackWon(r, a) ==
    LET k == proc[r].key IN
    /\ proc[r].st = "cached"
    /\ a # proc[r].addr
    /\ \/ /\ TokenCurrent(r) /\ ~Expired(k)
          /\ StoreWinner(r, k, a)
          /\ proc' = [proc EXCEPT ![r] = WithToken(At(r, "relaying"), a)]
       \/ /\ ~TokenCurrent(r) \/ Expired(k)
          /\ proc' = [proc EXCEPT ![r] = NoToken(At(r, "relaying"))]
          /\ dirty' = [dirty EXCEPT ![r] = @ \ {"token"}]
          /\ UNCHANGED <<entries, nextGeneration, decisions>>
    /\ UNCHANGED references

\* Every candidate failed, the cached target among them ...
CachedLost(r) ==
    /\ proc[r].st = "cached"
    /\ DeleteIfCurrent(r, Idle(r))

\* ... or it was only kept back by the local dial limits, or the client left.
CachedRefused(r) ==
    /\ proc[r].st = "cached"
    /\ proc' = [proc EXCEPT ![r] = Idle(r)]
    /\ dirty' = [dirty EXCEPT ![r] = {}]
    /\ UNCHANGED <<entries, nextGeneration, decisions, references>>

\* finishBoostRelay after an error that speaks against the target
RelayBroke(r) ==
    /\ proc[r].st = "relaying"
    /\ DeleteIfCurrent(r, Idle(r))

RelayEnded(r) ==
    /\ proc[r].st = "relaying"
    /\ proc' = [proc EXCEPT ![r] = Idle(r)]
    /\ dirty' = [dirty EXCEPT ![r] = {}]
    /\ UNCHANGED <<entries, nextGeneration, decisions, references>>

-----------------------------------------------------------------------------
\* lazyRevalidateWithDial for the key k
LazyBegins(k) ==
    /\ proc[k].st = "starting"
    /\ BeginDecision(k, k, "racing")

\* The lazy job closes its connection and drops the token.
LazyPublishes(k, a) == Publish(k, a, "idle")

LazyFails(k) == RaceLost(k)

\* Time passes; an entry that reaches the end of its life is no longer the
\* view its deciders started from.
Tick ==
    /\ \E k \in Key : entries[k].left > 0
    /\ entries' = [k \in Key |-> IF entries[k].left > 0
                                 THEN [entries[k] EXCEPT !.left = @ - 1] ELSE entries[k]]
    /\ dirty' = [p \in Process |-> dirty[p] \cup
         (IF entries[proc[p].key].left = 1 THEN Views(p) \cap {"decision"} ELSE {})]
    /\ proc' = [p \in Process |-> [proc[p] EXCEPT !.expires = IF @ > 0 THEN @ - 1 ELSE 0]]
    /\ UNCHANGED <<nextGeneration, decisions, references>>

Next ==
    \/ \E r \in Request :
         \/ \E k \in Key : Begin(r, k) \/ NothingDue(r, k)
         \/ ClaimedRecovery(r)
         \/ LoadToken(r) \/ UsesCached(r) \/ EvictsUnusable(r)
         \/ DropsView(r) \/ BeginsRace(r) \/ RaceLost(r)
         \/ \E a \in Target : Publish(r, a, "relaying")
         \/ CacheHit(r) \/ NeutralFallback(r) \/ CachedLost(r) \/ CachedRefused(r)
         \/ \E a \in Target : FallbackWon(r, a)
         \/ RelayBroke(r) \/ RelayEnded(r)
    \/ \E k \in Key :
         \/ LazyBegins(k) \/ LazyFails(k)
         \/ \E a \in Target : LazyPublishes(k, a)
    \/ Tick

Spec == Init /\ [][Next]_vars

-----------------------------------------------------------------------------
Deciders(s) == {p \in Process : proc[p].state = s}

\* A decision may publish exactly while nothing has happened to its key since
\* it began: no write, deletion, expiry or eviction, even one that was undone
\* since, and whatever happens to other keys.  Nothing piles up meanwhile:
\* decision states live as long as their decisions, which references counts,
\* the last one leaves no tombstone behind, and the cache never holds more
\* than boostWinnerCacheMax winners.
DecisionExact ==
    /\ TypeOK
    /\ \A p \in Process :
         proc[p].state # 0 => (DecisionCurrent(p) <=> "decision" \notin dirty[p])
    /\ \A s \in StateId : references[s] = Cardinality(Deciders(s))
    /\ \A k \in Key : decisions[k] # 0 => \E p \in Deciders(decisions[k]) : proc[p].key = k
    /\ Cardinality({k \in Key : Present(k)}) <= MaxEntries

\* A token deletes or replaces exactly the entry it was taken from: a stream or
\* a hedge that ends late never touches a newer winner, not even one for the
\* same target.
TokenExact ==
    \A p \in Process :
        proc[p].generation # 0 => (TokenCurrent(p) <=> "token" \notin dirty[p])

=============================================================================
