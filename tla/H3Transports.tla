---------------------------- MODULE H3Transports ----------------------------
(***************************************************************************)
(* The HTTP/3 transports of one proxy endpoint                             *)
(* (controller/connect_proxy_h3.go, _rotation.go, _drain.go and            *)
(* _ownership.go).  A slot owns one lazy quic-go transport and every QUIC  *)
(* connection that transport dials.  A degraded serving slot gets one      *)
(* warming candidate; the one request that tries it promotes it or lets it *)
(* fail, and a promoted candidate sends its source to draining, where a    *)
(* monitor may end streams that no longer move.  The rule breaker arms the *)
(* same drains for the rules whose HTTP/2 it has validated.                *)
(*                                                                         *)
(* One action is one critical section of manager.mu or of a slot's         *)
(* physicalMu; slot.close() runs after the unlock and is a step of its own.*)
(* Payload, stall times and RTTs are abstracted: a sample degrades a       *)
(* connection, and a stream is stalled, when the environment says so.      *)
(***************************************************************************)
EXTENDS Integers, Sequences, FiniteSets

CONSTANTS
    Slot,           \* slots that exist at one time, the removed and still used ones too
    Request,        \* concurrent CONNECT requests
    Rule,           \* routing rules that share the endpoint
    RuleOf,         \* the rule of each request
    MixedRule,      \* the rules with HTTP/2, for which the breaker arms drains
    KindOf,         \* what each request may be: client, managed (probe), probation
    Reason,         \* degradations the sampler can find: ordinary, severe, hole
    None,           \* no slot
    MaxTransports,  \* maxTransportsPerKey
    Streams,        \* streamsPerTransport
    MaxOld          \* bound on the live connections of a slot that a later one superseded

\* "*" is taken: All, below, stands for every rule with it
ASSUME TransportsAssumption ==
    /\ IsFiniteSet(Slot) /\ IsFiniteSet(Request) /\ "*" \notin Rule
    /\ RuleOf \in [Request -> Rule] /\ MixedRule \subseteq Rule /\ None \notin Slot
    /\ KindOf \in [Request -> SUBSET {"client", "managed", "probation"}]
    /\ Reason \subseteq {"ordinary", "severe", "hole"}
    /\ {MaxTransports, Streams} \subseteq Nat \ {0} /\ MaxOld \in Nat

VARIABLES
    slot,      \* http3ConnectTransportSlot
    req,       \* dialWithCandidateRetrySource and the tunnel it returns
    retired    \* manager.retired
vars == <<slot, req, retired>>

\* conn is the slot's current connection, old the number of live ones before it;
\* a monitor is on while forcedDrainConnID is the current connectionID;
\* proof is a ghost: the rules armed for the slot's connection, and whether another
\* slot has answered since that connection was made
NoProof == [rules |-> {}, other |-> FALSE]
NoMonitor == [on |-> FALSE, all |-> FALSE, rules |-> {}]
Blank ==
    [lc |-> "none", home |-> "closed", health |-> "healthy", reason |-> "ordinary",
     active |-> 0, conn |-> "none", old |-> 0, dial |-> "idle",
     replaces |-> None, replacement |-> None, mon |-> NoMonitor,
     proof |-> NoProof]
Idle == [st |-> "idle", slot |-> None, kind |-> "client", cand |-> FALSE, retry |-> None]

Init ==
    /\ slot = [s \in Slot |-> Blank] /\ req = [q \in Request |-> Idle]
    /\ retired = FALSE

-----------------------------------------------------------------------------
\* The pool

Pool == {s \in Slot : slot[s].home = "pool"}
Warming == {s \in Pool : slot[s].lc = "warming"}
Serving == {s \in Pool : slot[s].lc = "serving"}
Holders(s) == {q \in Request : req[q].slot = s}
Tunnels(s) == {q \in Holders(s) : req[q].st = "tunnel"}
Live(s) == slot[s].old + (IF slot[s].conn = "live" THEN 1 ELSE 0)
                       + (IF slot[s].dial = "registered" THEN 1 ELSE 0)
\* quic-go has a connection to use; the dial that is still to be observed has not returned
Connected(s) == slot[s].conn = "live" \/ slot[s].old > 0
Forced(reason) == reason \in {"severe", "hole", "error"}   \* isHTTP3ForcedDrainReason

\* A slot that nothing refers to: its name can be used again.
Fresh(s) ==
    /\ slot[s] = Blank
    /\ \A t \in Slot : s \notin {slot[t].replaces, slot[t].replacement}
    /\ \A q \in Request : req[q].retry # s

\* newTransportSlotLocked
NewSlot(lc) == [Blank EXCEPT !.lc = lc, !.home = "pool"]

\* removeSlotLocked, and the slot.close() that every caller of it goes on to make; what
\* nothing reads of a slot outside the pool is dropped
Removed(r) ==
    [Blank EXCEPT !.home = IF r.home = "pool" THEN "closing" ELSE r.home,
                  !.active = r.active, !.conn = r.conn, !.old = r.old, !.dial = r.dial]
\* A closed slot without users is garbage.
Collect(r) ==
    IF r.home = "closed" /\ r.active = 0 /\ r.dial = "idle" THEN Blank ELSE r

\* allowFastFailRulesLocked; All stands for the nil rules of a promotion
All == {"*"}
Allow(m, rules) ==
    IF m.all THEN m
    ELSE IF rules = All THEN [m EXCEPT !.all = TRUE, !.rules = {}]
    ELSE [m EXCEPT !.rules = @ \cup rules]

\* prepareHTTP3ForcedDrainLocked
Prepare(r, rules) ==
    IF retired \/ r.active = 0 \/ r.lc # "draining" \/ ~Forced(r.reason) THEN r
    ELSE IF r.mon.on THEN [r EXCEPT !.mon = Allow(r.mon, rules)]
    ELSE [r EXCEPT !.mon = Allow([NoMonitor EXCEPT !.on = TRUE], rules)]

-----------------------------------------------------------------------------
\* Acquiring and releasing a stream

\* The order of http3TransportHealthRank and active.  Samples turn a slot that is not
\* degraded suspect and healthy again at any time, so two such slots come in any order.
Better(s, t) ==
    \/ slot[s].health = "healthy" /\ slot[t].health = "degraded"
    \/ {slot[s].health, slot[t].health} = {"degraded"} /\ slot[s].active < slot[t].active
IdleWarming == {s \in Warming : slot[s].active = 0}
\* The streams a slot takes are learned from timeouts (noteStreamCreditTimeout): any
\* number from 1 to streamsPerTransport.  full holds the slots that have reached theirs.
Busy == {s \in Serving : slot[s].active > 0}
FreeServing(full) == {s \in Serving \ full : slot[s].active < Streams}
Best(full) == {s \in FreeServing(full) : \A t \in FreeServing(full) : ~Better(t, s)}

\* dialWithCandidateRetrySource goes on with slot s, in state r: it notes whether it is a
\* candidate's canary, and a managed probe turns away from a degraded connection
Hold(q, s, r, kind) ==
    LET cooling == kind = "managed" /\ r.lc = "serving" /\ r.health = "degraded"
    IN  req' = [req EXCEPT ![q] = [Idle EXCEPT !.st = IF cooling THEN "release" ELSE "trip",
                                       !.slot = s, !.kind = kind, !.cand = r.lc = "warming"]]

\* acquireTransport on a slot of the pool: the idle candidate before the best serving slot
AcquireTransport(q, kind, s) ==
    /\ req[q].st = "idle" /\ kind \in KindOf[q] \ {"probation"}
    /\ \E full \in SUBSET Busy : s \in (IF IdleWarming # {} THEN IdleWarming ELSE Best(full))
    /\ slot' = [slot EXCEPT ![s].active = @ + 1]
    /\ Hold(q, s, slot'[s], kind)
    /\ UNCHANGED retired

\* acquireTransport on a new slot
AcquireNewTransport(q, kind, s) ==
    /\ req[q].st = "idle" /\ kind \in KindOf[q] \ {"probation"}
    /\ IdleWarming = {} /\ (\E full \in SUBSET Busy : FreeServing(full) = {})
    /\ Cardinality(Pool) < MaxTransports /\ Fresh(s)
    /\ slot' = [slot EXCEPT ![s] = [NewSlot("serving") EXCEPT !.active = 1]]
    /\ Hold(q, s, slot'[s], kind)
    /\ UNCHANGED retired

\* acquireHTTP3RuleProbationTransport on the idle candidate
AcquireProbationTransport(q, s) ==
    /\ req[q].st = "idle" /\ "probation" \in KindOf[q] /\ s \in IdleWarming
    /\ slot' = [slot EXCEPT ![s].active = @ + 1]
    /\ Hold(q, s, slot'[s], "probation")
    /\ UNCHANGED retired

\* acquireHTTP3RuleProbationTransport on a new candidate, for a serving slot that has none
AcquireNewProbationTransport(q, s, source) ==
    /\ req[q].st = "idle" /\ "probation" \in KindOf[q]
    /\ Warming = {} /\ Cardinality(Pool) < MaxTransports /\ Fresh(s)
    /\ LET free == {t \in Serving : slot[t].replacement = None}
       IN  source \in (IF free = {} THEN {None} ELSE free)
    /\ slot' = [t \in Slot |->
         IF t = s THEN [NewSlot("warming") EXCEPT !.active = 1, !.replaces = source]
         ELSE IF t = source THEN [slot[t] EXCEPT !.replacement = s] ELSE slot[t]]
    /\ Hold(q, s, slot'[s], "probation")
    /\ UNCHANGED retired

\* acquireHTTP3CandidateRetrySource, on nothing but the slot the candidate was to replace
RetryOnSource(q) ==
    /\ req[q].st = "retry"
    /\ LET s == req[q].retry
       IN  \/ /\ ~retired /\ s \in FreeServing({})
              /\ slot' = [slot EXCEPT ![s].active = @ + 1]
              /\ Hold(q, s, slot'[s], req[q].kind)
           \/ /\ retired \/ s \notin FreeServing({}) \/ s \in Busy
              /\ req' = [req EXCEPT ![q] = Idle]
              /\ UNCHANGED slot
    /\ UNCHANGED retired

\* releaseTransport of a request: what becomes of the slot
Released(s) ==
    LET r == [slot[s] EXCEPT !.active = @ - 1]
        remove == \/ retired \/ r.lc \in {"draining", "failed"}
                  \/ Live(s) > 1
                  \/ r.lc = "serving" /\ Serving \ {s} # {}
    IN  IF r.active = 0 /\ remove /\ r.home = "pool" THEN Removed(r) ELSE Collect(r)

ReleaseTransport(q) ==
    /\ req[q].st = "release"
    /\ slot' = [slot EXCEPT ![req[q].slot] = Released(req[q].slot)]
    /\ req' = [req EXCEPT ![q] = IF @.retry = None THEN Idle
                                 ELSE [@ EXCEPT !.st = "retry", !.slot = None]]
    /\ UNCHANGED retired

-----------------------------------------------------------------------------
\* The physical connections of a slot

\* quic-go dials once for all the requests that wait, and again for any of them after
\* the error of another one has evicted its client
Dial(s) ==
    /\ slot[s].dial = "idle" /\ slot[s].home # "closed"
    /\ slot[s].conn = "live" => slot[s].old < MaxOld
    /\ \E q \in Holders(s) : req[q].st = "trip"
    /\ slot' = [slot EXCEPT ![s].dial = "dialing"]
    /\ UNCHANGED <<req, retired>>

DialFails(s) ==
    /\ slot[s].dial = "dialing"
    /\ slot' = [slot EXCEPT ![s] = Collect([@ EXCEPT !.dial = "idle"])]
    /\ UNCHANGED <<req, retired>>

\* Mutant: closeRequested is not looked at.
MutOwnPhysicalConnection(s) ==
    /\ slot[s].dial = "dialing"
    /\ slot' = [slot EXCEPT ![s].dial = "registered"]
    /\ UNCHANGED <<req, retired>>

\* ownPhysicalConnection: a closed slot has the connection closed at once
OwnPhysicalConnection(s) ==
    /\ slot[s].dial = "dialing"
    /\ slot' = [slot EXCEPT ![s] =
         IF @.home = "closed" THEN Collect([@ EXCEPT !.dial = "idle"])
         ELSE [@ EXCEPT !.dial = "registered"]]
    /\ UNCHANGED <<req, retired>>

\* observeHTTP3PhysicalDial after the registration: a slot that has left the pool closes
\* the connection, a serving slot that was degraded is well again and drops its candidate
Observed(s) ==
    LET serving == slot[s].lc = "serving"
        c == slot[s].replacement
        drop == /\ serving /\ slot[s].health = "degraded"
                /\ c # None /\ slot[c].lc = "warming" /\ slot[c].active = 0
    IN  [t \in Slot |->
            IF t = s
            THEN [slot[s] EXCEPT !.dial = "idle", !.conn = "live",
                     !.old = IF slot[s].conn = "live" THEN @ + 1 ELSE @,
                     !.mon = NoMonitor, !.proof = NoProof,
                     !.health = IF serving THEN "healthy" ELSE @,
                     !.replacement = IF drop THEN None ELSE @]
            ELSE IF drop /\ t = c THEN Removed(slot[c])
            ELSE slot[t]]
ObservePhysicalDial(s) ==
    /\ slot[s].dial = "registered"
    /\ slot' = IF s \in Pool THEN Observed(s)
               ELSE [slot EXCEPT ![s] = Collect([@ EXCEPT !.dial = "idle"])]
    /\ UNCHANGED <<req, retired>>

ConnectionDies(s) ==
    /\ slot[s].conn = "live"
    /\ slot' = [slot EXCEPT ![s].conn = "closed"]
    /\ UNCHANGED <<req, retired>>
OldConnectionDies(s) ==
    /\ slot[s].old > 0
    /\ slot' = [slot EXCEPT ![s].old = @ - 1]
    /\ UNCHANGED <<req, retired>>

\* slot.close and closePhysicalConnections; a registered connection that is still to be
\* observed is closed with the others
CloseSlot(s) ==
    /\ slot[s].home = "closing"
    /\ LET r == slot[s]
       IN  slot' = [slot EXCEPT ![s] =
             Collect([r EXCEPT !.home = "closed", !.conn = "none", !.old = 0,
                               !.dial = IF r.dial = "registered" THEN "idle" ELSE r.dial])]
    /\ UNCHANGED <<req, retired>>

-----------------------------------------------------------------------------
\* A request on its slot

\* What a request keeps once RoundTrip is over
Settled(q) ==
    [Idle EXCEPT !.st = "release", !.slot = req[q].slot,
                 !.kind = IF req[q].kind = "managed" THEN "managed" ELSE "client"]

\* markHTTP3CandidateFailed
CandidateFailed(c) ==
    LET source == slot[c].replaces
        linked == source # None /\ slot[source].replacement = c
    IN  [t \in Slot |->
            IF t = c THEN [slot[c] EXCEPT !.lc = "failed", !.replaces = None]
            ELSE IF linked /\ t = source
            THEN [slot[t] EXCEPT !.replacement = None]
            ELSE slot[t]]
RetrySource(c) ==
    LET source == slot[c].replaces
    IN  IF source # None /\ source \in Serving /\ slot[source].replacement = c
        THEN source ELSE None

\* RoundTrip fails while the caller is still there: markHTTP3CandidateFailed, then
\* drainHTTP3ErroredTransport.  One step, since at most one of the two sections changes
\* anything: the first needs a warming slot, which it leaves failed for good, the second
\* a serving one, and a slot that this request holds is never warming again.  A caller
\* that leaves between them takes CallerLeaves, or keeps a failed candidate
TripFails(q) ==
    /\ req[q].st = "trip"
    /\ LET s == req[q].slot
           failed == req[q].cand /\ s \in Warming
           after == IF failed THEN CandidateFailed(s) ELSE slot
       IN  /\ slot' = [after EXCEPT ![s].lc = IF @ = "serving" /\ s \in Pool THEN "draining" ELSE @]
           /\ req' = [req EXCEPT ![q] = [Settled(q) EXCEPT
                        !.retry = IF failed /\ req[q].kind = "client" THEN RetrySource(s) ELSE None]]
    /\ UNCHANGED retired

\* The caller leaves during RoundTrip, or its deadline passes
CallerLeaves(q) ==
    /\ req[q].st = "trip"
    /\ req' = [req EXCEPT ![q] = Settled(q)]
    /\ UNCHANGED <<slot, retired>>

\* Mutant: the source is not looked at for users, and drains for ever when it has none.
MutPromoted(c) ==
    [t \in Slot |->
        IF t = c THEN [slot[c] EXCEPT !.replaces = None, !.health = "healthy",
                                      !.lc = IF retired THEN "draining" ELSE "serving"]
        ELSE IF t = slot[c].replaces
        THEN Prepare([slot[t] EXCEPT !.lc = "draining", !.replacement = IF @ = c THEN None ELSE @,
                                     !.proof.other = TRUE], All)
        ELSE slot[t]]

\* promoteHTTP3Candidate
Promoted(c) ==
    LET source == slot[c].replaces
        old == [slot[source] EXCEPT !.lc = "draining",
                                    !.replacement = IF @ = c THEN None ELSE @, !.proof.other = TRUE]
    IN  [t \in Slot |->
            IF t = c THEN [slot[c] EXCEPT !.replaces = None, !.health = "healthy",
                                          !.lc = IF retired THEN "draining" ELSE "serving"]
            ELSE IF t = source
            THEN IF old.active = 0 THEN Collect(Removed(old)) ELSE Prepare(old, All)
            ELSE slot[t]]

\* A response, of whatever status, proves the connection and promotes a candidate
CandidateAnswers(q) ==
    /\ req[q].st = "trip" /\ req[q].cand /\ Connected(req[q].slot)
    /\ slot' = IF req[q].slot \in Warming THEN Promoted(req[q].slot) ELSE slot
    /\ req' = [req EXCEPT ![q] = [Settled(q) EXCEPT !.st = "answered"]]
    /\ UNCHANGED retired

\* noteHTTP3ServingTakeoverValidated
TakenOver(s) ==
    [t \in Slot |->
        IF retired \/ s \notin Serving \/ t \notin Pool \ {s} \/ slot[t].lc # "draining" THEN slot[t]
        ELSE [slot[t] EXCEPT !.proof.other = TRUE,
                             !.mon = IF slot[t].mon.on THEN Allow(slot[t].mon, All) ELSE @]]

\* Any answer validates the takeover; a 2xx goes on to become a tunnel
TakeoverValidated(q, accepted) ==
    /\ \/ req[q].st = "answered"
       \/ req[q].st = "trip" /\ ~req[q].cand /\ Connected(req[q].slot)
    /\ slot' = TakenOver(req[q].slot)
    /\ req' = [req EXCEPT ![q] = [Settled(q) EXCEPT !.st = IF accepted THEN "accepted" ELSE "release"]]
    /\ UNCHANGED retired

\* registerHTTP3Tunnel
RegisterTunnel(q) ==
    /\ req[q].st = "accepted"
    /\ req' = [req EXCEPT ![q].st = "tunnel"]
    /\ UNCHANGED <<slot, retired>>

\* http3TunnelConn.Close: unregisterHTTP3Tunnel, then the release
CloseTunnel(q) ==
    /\ req[q].st = "tunnel"
    /\ req' = [req EXCEPT ![q].st = "release"]
    /\ UNCHANGED <<slot, retired>>

-----------------------------------------------------------------------------
\* Degradation and rotation

\* ensureHTTP3RotationCandidateLocked, on the slots as the degradation leaves them: a
\* new candidate c, or None when there is one, when the pool is full, or while the
\* source backs off after a failure (for any time: retryAt is not kept)
MayCreate == Warming = {} /\ Cardinality(Pool) < MaxTransports
WithCandidate(slots, s, c) ==
    [t \in Slot |->
        IF t = c THEN [NewSlot("warming") EXCEPT
                          !.replaces = s, !.reason = slots[s].reason]
        ELSE IF t = s /\ c # None THEN [slots[s] EXCEPT !.replacement = c]
        ELSE IF t \in Warming /\ slots[t].replaces = s
        THEN [slots[t] EXCEPT !.reason = slots[s].reason]
        ELSE slots[t]]

\* applyHTTP3DegradationSample finds the slot's current connection degraded, which its
\* detector latches until the slot has another connection.  The sample is the sampler's, or for a dead connection observeHTTP3ConnectionClosed
Degrade(s, why, c) ==
    /\ ~retired /\ s \in Serving /\ slot[s].conn # "none"
    /\ c # None => MayCreate /\ Fresh(c)
    /\ (why = "error") = (slot[s].conn = "closed")
    /\ LET first == slot[s].health # "degraded"
           upgrade == ~first /\ why = "hole" /\ slot[s].reason # "hole"
           r == IF first \/ upgrade
                THEN [slot[s] EXCEPT !.health = "degraded", !.reason = why]
                ELSE slot[s]
       IN  slot' = WithCandidate([slot EXCEPT ![s] = r], s, c)
    /\ UNCHANGED <<req, retired>>

-----------------------------------------------------------------------------
\* Forced drains

Armed(r, rule) ==
    LET d == [r EXCEPT !.lc = "draining", !.proof.rules = @ \cup {rule}]
    IN  IF r.active = 0 THEN Removed(d) ELSE Prepare(d, {rule})

\* armHTTP3ForcedDrainsForBreaker, for a rule whose breaker has opened
ArmForBreaker(rule) ==
    /\ ~retired /\ rule \in MixedRule
    /\ LET hit == {s \in Pool : /\ slot[s].health = "degraded" /\ Forced(slot[s].reason)
                                /\ slot[s].lc \in {"serving", "draining"}}
       IN  /\ hit # {}
           /\ slot' = [s \in Slot |-> IF s \in hit THEN Armed(slot[s], rule) ELSE slot[s]]
    /\ UNCHANGED <<req, retired>>

\* armHTTP3ForcedDrainForBlackhole, when a rule has validated HTTP/2 for a black hole of
\* this slot; the guard is http3BlackholeStillActive, and a validation for an earlier
\* connection finds another connectionID.  When one ends is up to H3RuleBreaker.
ArmForBlackhole(s, rule) ==
    /\ ~retired /\ s \in Pool /\ slot[s].health = "degraded" /\ slot[s].reason = "hole"
    /\ \/ slot[s].lc = "serving"
       \/ slot[s].lc = "draining" /\ slot[s].mon.on /\ ~slot[s].mon.all
    /\ slot' = [slot EXCEPT ![s] = Armed(slot[s], rule)]
    /\ UNCHANGED <<req, retired>>

Monitored(s) ==
    /\ ~retired /\ s \in Pool /\ slot[s].lc = "draining" /\ slot[s].active > 0
    /\ slot[s].mon.on
\* streamFastFailEligibleLocked
Eligible(s) == {q \in Tunnels(s) : slot[s].mon.all \/ RuleOf[q] \in slot[s].mon.rules}

\* Mutant: only the published tunnels are counted, not the requests still in setup.
MutMayClose(s) == slot[s].mon.all \/ Eligible(s) = Tunnels(s)
\* checkHTTP3ForcedDrainAt finds the connection stalled and closes it, if every user is known
MayClose(s) == slot[s].mon.all \/ Cardinality(Eligible(s)) = slot[s].active
ForcedClose(s) ==
    /\ Monitored(s) /\ MayClose(s)
    /\ slot' = [slot EXCEPT ![s] = Removed(slot[s])]
    /\ UNCHANGED <<req, retired>>

\* checkHTTP3ForcedDrainAt ends one stalled stream (selectFastFail and its hook)
FastFail(q) ==
    /\ req[q].st = "tunnel" /\ Monitored(req[q].slot)
    /\ slot[req[q].slot].reason \in {"severe", "hole"} /\ q \in Eligible(req[q].slot)
    /\ req' = [req EXCEPT ![q].st = "release"]
    /\ UNCHANGED <<slot, retired>>

-----------------------------------------------------------------------------
\* retire, of the routing generation that owns the manager; what a retired pool never
\* reads is dropped
Retire ==
    /\ ~retired /\ retired' = TRUE
    /\ slot' = [s \in Slot |->
         LET r == Removed(slot[s])
         IN  IF s \notin Pool THEN slot[s]
             ELSE IF slot[s].active = 0 THEN r ELSE [r EXCEPT !.home = "pool", !.lc = "draining"]]
    /\ UNCHANGED req

\* close, once the generation has no client streams left; a managed probe may still run
Close ==
    /\ retired /\ \A q \in Request : req[q].st = "idle" \/ req[q].kind = "managed"
    /\ slot' = [s \in Slot |-> IF s \in Pool THEN Removed(slot[s]) ELSE slot[s]]
    /\ UNCHANGED <<req, retired>>

Next ==
    \/ \E q \in Request, s \in Slot :
          \/ \E kind \in KindOf[q] : AcquireTransport(q, kind, s) \/ AcquireNewTransport(q, kind, s)
          \/ AcquireProbationTransport(q, s)
          \/ \E source \in Slot \cup {None} : AcquireNewProbationTransport(q, s, source)
    \/ \E q \in Request :
          \/ RetryOnSource(q) \/ ReleaseTransport(q) \/ TripFails(q)
          \/ CallerLeaves(q) \/ CandidateAnswers(q)
          \/ \E accepted \in BOOLEAN : TakeoverValidated(q, accepted)
          \/ RegisterTunnel(q) \/ CloseTunnel(q) \/ FastFail(q)
    \/ \E s \in Slot :
          \/ Dial(s) \/ DialFails(s) \/ OwnPhysicalConnection(s) \/ ObservePhysicalDial(s)
          \/ CloseSlot(s) \/ ForcedClose(s)
          \/ ConnectionDies(s) \/ OldConnectionDies(s)
          \/ \E why \in Reason \cup {"error"}, c \in Slot \cup {None} : Degrade(s, why, c)
          \/ \E rule \in MixedRule : ArmForBlackhole(s, rule)
    \/ \E rule \in MixedRule : ArmForBreaker(rule)
    \/ Retire \/ Close

Spec == Init /\ [][Next]_vars

-----------------------------------------------------------------------------
\* Properties

SlotState ==
    [lc : {"none", "warming", "serving", "draining", "failed"},
     home : {"pool", "closing", "closed"}, health : {"healthy", "degraded"},
     reason : {"ordinary", "severe", "hole", "error"},
     active : Nat, conn : {"none", "live", "closed"}, old : 0..MaxOld,
     dial : {"idle", "dialing", "registered"},
     replaces : Slot \cup {None}, replacement : Slot \cup {None},
     mon : [on : BOOLEAN, all : BOOLEAN, rules : SUBSET Rule],
     proof : [rules : SUBSET Rule, other : BOOLEAN]]
RequestState ==
    [st : {"idle", "trip", "answered", "accepted", "tunnel", "release", "retry"},
     slot : Slot \cup {None}, kind : {"client", "managed", "probation"}, cand : BOOLEAN,
     retry : Slot \cup {None}]
TypeOK ==
    /\ slot \in [Slot -> SlotState]
    /\ req \in [Request -> RequestState]
    /\ retired \in BOOLEAN

\* The pool stays one that rotation can work with: at most one candidate, tried by at
\* most one request and linked to its source on both sides; every count of users is
\* exact; and no idle slot is left behind draining, failed or in a retired pool,
\* where no release would ever come to close it (validateHTTP3RotationState,
\* releaseTransport, promoteHTTP3Candidate).
RotationSound ==
    /\ TypeOK
    /\ Cardinality(Warming) <= 1 /\ Cardinality(Pool) <= MaxTransports
    /\ \A s \in Slot : slot[s].active = Cardinality(Holders(s))
    /\ \A s \in Warming :
          /\ slot[s].active <= 1
          /\ \A t \in Serving : slot[s].replaces = t <=> slot[t].replacement = s
    /\ \A s \in Pool : slot[s].active = 0 => ~retired /\ slot[s].lc \in {"warming", "serving"}

\* A QUIC connection never escapes its owner: a slot that left the pool is closed or
\* about to be, and a closed slot has no live connection, whenever the dial returned
\* (ownPhysicalConnection, observeHTTP3PhysicalDial, slot.close).
NoConnectionEscapes ==
    \A s \in Slot : slot[s].home = "closed" => Live(s) = 0

\* A drain armed for one rule never touches a neighbour: the monitor may end a stream,
\* or close a connection under its users, only where the rule of each of them was armed
\* for this very connection, or another serving slot has answered since.
NeighbourSpared ==
    \A s \in Slot : Monitored(s) =>
        \A q \in (IF MayClose(s) THEN Holders(s) ELSE Eligible(s)) :
            RuleOf[q] \in slot[s].proof.rules \/ slot[s].proof.other

=============================================================================
