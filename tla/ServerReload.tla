---------------------------- MODULE ServerReload ----------------------------
(***************************************************************************)
(* The server (controller/server.go, server_reload.go, generation.go):     *)
(* accept loops that lease the current routing generation for each         *)
(* connection, reloads that publish the next generation while they run,    *)
(* retired generations that live until their last lease is returned, and   *)
(* the admission records that carry a listen address's connection quota    *)
(* from one listener to the next.  Serve has been called.  Generations are *)
(* numbered by their id; a listener and an admission record are identified *)
(* by their key and the generation that created them.                      *)
(***************************************************************************)
EXTENDS Integers, FiniteSets

CONSTANTS
    Conn,         \* client connections
    Key,          \* listen addresses
    Address,      \* client IP addresses
    MaxGen,       \* bound on the number of published generations
    MaxRetired,   \* maxRetiredGenerations
    GlobalLimit,  \* serverGlobalConnectionLimit
    RuleLimit,    \* rule.MaxConnections
    AddressLimit  \* rule.MaxConnectionsPerIP

ASSUME ServerAssumption ==
    /\ MaxGen \in Nat \ {0} /\ MaxRetired \in Nat \ {0}
    /\ {GlobalLimit, RuleLimit, AddressLimit} \subseteq Nat \ {0}
    /\ IsFiniteSet(Conn) /\ Key # {} /\ Address # {}

Gen == 1..MaxGen

VARIABLES
    current,    \* server.current
    bindings,   \* generation.bindings: the keys of each generation
    life,       \* retired, backgroundStopped and done of each generation
    refs,       \* generation.refs
    retired,    \* server.retired
    watcher,    \* the goroutines of trackRetired
    listener,   \* listenersByKey: who created the listener and its admission
    admission,  \* admissionsByKey: who created the record, 0 without one
    active,     \* listenerAdmission.active
    perIP,      \* listenerAdmission.perIP
    global,     \* connections in globalLimit
    reload,     \* ReloadRules: its step, the next keys, the admissions it saw
    closed,     \* server.closed
    conn        \* each connection: its step and what it holds

generations == <<current, bindings, life, refs, retired, watcher>>
quotas == <<active, perIP, global>>
vars == <<generations, listener, admission, quotas, reload, closed, conn>>

\* A connection in the accept loop, then in its handler goroutine.
InLoop == {"accepted", "loaded", "leased", "bound", "admitted"}
InHandler == {"pending", "active", "released", "cleaned"}
Leased == {"leased", "bound", "admitted"} \cup InHandler

NoConn == [st |-> "idle", key |-> CHOOSE k \in Key : TRUE, born |-> 0, adm |-> 0,
           gen |-> 0, ip |-> CHOOSE a \in Address : TRUE]
NoListener == [born |-> 0, adm |-> 0]

TypeOK ==
    /\ current \in Gen
    /\ bindings \in [Gen -> SUBSET Key]
    /\ life \in [Gen -> {"unborn", "live", "retiring", "draining", "done"}]
    /\ refs \in [Gen -> Nat]
    /\ retired \in SUBSET Gen
    /\ watcher \in [Gen -> {"off", "waiting", "pruning"}]
    /\ listener \in [Key -> [born : 0..MaxGen, adm : 0..MaxGen]]
    /\ admission \in [Key -> 0..MaxGen]
    /\ active \in [Key \X Gen -> 0..Cardinality(Conn)]
    /\ perIP \in [Key \X Gen -> [Address -> 0..Cardinality(Conn)]]
    /\ global \in 0..GlobalLimit
    /\ reload \in [st : {"idle", "staging", "retiring"}, keys : SUBSET Key,
                   adms : [Key -> 0..MaxGen]]
    /\ closed \in BOOLEAN
    /\ conn \in [Conn -> [st : {"idle"} \cup InLoop \cup InHandler, key : Key,
                          born : 0..MaxGen, adm : 0..MaxGen, gen : 0..MaxGen,
                          ip : Address]]

NoReload == [st |-> "idle", keys |-> {}, adms |-> [k \in Key |-> 0]]

\* NewServer and Serve with rules for the keys K
Init ==
    /\ current = 1
    /\ \E K \in SUBSET Key \ {{}} :
         /\ bindings = [g \in Gen |-> IF g = 1 THEN K ELSE {}]
         /\ listener = [k \in Key |-> IF k \in K THEN [born |-> 1, adm |-> 1]
                                                ELSE NoListener]
         /\ admission = [k \in Key |-> IF k \in K THEN 1 ELSE 0]
    /\ life = [g \in Gen |-> IF g = 1 THEN "live" ELSE "unborn"]
    /\ refs = [g \in Gen |-> 0]
    /\ retired = {}
    /\ watcher = [g \in Gen |-> "off"]
    /\ active = [a \in Key \X Gen |-> 0]
    /\ perIP = [a \in Key \X Gen |-> [i \in Address |-> 0]]
    /\ global = 0
    /\ reload = NoReload
    /\ closed = FALSE
    /\ conn = [c \in Conn |-> NoConn]

Set(c, st) == conn' = [conn EXCEPT ![c].st = st]
Drop(c) == conn' = [conn EXCEPT ![c] = NoConn]
CountDown(n) == IF n > 0 THEN n - 1 ELSE 0

-----------------------------------------------------------------------------
\* Leases

MutCanAcquire(g) == life[g] # "unborn"

\* tryAcquire succeeds on a generation that has not been retired
CanAcquire(g) == life[g] = "live"

\* A release that leaves the cleanup to retire.
MutLifeAfterRelease(g) == life[g]

\* generation.release: the last lease of a retired generation whose
\* background work has stopped cleans it up.
LifeAfterRelease(g) ==
    IF life[g] = "draining" /\ refs[g] = 1 THEN "done" ELSE life[g]

release(g) ==
    /\ refs' = [refs EXCEPT ![g] = CountDown(@)]
    /\ life' = [life EXCEPT ![g] = LifeAfterRelease(g)]
    /\ UNCHANGED <<current, bindings, retired, watcher>>

\* retire up to stopBackground
MarkRetired(g) == life[g] = "live" /\ life' = [life EXCEPT ![g] = "retiring"]

\* retire after stopBackground
BackgroundStopped(g) ==
    /\ life[g] = "retiring"
    /\ life' = [life EXCEPT ![g] = IF refs[g] = 0 THEN "done" ELSE "draining"]

-----------------------------------------------------------------------------
\* acceptLoop, one connection at a time for each listener

Accept(c, k) ==
    /\ conn[c].st = "idle"
    /\ listener[k] # NoListener
    /\ ~closed
    /\ ~\E d \in Conn : /\ conn[d].st \in InLoop
                        /\ conn[d].key = k /\ conn[d].born = listener[k].born
    /\ conn' = [conn EXCEPT ![c] = [NoConn EXCEPT !.st = "accepted", !.key = k,
                                                  !.born = listener[k].born,
                                                  !.adm = listener[k].adm]]
    /\ UNCHANGED <<generations, listener, admission, quotas, reload, closed>>

\* acquireBinding loads the current generation; it may have no such key.
LoadGeneration(c) ==
    /\ conn[c].st = "accepted"
    /\ IF conn[c].key \in bindings[current]
       THEN conn' = [conn EXCEPT ![c].st = "loaded", ![c].gen = current]
       ELSE Drop(c)
    /\ UNCHANGED <<generations, listener, admission, quotas, reload, closed>>

TryAcquire(c) ==
    LET g == conn[c].gen IN
    /\ conn[c].st = "loaded"
    /\ \/ /\ CanAcquire(g)
          /\ refs' = [refs EXCEPT ![g] = @ + 1]
          /\ Set(c, "leased")
       \/ /\ ~CanAcquire(g)
          /\ IF g = current THEN Drop(c) ELSE Set(c, "accepted")
          /\ UNCHANGED refs
    /\ UNCHANGED <<current, bindings, life, retired, watcher, listener, admission, quotas,
                   reload, closed>>

\* A generation that was replaced meanwhile is given back.
RecheckCurrent(c) ==
    LET g == conn[c].gen IN
    /\ conn[c].st = "leased"
    /\ \/ /\ g = current
          /\ Set(c, "bound")
          /\ UNCHANGED generations
       \/ /\ g # current
          /\ Set(c, "accepted")
          /\ release(g)
    /\ UNCHANGED <<listener, admission, quotas, reload, closed>>

\* The peer is invalid or not trusted, or the process is full.
RejectBound(c) ==
    /\ conn[c].st = "bound"
    /\ Drop(c)
    /\ release(conn[c].gen)
    /\ UNCHANGED <<listener, admission, quotas, reload, closed>>

AdmitGlobal(c) ==
    /\ conn[c].st = "bound"
    /\ global < GlobalLimit
    /\ global' = global + 1
    /\ Set(c, "admitted")
    /\ UNCHANGED <<generations, listener, admission, active, perIP, reload, closed>>

\* The quota record of a connection: that of the listener that accepted it.
Record(c) == <<conn[c].key, conn[c].adm>>

\* reserveRule, after which the handler goroutine runs
ReserveRule(c) ==
    /\ conn[c].st = "admitted"
    /\ active[Record(c)] < RuleLimit
    /\ active' = [active EXCEPT ![Record(c)] = @ + 1]
    /\ Set(c, "pending")
    /\ UNCHANGED <<generations, listener, admission, perIP, global, reload, closed>>

RuleFull(c) ==
    /\ conn[c].st = "admitted"
    /\ active[Record(c)] >= RuleLimit
    /\ global' = global - 1
    /\ release(conn[c].gen)
    /\ Drop(c)
    /\ UNCHANGED <<listener, admission, active, perIP, reload, closed>>

-----------------------------------------------------------------------------
\* The handler goroutine

\* assignReservedIP for the effective client address
AssignIP(c, i) ==
    /\ conn[c].st = "pending"
    /\ perIP[Record(c)][i] < AddressLimit
    /\ perIP' = [perIP EXCEPT ![Record(c)][i] = @ + 1]
    /\ conn' = [conn EXCEPT ![c].st = "active", ![c].ip = i]
    /\ UNCHANGED <<generations, listener, admission, active, global, reload, closed>>

\* The PROXY header, the access policy or the per-address limit refuses it:
\* releasePending.
RejectPending(c) ==
    /\ conn[c].st = "pending"
    /\ active' = [active EXCEPT ![Record(c)] = CountDown(@)]
    /\ Set(c, "released")
    /\ UNCHANGED <<generations, listener, admission, perIP, global, reload, closed>>

\* A releaseRule that keeps the address's count.
MutReleaseRule(c) ==
    /\ conn[c].st = "active"
    /\ active' = [active EXCEPT ![Record(c)] = CountDown(@)]
    /\ Set(c, "released")
    /\ UNCHANGED <<generations, listener, admission, perIP, global, reload, closed>>

\* dispatch returned: releaseRule
ReleaseRule(c) ==
    /\ conn[c].st = "active"
    /\ active' = [active EXCEPT ![Record(c)] = CountDown(@)]
    /\ perIP' = [perIP EXCEPT ![Record(c)][conn[c].ip] = CountDown(@)]
    /\ Set(c, "released")
    /\ UNCHANGED <<generations, listener, admission, global, reload, closed>>

\* What neither the current nor a retired generation in use binds.
Unused(k) ==
    /\ k \notin bindings[current]
    /\ \A g \in retired : life[g] = "done" \/ k \notin bindings[g]

IdleRecord(k) == admission[k] # 0 => active[<<k, admission[k]>>] = 0

\* A record is thrown away with its last connection.
MutMaybeCleanupAdmission(c) ==
    /\ conn[c].st = "released"
    /\ admission' =
         [admission EXCEPT ![conn[c].key] =
            IF @ = conn[c].adm /\ IdleRecord(conn[c].key)
               /\ conn[c].key \notin bindings[current] THEN 0 ELSE @]
    /\ Set(c, "cleaned")
    /\ UNCHANGED <<generations, listener, quotas, reload, closed>>

maybeCleanupAdmission(c) ==
    /\ conn[c].st = "released"
    /\ admission' =
         [admission EXCEPT ![conn[c].key] =
            IF @ = conn[c].adm /\ IdleRecord(conn[c].key) /\ Unused(conn[c].key)
            THEN 0 ELSE @]
    /\ Set(c, "cleaned")
    /\ UNCHANGED <<generations, listener, quotas, reload, closed>>

\* The remaining deferred calls: releaseGlobal and generation.release.
HandlerExits(c) ==
    /\ conn[c].st = "cleaned"
    /\ global' = global - 1
    /\ release(conn[c].gen)
    /\ Drop(c)
    /\ UNCHANGED <<listener, admission, active, perIP, reload, closed>>

-----------------------------------------------------------------------------
\* ReloadRules; reloadMu lets one of them run at a time

\* pruneCompletedRetiredLocked
StillDraining == {g \in retired : life[g] # "done"}

MayReload == Cardinality(StillDraining) < MaxRetired

ReloadRejected ==
    /\ reload.st = "idle"
    /\ ~closed
    /\ ~MayReload
    /\ retired' = StillDraining
    /\ UNCHANGED <<current, bindings, life, refs, watcher, listener, admission, quotas,
                   reload, closed, conn>>

\* A reload that retires the old generation before the new one is published.
MutPrepareReload(K) ==
    /\ reload.st = "idle"
    /\ ~closed
    /\ current < MaxGen
    /\ MayReload
    /\ retired' = StillDraining
    /\ reload' = [st |-> "staging", keys |-> K, adms |-> admission]
    /\ life' = [life EXCEPT ![current] = "retiring"]
    /\ UNCHANGED <<current, bindings, refs, watcher, listener, admission, quotas,
                   closed, conn>>

\* The next generation for the keys K, the retired count and the copies of
\* listenersByKey (which only reloads change) and admissionsByKey.
PrepareReload(K) ==
    /\ reload.st = "idle"
    /\ ~closed
    /\ current < MaxGen
    /\ MayReload
    /\ retired' = StillDraining
    /\ reload' = [st |-> "staging", keys |-> K, adms |-> admission]
    /\ UNCHANGED <<current, bindings, life, refs, watcher, listener, admission, quotas,
                   closed, conn>>

\* A listener could not be staged, the context ended or the server closed.
AbortReload ==
    /\ reload.st = "staging"
    /\ reload' = NoReload
    /\ UNCHANGED <<generations, listener, admission, quotas, closed, conn>>

Staged == {k \in reload.keys : listener[k] = NoListener}

\* the admission of a staged listener: the one seen, or a new one
StagedAdmission(k) == IF reload.adms[k] # 0 THEN reload.adms[k] ELSE current + 1

CommitReload ==
    /\ reload.st = "staging"
    /\ ~closed
    /\ listener' = [k \in Key |->
         IF k \in Staged THEN [born |-> current + 1, adm |-> StagedAdmission(k)]
         ELSE IF k \in reload.keys THEN listener[k] ELSE NoListener]
    /\ admission' = [k \in Key |-> IF k \in Staged THEN StagedAdmission(k) ELSE admission[k]]
    /\ current' = current + 1
    /\ bindings' = [bindings EXCEPT ![current + 1] = reload.keys]
    /\ life' = [life EXCEPT ![current + 1] = "live"]
    /\ retired' = retired \cup {current}
    /\ watcher' = [watcher EXCEPT ![current] = "waiting"]
    /\ reload' = [NoReload EXCEPT !.st = "retiring"]
    /\ UNCHANGED <<refs, quotas, closed, conn>>

\* old.retire() at the end of ReloadRules
RetireOld ==
    /\ reload.st = "retiring"
    /\ MarkRetired(current - 1)
    /\ UNCHANGED <<current, bindings, refs, retired, watcher, listener, admission, quotas,
                   reload, closed, conn>>

OldBackgroundStopped ==
    /\ reload.st = "retiring"
    /\ BackgroundStopped(current - 1)
    /\ reload' = NoReload
    /\ UNCHANGED <<current, bindings, refs, retired, watcher, listener, admission, quotas,
                   closed, conn>>

\* The goroutine of trackRetired, once its generation is done ...
WatcherForgets(g) ==
    /\ watcher[g] = "waiting"
    /\ life[g] = "done"
    /\ retired' = retired \ {g}
    /\ watcher' = [watcher EXCEPT ![g] = "pruning"]
    /\ UNCHANGED <<current, bindings, life, refs, listener, admission, quotas, reload,
                   closed, conn>>

\* ... goes on to pruneAdmissions.
pruneAdmissions(g) ==
    /\ watcher[g] = "pruning"
    /\ watcher' = [watcher EXCEPT ![g] = "off"]
    /\ admission' = [k \in Key |-> IF Unused(k) /\ IdleRecord(k) THEN 0 ELSE admission[k]]
    /\ UNCHANGED <<current, bindings, life, refs, retired, listener, quotas, reload,
                   closed, conn>>

-----------------------------------------------------------------------------
\* Close, by the operator or by Serve when its context ends
Close ==
    /\ ~closed
    /\ closed' = TRUE
    /\ UNCHANGED <<generations, listener, admission, quotas, reload, conn>>

\* and then the retirement of the current generation, outside the lock
RetireCurrent ==
    /\ closed
    /\ MarkRetired(current)
    /\ UNCHANGED <<current, bindings, refs, retired, watcher, listener, admission, quotas,
                   reload, closed, conn>>

CurrentBackgroundStopped ==
    /\ closed
    /\ BackgroundStopped(current)
    /\ UNCHANGED <<current, bindings, refs, retired, watcher, listener, admission, quotas,
                   reload, closed, conn>>

AcceptStep(c) ==
    \/ LoadGeneration(c) \/ TryAcquire(c) \/ RecheckCurrent(c) \/ RejectBound(c)
    \/ AdmitGlobal(c) \/ ReserveRule(c) \/ RuleFull(c)

HandlerStep(c) ==
    \/ RejectPending(c) \/ ReleaseRule(c) \/ maybeCleanupAdmission(c) \/ HandlerExits(c)

ReloadStep == AbortReload \/ CommitReload \/ RetireOld \/ OldBackgroundStopped

WatcherStep(g) == WatcherForgets(g) \/ pruneAdmissions(g)

CloseStep == RetireCurrent \/ CurrentBackgroundStopped

Next ==
    \/ \E c \in Conn :
         \/ \E k \in Key : Accept(c, k)
         \/ AcceptStep(c)
         \/ \E i \in Address : AssignIP(c, i)
         \/ HandlerStep(c)
    \/ ReloadRejected
    \/ \E K \in SUBSET Key \ {{}} : PrepareReload(K)
    \/ ReloadStep
    \/ \E g \in Gen : WatcherStep(g)
    \/ Close
    \/ CloseStep

Spec == Init /\ [][Next]_vars

-----------------------------------------------------------------------------
\* A lease protects what it leases: the routing state of a generation is not
\* cleared while a connection, in its handler or still in the accept loop,
\* holds a lease of it, and refs counts the leases exactly.  However slowly
\* they drain, at most maxRetiredGenerations replaced generations are kept
\* besides the current one.
LeaseProtects ==
    /\ TypeOK
    /\ \A g \in Gen :
         LET holders == {c \in Conn : conn[c].st \in Leased /\ conn[c].gen = g} IN
         /\ refs[g] = Cardinality(holders)
         /\ life[g] = "done" => holders = {}
    /\ Cardinality({g \in Gen : g # current /\ life[g] \notin {"unborn", "done"}})
         <= MaxRetired

\* Each record counts the connections admitted through it, and each of its
\* addresses those assigned to it, although refused, finished and cancelled
\* connections return them along different paths.
QuotaAccounting ==
    /\ global = Cardinality({c \in Conn : conn[c].st \in {"admitted"} \cup InHandler})
    /\ \A a \in Key \X Gen :
         LET held == {c \in Conn : conn[c].st \in {"pending", "active"} /\ Record(c) = a} IN
         /\ active[a] = Cardinality(held)
         /\ \A i \in Address :
              perIP[a][i] = Cardinality({c \in held : conn[c].st = "active" /\ conn[c].ip = i})

\* Quota records outlive listeners: cleanups never take away the record of a
\* listener that is being served, which the next reload has to find, nor that
\* of a connection admitted before a reload, so that removing and adding an
\* address back while it is active gives the address no second record.  The
\* latter is said of connections whose address stayed configured from their
\* listener's creation to their lease.
RecordsKept ==
    /\ \A k \in Key : listener[k] # NoListener => admission[k] = listener[k].adm
    /\ \A c \in Conn :
         /\ conn[c].st \in {"pending", "active"}
         /\ \A g \in conn[c].born..conn[c].gen : conn[c].key \in bindings[g]
         => admission[conn[c].key] = conn[c].adm

\* Publishing a generation loses no connection: acquireBinding turns one away
\* only when its address is not configured or the server is closing.
ReloadDropsNothing ==
    [][\A c \in Conn :
         conn[c].st \in {"accepted", "loaded"} /\ conn'[c].st = "idle"
         => closed \/ conn[c].key \notin bindings[current]]_vars

\* Nobody is on the way: no reload, watcher or Close is between two of its
\* steps, and the connections are all gone or in their relays.
Resting ==
    /\ reload = NoReload
    /\ \A g \in Gen : watcher[g] # "off" => watcher[g] = "waiting" /\ life[g] # "done"
    /\ \A c \in Conn : conn[c].st \in {"idle", "active"}
    /\ closed => life[current] \notin {"live", "retiring"}

\* Nothing is left behind at rest, whatever accept loops, handlers, reloads,
\* watchers and Close were doing before: a replaced generation, and after Close
\* the current one, is kept only for the leases it still has, is forgotten
\* once cleaned up, and no quota record remains that no generation in use
\* binds and no connection counts in.  Serve's shutdown, which waits for the
\* generations, therefore waits for handlers only.
RestIsClean ==
    Resting =>
        /\ \A g \in Gen :
             g # current \/ closed => life[g] \in {"unborn", "done"} \/ refs[g] > 0
        /\ \A g \in retired : refs[g] > 0
        /\ \A k \in Key : admission[k] # 0 /\ Unused(k) => ~IdleRecord(k)

\* The comment of listenerAdmission: removing and adding an address back does
\* not reset its limits while connections of the previous socket are active.
QuotaPerAddress ==
    \A k \in Key :
        Cardinality({c \in Conn : conn[c].st \in {"pending", "active"} /\ conn[c].key = k})
            <= RuleLimit

=============================================================================
