---------------------------- MODULE DialBulkhead ----------------------------
(***************************************************************************)
(* The foreground dial bulkhead (controller/dial_bulkhead.go): one counter *)
(* for the whole server and one per target, a list of waiters, and the     *)
(* select in acquire that races a grant against the caller's context and   *)
(* the wait timer.  Every critical section of bulkhead.mu is one action;   *)
(* the unlocked gaps between two critical sections of one call are states  *)
(* of call[d], so another dialer may run there.                            *)
(***************************************************************************)
EXTENDS Naturals, FiniteSets

CONSTANTS
    Dialer,          \* goroutines that dial; each makes one call at a time
    Target,          \* upstream addresses
    GlobalLimit,     \* trafficDialGlobalLimit
    PerTargetLimit   \* trafficDialPerTargetLimit

\* newDialBulkhead normalises both limits to this range
ASSUME LimitsAssumption ==
    /\ GlobalLimit \in Nat \ {0}
    /\ PerTargetLimit \in 1..GlobalLimit

ASSUME DialerAssumption == IsFiniteSet(Dialer)

VARIABLES
    active,          \* bulkhead.active
    activeByTarget,  \* bulkhead.activeByTarget; an absent key reads as 0
    waiting,         \* bulkhead.waiting
    ahead,           \* bulkhead.waiters: the waiters in front of d's element
    waiter,          \* d's dialBulkheadWaiter: no waiter, in the list, or granted
    call,            \* how far d's acquire or tryAcquire has got
    target,          \* the address d dials
    cancelled,       \* whether the context of d's call is done
    result           \* what d's last call returned when it got no permit

bulkheadVars ==
    <<active, activeByTarget, waiting, ahead, waiter, call, target, cancelled, result>>

CallStates == {"idle", "entered", "admitted", "selecting", "cancelling", "holding"}
Results == {"none", "ctx", "Global", "Target", "Unknown"}

BulkheadTypeOK ==
    /\ active \in Nat
    /\ activeByTarget \in [Target -> Nat]
    /\ waiting \in Nat
    /\ ahead \in [Dialer -> SUBSET Dialer]
    /\ waiter \in [Dialer -> {"none", "queued", "granted"}]
    /\ call \in [Dialer -> CallStates]
    /\ target \in [Dialer -> Target]
    /\ cancelled \in [Dialer -> BOOLEAN]
    /\ result \in [Dialer -> Results]

BulkheadInit ==
    /\ active = 0
    /\ activeByTarget = [t \in Target |-> 0]
    /\ waiting = 0
    /\ ahead = [d \in Dialer |-> {}]
    /\ waiter = [d \in Dialer |-> "none"]
    /\ call = [d \in Dialer |-> "idle"]
    /\ target \in [Dialer -> Target]
    /\ cancelled = [d \in Dialer |-> FALSE]
    /\ result = [d \in Dialer |-> "none"]

Queued == {d \in Dialer : waiter[d] = "queued"}

\* The dialers that own a slot: granted by another goroutine, or admitted and
\* not yet released.
Owners == {d \in Dialer : waiter[d] = "granted" \/ call[d] \in {"admitted", "holding"}}
OwnersOf(t) == {d \in Owners : target[d] = t}

-----------------------------------------------------------------------------
canAdmitLocked(t) == active < GlobalLimit /\ activeByTarget[t] < PerTargetLimit

saturationScopeLocked(t) ==
    IF active >= GlobalLimit THEN "Global"
    ELSE IF activeByTarget[t] >= PerTargetLimit THEN "Target"
    ELSE "Unknown"

admitLocked(t) ==
    /\ active' = active + 1
    /\ activeByTarget' = [activeByTarget EXCEPT ![t] = @ + 1]

\* releaseLocked never takes a counter below zero
CountDown(n) == IF n > 0 THEN n - 1 ELSE 0
ActiveAfterRelease == CountDown(active)
ByTargetAfterRelease(t) == [activeByTarget EXCEPT ![t] = CountDown(@)]

MutGrantScan(G, act, byTarget) ==
    \A d \in Queued :
        LET behind == {e \in G : d \in ahead[e]} IN
        d \in G <=> /\ act + Cardinality(behind) < GlobalLimit
                    /\ byTarget[target[d]]
                         + Cardinality({e \in behind : target[e] = target[d]})
                           < PerTargetLimit

\* G is what the loop of grantWaitersLocked grants when it starts from the
\* counters act and byTarget: going from the front of the list, a waiter is
\* granted iff the grants made before it leave room for it in both limits.
GrantScan(G, act, byTarget) ==
    \A d \in Queued :
        LET before == G \cap ahead[d] IN
        d \in G <=> /\ act + Cardinality(before) < GlobalLimit
                    /\ byTarget[target[d]]
                         + Cardinality({e \in before : target[e] = target[d]})
                           < PerTargetLimit

\* releaseLocked(target[d]) followed by grantWaitersLocked, which leaves d
\* itself with the waiter state st.
ReleaseAndGrant(d, st) ==
    LET byTarget == ByTargetAfterRelease(target[d]) IN
    \E G \in SUBSET Queued :
        /\ GrantScan(G, ActiveAfterRelease, byTarget)
        /\ active' = ActiveAfterRelease + Cardinality(G)
        /\ activeByTarget' =
             [t \in Target |-> byTarget[t] + Cardinality({e \in G : target[e] = t})]
        /\ waiting' = waiting - Cardinality(G)
        /\ ahead' = [e \in Dialer |-> IF e \in G THEN {} ELSE ahead[e] \ G]
        /\ waiter' = [e \in Dialer |-> IF e \in G THEN "granted"
                                       ELSE IF e = d THEN st ELSE waiter[e]]

Finish(d, r) ==
    /\ call' = [call EXCEPT ![d] = "idle"]
    /\ result' = [result EXCEPT ![d] = r]

-----------------------------------------------------------------------------
\* A goroutine enters acquire or tryAcquire for t with a live context.
Enter(d, t) ==
    /\ call[d] = "idle"
    /\ call' = [call EXCEPT ![d] = "entered"]
    /\ target' = [target EXCEPT ![d] = t]
    /\ cancelled' = [cancelled EXCEPT ![d] = FALSE]
    /\ result' = [result EXCEPT ![d] = "none"]
    /\ UNCHANGED <<active, activeByTarget, waiting, ahead, waiter>>

\* The caller's context ends: client gone, race lost, or deadline reached.
CancelContext(d) ==
    /\ call[d] # "idle"
    /\ ~cancelled[d]
    /\ cancelled' = [cancelled EXCEPT ![d] = TRUE]
    /\ UNCHANGED <<active, activeByTarget, waiting, ahead, waiter, call, target, result>>

\* The check of ctx.Err() before the lock.
RefuseDone(d) ==
    /\ call[d] = "entered"
    /\ cancelled[d]
    /\ Finish(d, "ctx")
    /\ UNCHANGED <<active, activeByTarget, waiting, ahead, waiter, target, cancelled>>

\* acquire and tryAcquire share the immediate admission.
Admit(d) ==
    /\ call[d] = "entered"
    /\ canAdmitLocked(target[d])
    /\ admitLocked(target[d])
    /\ call' = [call EXCEPT ![d] = "admitted"]
    /\ UNCHANGED <<waiting, ahead, waiter, target, cancelled, result>>

\* acquire without capacity: append a waiter to the list.
Enqueue(d) ==
    /\ call[d] = "entered"
    /\ ~canAdmitLocked(target[d])
    /\ waiter' = [waiter EXCEPT ![d] = "queued"]
    /\ ahead' = [ahead EXCEPT ![d] = Queued]
    /\ waiting' = waiting + 1
    /\ call' = [call EXCEPT ![d] = "selecting"]
    /\ UNCHANGED <<active, activeByTarget, target, cancelled, result>>

\* tryAcquire without capacity: report the scope, never wait.
TryRejected(d) ==
    /\ call[d] = "entered"
    /\ ~canAdmitLocked(target[d])
    /\ \/ cancelled[d] /\ Finish(d, "ctx")
       \/ ~cancelled[d] /\ Finish(d, saturationScopeLocked(target[d]))
    /\ UNCHANGED <<active, activeByTarget, waiting, ahead, waiter, target, cancelled>>

\* The second check of ctx.Err(), after an immediate admission.
AdmittedLive(d) ==
    /\ call[d] = "admitted"
    /\ ~cancelled[d]
    /\ call' = [call EXCEPT ![d] = "holding"]
    /\ UNCHANGED <<active, activeByTarget, waiting, ahead, waiter, target, cancelled, result>>

AdmittedDone(d) ==
    /\ call[d] = "admitted"
    /\ cancelled[d]
    /\ ReleaseAndGrant(d, "none")
    /\ Finish(d, "ctx")
    /\ UNCHANGED <<target, cancelled>>

-----------------------------------------------------------------------------
\* The three cases of the select.  Go picks any ready case, so the timer and
\* the context compete with a grant that has already happened.

\* case <-waiter.ready with a live context: the permit is the caller's.
SelectReady(d) ==
    /\ call[d] = "selecting"
    /\ waiter[d] = "granted"
    /\ ~cancelled[d]
    /\ call' = [call EXCEPT ![d] = "holding"]
    /\ waiter' = [waiter EXCEPT ![d] = "none"]
    /\ UNCHANGED <<active, activeByTarget, waiting, ahead, target, cancelled, result>>

\* case <-ctx.Done(), and case <-waiter.ready with a context already done:
\* both go on to cancelWaiter and return the context's error.
SelectDone(d) ==
    /\ call[d] = "selecting"
    /\ cancelled[d]
    /\ call' = [call EXCEPT ![d] = "cancelling"]
    /\ UNCHANGED <<active, activeByTarget, waiting, ahead, waiter, target, cancelled, result>>

MutSelectTimer(d) == FALSE

\* case <-timer.C (and waitLimit = 0, where the timer has always fired).
SelectTimer(d) ==
    /\ call[d] = "selecting"
    /\ call' = [call EXCEPT ![d] = "cancelling"]
    /\ UNCHANGED <<active, activeByTarget, waiting, ahead, waiter, target, cancelled, result>>

\* The error acquire builds from cancelWaiter's scope: the context wins.
CancelResult(d) == IF cancelled[d] THEN "ctx" ELSE saturationScopeLocked(target[d])

\* A cancelWaiter that only removes queued waiters: a grant that raced with
\* the timer keeps its slot for ever.
MutCancelWaiterGranted(d) ==
    /\ call[d] = "cancelling"
    /\ waiter[d] = "granted"
    /\ Finish(d, CancelResult(d))
    /\ waiter' = [waiter EXCEPT ![d] = "none"]
    /\ UNCHANGED <<active, activeByTarget, waiting, ahead, target, cancelled>>

\* cancelWaiter after a grant won the race: give the slot back and serve the
\* list.
CancelWaiterGranted(d) ==
    /\ call[d] = "cancelling"
    /\ waiter[d] = "granted"
    /\ Finish(d, CancelResult(d))
    /\ ReleaseAndGrant(d, "none")
    /\ UNCHANGED <<target, cancelled>>

\* cancelWaiter of a waiter still in the list: remove its element.
CancelWaiterQueued(d) ==
    /\ call[d] = "cancelling"
    /\ waiter[d] = "queued"
    /\ Finish(d, CancelResult(d))
    /\ waiter' = [waiter EXCEPT ![d] = "none"]
    /\ ahead' = [e \in Dialer |-> IF e = d THEN {} ELSE ahead[e] \ {d}]
    /\ waiting' = waiting - 1
    /\ UNCHANGED <<active, activeByTarget, target, cancelled>>

\* A release that forgets the waiters.
MutRelease(d) ==
    /\ call[d] = "holding"
    /\ active' = ActiveAfterRelease
    /\ activeByTarget' = ByTargetAfterRelease(target[d])
    /\ Finish(d, "none")
    /\ UNCHANGED <<waiting, ahead, waiter, target, cancelled>>

\* permit.release(), which every caller invokes once its dial has ended and
\* which sync.Once makes idempotent.
Release(d) ==
    /\ call[d] = "holding"
    /\ ReleaseAndGrant(d, "none")
    /\ Finish(d, "none")
    /\ UNCHANGED <<target, cancelled>>

BulkheadNext ==
    \E d \in Dialer :
        \/ \E t \in Target : Enter(d, t)
        \/ CancelContext(d)
        \/ RefuseDone(d)
        \/ Admit(d)
        \/ Enqueue(d)
        \/ TryRejected(d)
        \/ AdmittedLive(d)
        \/ AdmittedDone(d)
        \/ SelectReady(d)
        \/ SelectDone(d)
        \/ SelectTimer(d)
        \/ CancelWaiterGranted(d)
        \/ CancelWaiterQueued(d)
        \/ Release(d)

BulkheadSpec == BulkheadInit /\ [][BulkheadNext]_bulkheadVars

\* A runnable goroutine runs and an armed timer fires.  Nothing is assumed of
\* Release or CancelContext: an upstream black hole may hold a slot for ever.
CallStep(d) ==
    \/ Admit(d)
    \/ Enqueue(d)
    \/ AdmittedLive(d)
    \/ AdmittedDone(d)
    \/ SelectTimer(d)
    \/ CancelWaiterGranted(d)
    \/ CancelWaiterQueued(d)

BulkheadFairSpec == BulkheadSpec /\ \A d \in Dialer : WF_bulkheadVars(CallStep(d))

-----------------------------------------------------------------------------
\* Neither the server-wide nor a per-target dial limit is ever exceeded,
\* whichever of admission, grant and cancellation hands out the slot.
WithinLimits ==
    /\ active <= GlobalLimit
    /\ \A t \in Target : activeByTarget[t] <= PerTargetLimit

\* The counters equal what they count, so no slot is lost or returned twice
\* when a grant races with cancelWaiter: each owner holds one slot of its
\* target, and bulkhead.waiting is the length of the list.
SlotAccounting ==
    /\ active = Cardinality(Owners)
    /\ \A t \in Target : activeByTarget[t] = Cardinality(OwnersOf(t))
    /\ waiting = Cardinality(Queued)

\* No interleaving of admission, grant, timer, cancellation and release exceeds
\* a limit, loses a slot or returns one twice.
SlotsExact == BulkheadTypeOK /\ WithinLimits /\ SlotAccounting

\* No lost wakeup: whenever bulkhead.mu is free, no waiter in the list could
\* be admitted.
NoGrantableWaiter == \A d \in Queued : ~canAdmitLocked(target[d])

\* FIFO within a target: a dialer that gets a slot passes no waiter of the same
\* target that was in the list before it, be it by immediate admission or by a
\* grant.
NoOvertaking ==
    [][\A d, e \in Dialer :
         /\ d \in Owners' /\ d \notin Owners
         /\ e \in Queued /\ e \in Queued'
         /\ target[e] = target[d]
         => d \in Queued /\ e \notin ahead[d]]_bulkheadVars

\* Even if no dial ever ends, every call returns a permit or an error.
EveryCallSettles ==
    \A d \in Dialer : call[d] = "entered" ~> call[d] \in {"holding", "idle"}

=============================================================================
