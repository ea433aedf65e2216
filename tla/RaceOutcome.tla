---------------------------- MODULE RaceOutcome ----------------------------
(***************************************************************************)
(* What a routing decision promises the handler that asked for it, whatever *)
(* it does inside: sockets are opened towards targets, at most one of them  *)
(* is handed over, every other one is closed before the decision returns,  *)
(* and the decision does return.  BoostRace implements this.               *)
(***************************************************************************)
CONSTANT Target  \* the targets of the rule

VARIABLES
    sock,    \* the socket opened towards each target
    result   \* what the decision has returned

vars == <<sock, result>>

Init ==
    /\ sock = [t \in Target |-> "none"]
    /\ result = "pending"

Open(t) ==
    /\ sock[t] = "none"
    /\ sock' = [sock EXCEPT ![t] = "open"]
    /\ UNCHANGED result

Discard(t) ==
    /\ sock[t] = "open"
    /\ sock' = [sock EXCEPT ![t] = "closed"]
    /\ UNCHANGED result

\* The handler owns the one socket that is still open.
Deliver(t) ==
    /\ sock[t] = "open"
    /\ \A u \in Target \ {t} : sock[u] # "open"
    /\ sock' = [sock EXCEPT ![t] = "handed"]
    /\ result' = "won"

Fail ==
    /\ \A t \in Target : sock[t] # "open"
    /\ result' = "failed"
    /\ UNCHANGED sock

Next ==
    /\ result = "pending"
    /\ \/ \E t \in Target : Open(t) \/ Discard(t) \/ Deliver(t)
       \/ Fail

Spec == Init /\ [][Next]_vars /\ WF_vars(Next)
=============================================================================
