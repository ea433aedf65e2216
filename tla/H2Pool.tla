------------------------------- MODULE H2Pool -------------------------------
(***************************************************************************)
(* HTTP/2 CONNECT tunnels to one proxy endpoint: the transports of         *)
(* http2ConnectManager (controller/connect_proxy_h2.go), leased by the     *)
(* requests and dropped when the manager has been retired, and the pool of *)
(* physical connections inside each of them (connect_proxy_h2_pool.go),    *)
(* where requests share one dial, reserve streams, and race with the peer  *)
(* closing connections and with the workers that close idle ones.  Each    *)
(* critical section of the two locks is one action.  golang.org/x/net      *)
(* keeps the streams of a connection and calls MarkDead; it is modelled    *)
(* from how the pool uses it.                                              *)
(***************************************************************************)
EXTENDS Naturals, FiniteSets

CONSTANTS
    Request,      \* CONNECT requests, each with a stream context of its own
    Conn,         \* physical connections, each made once; bounds the dials
    MaxTransport, \* bound on the transports a manager makes for the endpoint
    MaxStreams,   \* streams the peer allows on a connection
    None          \* no request, no connection

ASSUME H2Assumption ==
    /\ IsFiniteSet(Request) /\ IsFiniteSet(Conn)
    /\ None \notin Request \cup Conn
    /\ {MaxTransport, MaxStreams} \subseteq Nat \ {0}

Transport == 1..MaxTransport

VARIABLES
    transport,      \* manager.transports[key], 0 without one
    made,           \* transports made so far
    active,         \* manager.active[key]
    retired,        \* manager.retired
    closing,        \* transports whose closeIdleConnections is about to run
    req,            \* each request: its step, transport, connection, context and error
    dialing,        \* pool.dialing: the request that began the dial, the connection it made
    deadBeforeAdd,  \* pool.deadBeforeAdd
    keys,           \* pool.keys: the transport in whose pool a connection is, or 0
    moved,          \* pool.reservations, as far as it matters: whether it has moved
                    \* since the idle check read it
    idleCheck,      \* pool.idleChecks: the worker's step and check.again
    home,           \* the transport that made a connection
    phys,           \* the physical connection
    ending,         \* streams that their requests have given up
    marked          \* MarkDead has been called for a connection

manager == <<transport, made, active, retired, closing>>
pool == <<dialing, deadBeforeAdd, keys, moved, idleCheck>>
peer == <<home, phys, ending, marked>>
vars == <<manager, req, pool, peer>>

NoRequest == [st |-> "idle", tr |-> 0, conn |-> None, cancelled |-> FALSE, err |-> "none"]
NoDial == [owner |-> None, conn |-> None]
NoCheck == [st |-> "off", again |-> FALSE]

TypeOK ==
    /\ transport \in {0} \cup Transport /\ made \in 0..MaxTransport
    /\ active \in 0..Cardinality(Request)
    /\ retired \in BOOLEAN /\ closing \in SUBSET Transport
    /\ req \in [Request -> [st : {"idle", "getting", "waiting", "answered", "reserved", "open",
                                  "finished"},
                            tr : {0} \cup Transport, conn : Conn \cup {None},
                            cancelled : BOOLEAN, err : {"none", "failed", "canceled"}]]
    /\ dialing \in [Transport -> [owner : Request \cup {None}, conn : Conn \cup {None}]]
    /\ deadBeforeAdd \in [Transport -> SUBSET Conn]
    /\ keys \in [Conn -> {0} \cup Transport] /\ moved \in [Conn -> BOOLEAN]
    /\ idleCheck \in [Conn -> [st : {"off", "begin", "state", "idle", "busy"}, again : BOOLEAN]]
    /\ home \in [Conn -> {0} \cup Transport]
    /\ phys \in [Conn -> {"none", "up", "goaway", "closing", "closed"}]
    /\ ending \in [Conn -> 0..MaxStreams]
    /\ marked \in [Conn -> BOOLEAN]

Init ==
    /\ transport = 0 /\ made = 0 /\ active = 0 /\ retired = FALSE /\ closing = {}
    /\ req = [r \in Request |-> NoRequest]
    /\ dialing = [t \in Transport |-> NoDial]
    /\ deadBeforeAdd = [t \in Transport |-> {}]
    /\ keys = [c \in Conn |-> 0] /\ moved = [c \in Conn |-> FALSE]
    /\ idleCheck = [c \in Conn |-> NoCheck]
    /\ home = [c \in Conn |-> 0] /\ phys = [c \in Conn |-> "none"]
    /\ ending = [c \in Conn |-> 0] /\ marked = [c \in Conn |-> FALSE]

\* Streams of c that are reserved, pending or active.
Holders(c) == {r \in Request : req[r].conn = c /\ req[r].st \in {"reserved", "open"}}
Streams(c) == Cardinality(Holders(c)) + ending[c]

-----------------------------------------------------------------------------
\* http2ConnectManager

\* dial up to the start of RoundTrip: acquireTransport, also by a manager that
\* has been retired, for the requests its generation still serves
AcquireTransport(r) ==
    /\ req[r].st = "idle"
    /\ \/ transport # 0 /\ UNCHANGED <<transport, made>>
       \/ /\ transport = 0 /\ made < MaxTransport
          /\ transport' = made + 1 /\ made' = made + 1
    /\ active' = active + 1
    /\ req' = [req EXCEPT ![r] = [NoRequest EXCEPT !.st = "getting", !.tr = transport']]
    /\ UNCHANGED <<retired, closing, pool, peer>>

\* A caller that takes its lease with it.
MutCallerGone(r) ==
    /\ req[r].st \in {"getting", "waiting", "answered", "reserved"}
    /\ ~req[r].cancelled
    /\ req' = [req EXCEPT ![r].cancelled = TRUE]
    /\ active' = active - 1
    /\ transport' = IF retired /\ active = 1 THEN 0 ELSE transport
    /\ UNCHANGED <<made, retired, closing, pool, peer>>

\* The caller's context ends before the tunnel is up: its caller returns and
\* the stream context is cancelled; the lease stays until RoundTrip returns.
CallerGone(r) ==
    /\ req[r].st \in {"getting", "waiting", "answered", "reserved"}
    /\ ~req[r].cancelled
    /\ req' = [req EXCEPT ![r].cancelled = TRUE]
    /\ UNCHANGED <<manager, pool, peer>>

\* releaseTransport, once per request: the last lease of a retired manager drops the
\* transport.
ReleaseTransport(r) ==
    /\ req[r].st = "finished"
    /\ req' = [req EXCEPT ![r] = NoRequest]
    /\ active' = active - 1
    /\ IF active = 1 /\ retired
       THEN transport' = 0 /\ closing' = closing \cup ({transport} \ {0})
       ELSE UNCHANGED <<transport, closing>>
    /\ UNCHANGED <<made, retired, pool, peer>>

\* retire, by the reload that replaced this manager's generation
Retire ==
    /\ ~retired
    /\ retired' = TRUE
    /\ IF active = 0
       THEN transport' = 0 /\ closing' = closing \cup ({transport} \ {0})
       ELSE UNCHANGED <<transport, closing>>
    /\ UNCHANGED <<made, active, req, pool, peer>>

\* closeIdle, which keeps the transport
CloseIdle ==
    /\ transport \notin {0} \cup closing
    /\ closing' = closing \cup {transport}
    /\ UNCHANGED <<transport, made, active, retired, req, pool, peer>>

-----------------------------------------------------------------------------
\* GetClientConn

Finish(r, e) == req' = [req EXCEPT ![r].st = "finished", ![r].conn = None, ![r].err = e]

\* ReserveNewRequest succeeds on a connection that takes new streams.
MayReserve(c) == phys[c] \in {"up", "goaway"} /\ Streams(c) < MaxStreams

Reserve(r, c) ==
    /\ MayReserve(c)
    /\ req' = [req EXCEPT ![r].st = "reserved", ![r].conn = c]
    /\ moved' = [moved EXCEPT ![c] = idleCheck[c].st # "off"]

CancelledGet(r) ==
    /\ req[r].st = "getting"
    /\ req[r].cancelled
    /\ Finish(r, "canceled")
    /\ UNCHANGED <<manager, pool, peer>>

\* A request takes any connection of the pool that has room for its stream ...
ReservePooled(r, c) ==
    /\ req[r].st = "getting"
    /\ keys[c] = req[r].tr
    /\ Reserve(r, c)
    /\ UNCHANGED <<manager, dialing, deadBeforeAdd, keys, idleCheck, peer>>

\* ... and otherwise joins the dial in progress or begins one.
JoinDial(r) ==
    LET t == req[r].tr IN
    /\ req[r].st = "getting"
    /\ \A c \in Conn : keys[c] = t => ~MayReserve(c)
    /\ req' = [req EXCEPT ![r].st = "waiting"]
    /\ dialing' = [dialing EXCEPT ![t].owner = IF @ = None THEN r ELSE @]
    /\ UNCHANGED <<manager, deadBeforeAdd, keys, moved, idleCheck, peer>>

\* The dial gave a connection: it is reserved if it is still in the pool.
ReserveDialed(r) ==
    LET c == req[r].conn IN
    /\ req[r].st = "answered"
    /\ \/ /\ keys[c] = req[r].tr
          /\ Reserve(r, c)
       \/ /\ keys[c] # req[r].tr \/ ~MayReserve(c)
          /\ req' = [req EXCEPT ![r].st = "getting", ![r].conn = None]
          /\ UNCHANGED moved
    /\ UNCHANGED <<manager, dialing, deadBeforeAdd, keys, idleCheck, peer>>

-----------------------------------------------------------------------------
\* pool.dial, in a goroutine of its own with the context of its owner

DialConnects(t, c) ==
    /\ dialing[t].owner # None /\ dialing[t].conn = None
    /\ phys[c] = "none"
    /\ dialing' = [dialing EXCEPT ![t].conn = c]
    /\ phys' = [phys EXCEPT ![c] = "up"]
    /\ home' = [home EXCEPT ![c] = t]
    /\ UNCHANGED <<manager, req, deadBeforeAdd, keys, moved, idleCheck, ending, marked>>

Waiters(t) == {r \in Request : req[r].st = "waiting" /\ req[r].tr = t}

\* An error reaches every waiter, except that a waiter with a context of its
\* own tries again after a dial that its owner cancelled.
MutAnswerError(t, e) ==
    req' = [r \in Request |->
        IF r \notin Waiters(t) THEN req[r]
        ELSE [req[r] EXCEPT !.st = "finished", !.err = e]]

AnswerError(t, e) ==
    req' = [r \in Request |->
        IF r \notin Waiters(t) THEN req[r]
        ELSE IF e = "canceled" /\ r # dialing[t].owner THEN [req[r] EXCEPT !.st = "getting"]
        ELSE [req[r] EXCEPT !.st = "finished", !.err = e]]

\* The last step of a dial; the pool has one address, so no other dial is
\* in progress and every early notification is dropped.
DialEnds(t) ==
    /\ dialing' = [dialing EXCEPT ![t] = NoDial]
    /\ deadBeforeAdd' = [deadBeforeAdd EXCEPT ![t] = {}]

DialFails(t, e) ==
    /\ dialing[t].owner # None /\ dialing[t].conn = None
    /\ e = "canceled" => req[dialing[t].owner].cancelled
    /\ AnswerError(t, e)
    /\ DialEnds(t)
    /\ UNCHANGED <<manager, keys, moved, idleCheck, peer>>

MutDead(t) == FALSE

Dead(t) == dialing[t].conn \in deadBeforeAdd[t]

\* The connection died before it was added: it is closed, and an error for all.
DialDead(t) ==
    LET c == dialing[t].conn IN
    /\ c # None
    /\ Dead(t)
    /\ AnswerError(t, "failed")
    /\ DialEnds(t)
    /\ phys' = [phys EXCEPT ![c] = "closed"]
    /\ UNCHANGED <<manager, keys, moved, idleCheck, home, ending, marked>>

DialAdds(t) ==
    LET c == dialing[t].conn IN
    /\ c # None
    /\ ~Dead(t)
    /\ req' = [r \in Request |-> IF r \in Waiters(t)
                 THEN [req[r] EXCEPT !.st = "answered", !.conn = c] ELSE req[r]]
    /\ keys' = [keys EXCEPT ![c] = t]
    /\ DialEnds(t)
    /\ UNCHANGED <<manager, moved, idleCheck, peer>>

-----------------------------------------------------------------------------
\* RoundTrip and the tunnel

\* x/net may find the reserved connection unusable and asks the pool again.
ConnUnusable(r) ==
    /\ req[r].st = "reserved"
    /\ phys[req[r].conn] \in {"closing", "closed"}
    /\ req' = [req EXCEPT ![r].st = "getting", ![r].conn = None]
    /\ UNCHANGED <<manager, pool, peer>>

\* A 2xx answer to a caller that is still there.
Established(r) ==
    /\ req[r].st = "reserved"
    /\ ~req[r].cancelled
    /\ phys[req[r].conn] # "closed"
    /\ req' = [req EXCEPT ![r].st = "open"]
    /\ UNCHANGED <<manager, pool, peer>>

\* The setup fails or the tunnel is closed.  The stream context is cancelled
\* first, so that the stream may outlive the request, or have ended before.
GivesUp(r) ==
    LET c == req[r].conn IN
    /\ req[r].st \in {"reserved", "open"}
    /\ Finish(r, IF req[r].cancelled THEN "canceled" ELSE "none")
    /\ \/ phys[c] # "closed" /\ ending' = [ending EXCEPT ![c] = @ + 1]
       \/ UNCHANGED ending
    /\ UNCHANGED <<manager, pool, home, phys, marked>>

StreamEnds(c) ==
    /\ ending[c] > 0
    /\ ending' = [ending EXCEPT ![c] = @ - 1]
    /\ UNCHANGED <<manager, req, pool, home, phys, marked>>

-----------------------------------------------------------------------------
\* closeIdleConnections and its workers

\* A request for a second pass that is lost.
MutAgain(c) == idleCheck[c].again

Again(c) == TRUE

CloseIdleConnections(t) ==
    /\ t \in closing
    /\ closing' = closing \ {t}
    /\ idleCheck' = [c \in Conn |->
         IF keys[c] # t THEN idleCheck[c]
         ELSE IF idleCheck[c].st = "off" THEN [st |-> "begin", again |-> FALSE]
         ELSE [idleCheck[c] EXCEPT !.again = Again(c)]]
    /\ UNCHANGED <<transport, made, active, retired, req, dialing, deadBeforeAdd, keys, moved,
                   peer>>

CheckBegins(c) ==
    /\ idleCheck[c].st = "begin"
    /\ idleCheck' = [idleCheck EXCEPT ![c] = IF keys[c] = 0 THEN NoCheck
                                             ELSE [st |-> "state", again |-> FALSE]]
    /\ moved' = [moved EXCEPT ![c] = FALSE]
    /\ UNCHANGED <<manager, req, dialing, deadBeforeAdd, keys, peer>>

\* connection.State(), outside the pool's lock
CheckReads(c) ==
    /\ idleCheck[c].st = "state"
    /\ idleCheck' = [idleCheck EXCEPT ![c].st = IF Streams(c) = 0 THEN "idle" ELSE "busy"]
    /\ UNCHANGED <<manager, req, dialing, deadBeforeAdd, keys, moved, peer>>

MutMayClose(c) == keys[c] # 0 /\ idleCheck[c].st = "idle"

MayClose(c) == keys[c] # 0 /\ idleCheck[c].st = "idle" /\ ~moved[c]

CheckCloses(c) ==
    /\ idleCheck[c].st \in {"idle", "busy"}
    /\ MayClose(c)
    /\ keys' = [keys EXCEPT ![c] = 0]
    /\ moved' = [moved EXCEPT ![c] = FALSE]
    /\ idleCheck' = [idleCheck EXCEPT ![c] = NoCheck]
    /\ phys' = [phys EXCEPT ![c] = "closed"]
    /\ UNCHANGED <<manager, req, dialing, deadBeforeAdd, home, ending, marked>>

CheckGivesUp(c) ==
    /\ idleCheck[c].st \in {"idle", "busy"}
    /\ ~MayClose(c)
    /\ idleCheck' = [idleCheck EXCEPT ![c] = IF keys[c] # 0 /\ @.again
                                             THEN [@ EXCEPT !.st = "begin"] ELSE NoCheck]
    /\ moved' = [moved EXCEPT ![c] = FALSE]
    /\ UNCHANGED <<manager, req, dialing, deadBeforeAdd, keys, peer>>

-----------------------------------------------------------------------------
\* The connection's own events

MarkDead(c) ==
    /\ keys' = [keys EXCEPT ![c] = 0]
    /\ moved' = [moved EXCEPT ![c] = FALSE]
    /\ marked' = [marked EXCEPT ![c] = TRUE]
    /\ deadBeforeAdd' =
         IF keys[c] = 0 /\ dialing[home[c]].owner # None
         THEN [deadBeforeAdd EXCEPT ![home[c]] = @ \cup {c}] ELSE deadBeforeAdd

\* GOAWAY: MarkDead comes before the connection refuses new streams.
GoAway(c) ==
    /\ phys[c] = "up"
    /\ phys' = [phys EXCEPT ![c] = "goaway"]
    /\ MarkDead(c)
    /\ UNCHANGED <<manager, req, dialing, idleCheck, home, ending>>

GoAwayRefuses(c) ==
    /\ phys[c] = "goaway"
    /\ phys' = [phys EXCEPT ![c] = "closing"]
    /\ UNCHANGED <<manager, req, pool, home, ending, marked>>

\* The peer, a lost PING or the idle timeout closes it ...
ConnLost(c) ==
    /\ phys[c] \in {"up", "goaway", "closing"}
    /\ phys' = [phys EXCEPT ![c] = "closed"]
    /\ ending' = [ending EXCEPT ![c] = 0]
    /\ UNCHANGED <<manager, req, pool, home, marked>>

\* ... and the pool hears of it some time after the connection is closed.
LossNoticed(c) ==
    /\ phys[c] = "closed"
    /\ ~marked[c]
    /\ MarkDead(c)
    /\ UNCHANGED <<manager, req, dialing, idleCheck, home, phys, ending>>

Get(r) ==
    \/ CancelledGet(r) \/ JoinDial(r) \/ ReserveDialed(r)
    \/ \E c \in Conn : ReservePooled(r, c)

Dial(t) ==
    \/ \E c \in Conn : DialConnects(t, c)
    \/ \E e \in {"failed", "canceled"} : DialFails(t, e)
    \/ DialDead(t) \/ DialAdds(t)

Check(c) == CheckBegins(c) \/ CheckReads(c) \/ CheckCloses(c) \/ CheckGivesUp(c)

Next ==
    \/ \E r \in Request :
         \/ AcquireTransport(r) \/ CallerGone(r) \/ ReleaseTransport(r)
         \/ Get(r) \/ ConnUnusable(r) \/ Established(r) \/ GivesUp(r)
    \/ Retire \/ CloseIdle
    \/ \E t \in Transport : Dial(t) \/ CloseIdleConnections(t)
    \/ \E c \in Conn :
         \/ StreamEnds(c) \/ Check(c)
         \/ GoAway(c) \/ GoAwayRefuses(c) \/ ConnLost(c) \/ LossNoticed(c)

Spec == Init /\ [][Next]_vars

\* Goroutines that are not blocked run, and a dial ends by its timeouts.
\* Nothing is assumed of the peer, of tunnels or of x/net's idle timeout.
FairSpec ==
    /\ Spec
    /\ \A t \in Transport : WF_vars(Dial(t)) /\ WF_vars(CloseIdleConnections(t))
    /\ \A c \in Conn : WF_vars(Check(c))

-----------------------------------------------------------------------------
\* A lease keeps its transport: while a request, or a dial it began and
\* abandoned, uses a transport, it stays the manager's, so that retirement
\* can still close what the dial makes; active counts the leases.
LeaseKeepsTransport ==
    /\ active = Cardinality({r \in Request : req[r].st # "idle"})
    /\ \A r \in Request : req[r].st # "idle" => req[r].tr = transport
    /\ \A t \in Transport : dialing[t].owner # None => t = transport

\* A connection that MarkDead was called for is never in the pool, not even
\* when the call came before the dial had added it; and early notifications
\* are kept only for the dial in progress, so that late ones of connections
\* long removed do not pile up.
DeadNeverPooled ==
    /\ TypeOK
    /\ \A c \in Conn : marked[c] => keys[c] = 0
    /\ \A t \in Transport : deadBeforeAdd[t] # {} => dialing[t].owner # None

\* No request fails because another one was cancelled, although they share
\* the dial that was cancelled.
CancelIsOwn == \A r \in Request : req[r].err = "canceled" => req[r].cancelled

\* Closing idle connections never cuts a stream: a worker that saw its
\* connection idle does not close it once a request has reserved it since.
IdleCloseIsIdle ==
    [][\A c \in Conn :
         idleCheck[c].st # "off" /\ idleCheck'[c].st = "off"
         /\ phys[c] # "closed" /\ phys'[c] = "closed" => Streams(c) = 0]_vars

\* What a dropped transport left idle is closed, even if a worker was just
\* looking at the connection when it was still in use.
DroppedIdleCloses ==
    \A c \in Conn :
        home[c] \in closing \ {transport} /\ keys[c] = home[c] /\ Streams(c) = 0
        ~> phys[c] # "up"

=============================================================================
