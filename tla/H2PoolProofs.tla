---------------------------- MODULE H2PoolProofs ----------------------------
(***************************************************************************)
(* The HTTP/2 transports and their pools for every number of requests,     *)
(* connections, transports and streams.                                    *)
(***************************************************************************)
EXTENDS H2Pool, FiniteSetTheorems, TLAPS

Leased == {r \in Request : req[r].st # "idle"}

\* active counts the leases, each of the manager's transport, and a request
\* that was given a connection has one.
LeasesOK ==
    /\ active = Cardinality(Leased)
    /\ \A r \in Request : req[r].st # "idle" => req[r].tr = transport /\ transport # 0
    /\ \A r \in Request : req[r].st \in {"answered", "reserved", "open"} => req[r].conn \in Conn

\* A dial is in progress while its owner waits for it; what it has connected
\* is its own, not yet in the pool, not looked at by an idle worker, and known
\* to the pool if it has died since.
DialsOK ==
    \A t \in Transport :
        /\ dialing[t].owner # None =>
             req[dialing[t].owner].st = "waiting" /\ req[dialing[t].owner].tr = t
        /\ dialing[t].conn # None =>
             LET c == dialing[t].conn IN
             /\ dialing[t].owner # None
             /\ home[c] = t /\ keys[c] = 0 /\ idleCheck[c].st = "off" /\ phys[c] # "none"
             /\ marked[c] => c \in deadBeforeAdd[t]
        /\ deadBeforeAdd[t] # {} => dialing[t].owner # None

\* A connection that was not made yet is nowhere, and one that MarkDead was
\* called for is not in the pool.
ConnsOK ==
    \A c \in Conn :
        /\ phys[c] = "none" => keys[c] = 0 /\ ~marked[c] /\ idleCheck[c].st = "off"
        /\ phys[c] # "none" => home[c] # 0
        /\ marked[c] => keys[c] = 0

\* Streams fit on their connection, and a pooled connection that was seen idle
\* has had no stream since, unless reservations has moved.
StreamsOK ==
    \A c \in Conn :
        /\ Streams(c) <= MaxStreams
        /\ idleCheck[c].st = "idle" /\ keys[c] # 0 /\ ~moved[c] => Streams(c) = 0

IInv ==
    /\ TypeOK
    /\ LeasesOK
    /\ DialsOK
    /\ ConnsOK
    /\ StreamsOK
    /\ CancelIsOwn

-----------------------------------------------------------------------------
(* Counting requests. *)

ReqType == [st : {"idle", "getting", "waiting", "answered", "reserved", "open", "finished"},
            tr : {0} \cup Transport, conn : Conn \cup {None}, cancelled : BOOLEAN,
            err : {"none", "failed", "canceled"}]

Using == {"reserved", "open"}

LEMMA RequestsFinite ==
    ASSUME NEW S \in SUBSET Request
    PROVE  IsFiniteSet(S) /\ Cardinality(S) \in 0..Cardinality(Request)
           /\ Cardinality(Request) \in Nat
<1>1. IsFiniteSet(Request)
  BY H2Assumption
<1>2. IsFiniteSet(S) /\ Cardinality(S) <= Cardinality(Request)
  BY <1>1, FS_Subset
<1>3. Cardinality(S) \in Nat /\ Cardinality(Request) \in Nat
  BY <1>1, <1>2, FS_CardinalityType
<1> QED
  BY <1>2, <1>3

\* A set of requests that a step of r may have entered or left.
LEMMA CountMoves ==
    ASSUME NEW r \in Request, NEW S \in SUBSET Request, NEW T \in SUBSET Request,
           \A q \in Request \ {r} : q \in S <=> q \in T
    PROVE  /\ (r \in S <=> r \in T) => Cardinality(T) = Cardinality(S)
           /\ r \in S /\ r \notin T => Cardinality(T) = Cardinality(S) - 1
           /\ r \notin S /\ r \in T => Cardinality(T) = Cardinality(S) + 1
           /\ r \in S => Cardinality(S) > 0
           /\ Cardinality(S) \in Nat /\ Cardinality(T) \in Nat
<1>1. IsFiniteSet(S) /\ IsFiniteSet(T) /\ Cardinality(S) \in Nat /\ Cardinality(T) \in Nat
  BY RequestsFinite
<1>2. (r \in S <=> r \in T) => S = T
  OBVIOUS
<1>3. r \in S /\ r \notin T => T = S \ {r}
  OBVIOUS
<1>4. r \notin S /\ r \in T => T = S \cup {r}
  OBVIOUS
<1>5. r \in S => Cardinality(S \ {r}) = Cardinality(S) - 1
  BY <1>1, FS_RemoveElement
<1>6. r \notin S => Cardinality(S \cup {r}) = Cardinality(S) + 1
  BY <1>1, FS_AddElement
<1>7. r \in S => Cardinality(S) > 0
  BY <1>1, FS_EmptySet
<1> QED
  BY <1>1, <1>2, <1>3, <1>4, <1>5, <1>6, <1>7

\* The last lease is the only one.
LEMMA LastLease ==
    ASSUME NEW r \in Leased, Cardinality(Leased) = 1
    PROVE  \A q \in Request : q # r => req[q].st = "idle"
<1>1. IsFiniteSet(Leased)
  BY RequestsFinite DEF Leased
<1>2. PICK x : Leased = {x}
  BY <1>1, FS_Singleton
<1> QED
  BY <1>2 DEF Leased

LEMMA NoRequestType ==
    /\ NoRequest \in ReqType /\ NoRequest.st = "idle" /\ NoRequest.tr = 0
    /\ NoRequest.err = "none"
BY DEF NoRequest, ReqType

-----------------------------------------------------------------------------
(* What a step of one request may do, whatever the step. *)

\* Its lease of the manager's transport: kept, taken or given back.
LeaseChange(r) ==
    \/ /\ req[r].st # "idle" /\ req'[r].st # "idle" /\ req'[r].tr = req[r].tr
       /\ active' = active /\ transport' = transport
    \/ /\ req[r].st = "idle" /\ req'[r].st = "getting" /\ req'[r].tr = transport'
       /\ active' = active + 1
       /\ transport' \in Transport /\ (transport # 0 => transport' = transport)
    \/ /\ req[r].st = "finished" /\ req'[r].st = "idle"
       /\ active' = active - 1
       /\ transport' = transport \/ (transport' = 0 /\ active = 1)

\* Its part in the dial.
DialChange(r) ==
    \/ dialing' = dialing /\ req[r].st # "waiting"
    \/ dialing' = dialing /\ req[r].st = "waiting" /\ req'[r].st = "waiting"
    \/ /\ req[r].st = "getting" /\ req'[r].st = "waiting"
       /\ dialing' = [dialing EXCEPT ![req[r].tr] =
            [dialing[req[r].tr] EXCEPT !.owner =
               IF dialing[req[r].tr].owner = None THEN r ELSE dialing[req[r].tr].owner]]

\* Its stream: kept or lost, reserved, or left to end by itself.
StreamChange(r) ==
    \/ /\ ending' = ending /\ moved' = moved
       /\ req'[r].st \in Using => req[r].st \in Using /\ req'[r].conn = req[r].conn
    \/ /\ req[r].st \notin Using /\ req'[r].st = "reserved" /\ req'[r].conn \in Conn
       /\ Streams(req'[r].conn) < MaxStreams
       /\ ending' = ending
       /\ moved' = [moved EXCEPT ![req'[r].conn] = idleCheck[req'[r].conn].st # "off"]
    \/ /\ req[r].st \in Using /\ req'[r].st = "finished"
       /\ moved' = moved
       /\ ending' = [ending EXCEPT ![req[r].conn] = @ + 1]

RequestEffect(r) ==
    /\ UNCHANGED <<deadBeforeAdd, keys, idleCheck, home, phys, marked>>
    /\ made' \in 0..MaxTransport /\ retired' \in BOOLEAN /\ closing' \in SUBSET Transport
    /\ req' \in [Request -> ReqType]
    /\ \A q \in Request \ {r} : req'[q] = req[q]
    /\ req'[r].st \in {"answered", "reserved", "open"} => req'[r].conn \in Conn
    /\ req'[r].err = "canceled" => req'[r].cancelled
    /\ LeaseChange(r) /\ DialChange(r) /\ StreamChange(r)

RequestStep(r) ==
    \/ AcquireTransport(r) \/ CallerGone(r) \/ ReleaseTransport(r)
    \/ Get(r) \/ ConnUnusable(r) \/ Established(r) \/ GivesUp(r)

LEMMA RequestStepEffect ==
    ASSUME IInv, NEW r \in Request, RequestStep(r)
    PROVE  RequestEffect(r)
<1> USE DEF RequestEffect, manager, pool, peer, Using
<1>1. /\ req \in [Request -> ReqType] /\ made \in 0..MaxTransport /\ retired \in BOOLEAN
      /\ closing \in SUBSET Transport /\ transport \in {0} \cup Transport
      /\ MaxTransport \in Nat
      /\ dialing \in [Transport -> [owner : Request \cup {None}, conn : Conn \cup {None}]]
  BY H2Assumption DEF IInv, TypeOK, ReqType
<1>2. /\ req[r].st \in {"answered", "reserved", "open"} => req[r].conn \in Conn
      /\ req[r].err = "canceled" => req[r].cancelled
  BY DEF IInv, LeasesOK, CancelIsOwn
<1>3. CASE AcquireTransport(r)
  <2> DEFINE new == [NoRequest EXCEPT !.st = "getting", !.tr = transport']
  <2>1. transport' \in Transport /\ made' \in 0..MaxTransport
        /\ (transport # 0 => transport' = transport)
    BY <1>1, <1>3 DEF AcquireTransport, Transport
  <2>2. new \in ReqType /\ new.st = "getting" /\ new.tr = transport' /\ new.err = "none"
    BY <2>1 DEF NoRequest, ReqType
  <2>3. req' = [req EXCEPT ![r] = new] /\ req[r].st = "idle"
    BY <1>3 DEF AcquireTransport
  <2> HIDE DEF new
  <2>4. /\ req' \in [Request -> ReqType] /\ req'[r] = new
        /\ \A q \in Request \ {r} : req'[q] = req[q]
    BY <1>1, <2>2, <2>3
  <2> QED
    BY <1>1, <1>3, <2>1, <2>2, <2>3, <2>4 DEF AcquireTransport, LeaseChange, DialChange,
                                              StreamChange
<1>4. CASE CallerGone(r)
  <2>1. /\ req' \in [Request -> ReqType] /\ \A q \in Request \ {r} : req'[q] = req[q]
        /\ req'[r].st = req[r].st /\ req'[r].tr = req[r].tr /\ req'[r].conn = req[r].conn
        /\ req'[r].cancelled
    BY <1>1, <1>4 DEF CallerGone, ReqType
  <2> QED
    BY <1>1, <1>2, <1>4, <2>1 DEF CallerGone, LeaseChange, DialChange, StreamChange
<1>5. CASE ReleaseTransport(r)
  <2>1. /\ req' \in [Request -> ReqType] /\ \A q \in Request \ {r} : req'[q] = req[q]
        /\ req'[r] = NoRequest
    BY <1>1, <1>5, NoRequestType DEF ReleaseTransport
  <2>2. closing' \in SUBSET Transport
    BY <1>1, <1>5 DEF ReleaseTransport
  <2> QED
    BY <1>1, <1>5, <2>1, <2>2, NoRequestType DEF ReleaseTransport, LeaseChange, DialChange,
                                                 StreamChange
<1>6. ASSUME NEW st \in {"getting", "waiting", "open"}, NEW k \in Conn \cup {None},
             req' = [req EXCEPT ![r] = [req[r] EXCEPT !.st = st, !.conn = k]]
      PROVE  /\ req' \in [Request -> ReqType] /\ \A q \in Request \ {r} : req'[q] = req[q]
             /\ req'[r].st = st /\ req'[r].tr = req[r].tr /\ req'[r].conn = k
             /\ req'[r].err = req[r].err /\ req'[r].cancelled = req[r].cancelled
  BY <1>1, <1>6 DEF ReqType
<1>7. ASSUME NEW e \in {"none", "canceled"}, Finish(r, e)
      PROVE  /\ req' \in [Request -> ReqType] /\ \A q \in Request \ {r} : req'[q] = req[q]
             /\ req'[r].st = "finished" /\ req'[r].tr = req[r].tr
             /\ req'[r].err = e /\ req'[r].cancelled = req[r].cancelled
  <2>1. req' = [req EXCEPT ![r] = [req[r] EXCEPT !.st = "finished", !.conn = None, !.err = e]]
    BY <1>1, <1>7 DEF Finish, ReqType
  <2> DEFINE new == [req[r] EXCEPT !.st = "finished", !.conn = None, !.err = e]
  <2>2. new \in ReqType /\ new.st = "finished" /\ new.tr = req[r].tr /\ new.err = e
        /\ new.cancelled = req[r].cancelled
    BY <1>1 DEF ReqType
  <2> HIDE DEF new
  <2>3. req' = [req EXCEPT ![r] = new]
    BY <2>1 DEF new
  <2> QED
    BY <1>1, <2>2, <2>3
<1>8. ASSUME NEW c \in Conn, Reserve(r, c), req[r].st \in {"getting", "answered"}
      PROVE  /\ req' \in [Request -> ReqType] /\ \A q \in Request \ {r} : req'[q] = req[q]
             /\ req'[r].st = "reserved" /\ req'[r].tr = req[r].tr /\ req'[r].conn = c
             /\ req'[r].err = req[r].err /\ req'[r].cancelled = req[r].cancelled
             /\ Streams(c) < MaxStreams
             /\ moved' = [moved EXCEPT ![c] = idleCheck[c].st # "off"]
  <2>1. req' = [req EXCEPT ![r] = [req[r] EXCEPT !.st = "reserved", !.conn = c]]
    BY <1>1, <1>8 DEF Reserve, ReqType
  <2> QED
    BY <1>1, <1>8, <2>1 DEF Reserve, MayReserve, ReqType
<1>9. CASE CancelledGet(r)
  BY <1>1, <1>7, <1>9 DEF CancelledGet, LeaseChange, DialChange, StreamChange
<1>10. ASSUME NEW c \in Conn, ReservePooled(r, c) PROVE RequestEffect(r)
  <2>1. Reserve(r, c) /\ req[r].st = "getting"
    BY <1>10 DEF ReservePooled
  <2> QED
    BY <1>1, <1>2, <1>8, <1>10, <2>1 DEF ReservePooled, LeaseChange, DialChange, StreamChange
<1>11. CASE JoinDial(r)
  <2>1. req' = [req EXCEPT ![r] = [req[r] EXCEPT !.st = "waiting", !.conn = req[r].conn]]
        /\ req[r].conn \in Conn \cup {None} /\ req[r].st = "getting"
    BY <1>1, <1>11 DEF JoinDial, ReqType
  <2>2. /\ req' \in [Request -> ReqType] /\ \A q \in Request \ {r} : req'[q] = req[q]
        /\ req'[r].st = "waiting" /\ req'[r].tr = req[r].tr
        /\ req'[r].err = req[r].err /\ req'[r].cancelled = req[r].cancelled
    BY <1>6, <2>1
  <2>3. DialChange(r)
    BY <1>1, <1>11, <2>1, <2>2 DEF JoinDial, DialChange
  <2> QED
    BY <1>1, <1>2, <1>11, <2>1, <2>2, <2>3 DEF JoinDial, LeaseChange, StreamChange
<1>12. CASE ReserveDialed(r)
  <2>0. req[r].st = "answered" /\ req[r].conn \in Conn
    BY <1>2, <1>12 DEF ReserveDialed
  <2>1. CASE Reserve(r, req[r].conn)
    BY <1>1, <1>2, <1>8, <1>12, <2>0, <2>1 DEF ReserveDialed, LeaseChange, DialChange,
                                               StreamChange
  <2>2. CASE req' = [req EXCEPT ![r].st = "getting", ![r].conn = None] /\ UNCHANGED moved
    <3>1. req' = [req EXCEPT ![r] = [req[r] EXCEPT !.st = "getting", !.conn = None]]
      BY <1>1, <2>2 DEF ReqType
    <3> QED
      BY <1>1, <1>2, <1>6, <1>12, <2>0, <2>2, <3>1 DEF ReserveDialed, LeaseChange, DialChange,
                                                       StreamChange
  <2> QED
    BY <1>12, <2>1, <2>2 DEF ReserveDialed
<1>13. CASE ConnUnusable(r)
  <2>1. req' = [req EXCEPT ![r] = [req[r] EXCEPT !.st = "getting", !.conn = None]]
    BY <1>1, <1>13 DEF ConnUnusable, ReqType
  <2> QED
    BY <1>1, <1>2, <1>6, <1>13, <2>1 DEF ConnUnusable, LeaseChange, DialChange, StreamChange
<1>14. CASE Established(r)
  <2>1. req' = [req EXCEPT ![r] = [req[r] EXCEPT !.st = "open", !.conn = req[r].conn]]
        /\ req[r].st = "reserved" /\ req[r].conn \in Conn
    BY <1>1, <1>2, <1>14 DEF Established, ReqType
  <2> QED
    BY <1>1, <1>2, <1>6, <1>14, <2>1 DEF Established, LeaseChange, DialChange, StreamChange
<1>15. CASE GivesUp(r)
  <2>1. PICK e \in {"none", "canceled"} : Finish(r, e) /\ (e = "canceled" => req[r].cancelled)
    BY <1>15 DEF GivesUp
  <2> QED
    BY <1>1, <1>7, <1>15, <2>1 DEF GivesUp, LeaseChange, DialChange, StreamChange
<1> QED
  BY <1>3, <1>4, <1>5, <1>9, <1>10, <1>11, <1>12, <1>13, <1>14, <1>15 DEF RequestStep, Get

\* The counters stay in their types because they count.
LEMMA CountersTyped ==
    ASSUME \A c \in Conn : ending'[c] \in Nat /\ Streams(c)' <= MaxStreams,
           active' = Cardinality(Leased')
    PROVE  active' \in 0..Cardinality(Request) /\ \A c \in Conn : ending'[c] \in 0..MaxStreams
<1>1. active' \in 0..Cardinality(Request)
  <2>1. Leased' \in SUBSET Request
    BY DEF Leased
  <2> QED
    BY <2>1, RequestsFinite
<1>2. ASSUME NEW c \in Conn PROVE ending'[c] \in 0..MaxStreams
  <2>1. Holders(c)' \in SUBSET Request
    BY DEF Holders
  <2>2. Cardinality(Holders(c)') \in Nat
    BY <2>1, RequestsFinite
  <2>3. Streams(c)' = Cardinality(Holders(c)') + ending'[c]
    BY DEF Streams
  <2> QED
    BY <2>2, <2>3, H2Assumption
<1> QED
  BY <1>1, <1>2

LEMMA RequestKeepsLeases ==
    ASSUME IInv, NEW r \in Request, RequestEffect(r)
    PROVE  LeasesOK' /\ transport' \in {0} \cup Transport
<1>1. /\ \A q \in Request \ {r} : req'[q] = req[q]
      /\ LeaseChange(r) /\ transport \in {0} \cup Transport /\ active = Cardinality(Leased)
      /\ \A q \in Request : req[q].st # "idle" => req[q].tr = transport /\ transport # 0
      /\ \A t \in Transport : t # 0
  BY DEF RequestEffect, IInv, TypeOK, LeasesOK, Transport
<1>2. \A q \in Request : (q \in Leased <=> req[q].st # "idle")
                         /\ (q \in Leased' <=> req'[q].st # "idle")
  BY DEF Leased
<1>3. Leased \in SUBSET Request /\ Leased' \in SUBSET Request
  BY DEF Leased
<1>4. /\ (r \in Leased <=> r \in Leased') => Cardinality(Leased') = Cardinality(Leased)
      /\ r \in Leased /\ r \notin Leased' => Cardinality(Leased') = Cardinality(Leased) - 1
      /\ r \notin Leased /\ r \in Leased' => Cardinality(Leased') = Cardinality(Leased) + 1
  BY <1>1, <1>2, <1>3, CountMoves
<1>5. active' = Cardinality(Leased')
  BY <1>1, <1>2, <1>4 DEF LeaseChange
<1>6. ASSUME NEW q \in Request, req'[q].st # "idle"
      PROVE  req'[q].tr = transport' /\ transport' # 0
  <2>1. CASE q = r
    BY <1>1, <1>6, <2>1 DEF LeaseChange
  <2>2. CASE q # r
    <3>1. req[q].st # "idle" /\ req'[q] = req[q] /\ transport # 0 /\ req[q].tr = transport
      BY <1>1, <1>6, <2>2
    <3>2. ~(req[r].st = "finished" /\ active = 1)
      <4>1. SUFFICES ASSUME req[r].st = "finished", active = 1 PROVE FALSE
        OBVIOUS
      <4>2. r \in Leased
        BY <1>2, <4>1
      <4> QED
        BY <1>1, <2>2, <3>1, <4>1, <4>2, LastLease
    <3> QED
      BY <1>1, <3>1, <3>2 DEF LeaseChange
  <2> QED
    BY <2>1, <2>2
<1>7. \A q \in Request : req'[q].st \in {"answered", "reserved", "open"} => req'[q].conn \in Conn
  BY DEF RequestEffect, IInv, LeasesOK
<1>8. transport' \in {0} \cup Transport
  BY <1>1 DEF LeaseChange
<1> QED
  BY <1>5, <1>6, <1>7, <1>8 DEF LeasesOK

LEMMA RequestKeepsDials ==
    ASSUME IInv, NEW r \in Request, RequestEffect(r)
    PROVE  /\ DialsOK'
           /\ dialing' \in [Transport -> [owner : Request \cup {None}, conn : Conn \cup {None}]]
<1> DEFINE DialType == [owner : Request \cup {None}, conn : Conn \cup {None}]
<1>1. /\ dialing \in [Transport -> DialType] /\ req \in [Request -> ReqType]
      /\ req' \in [Request -> ReqType]
      /\ \A q \in Request \ {r} : req'[q] = req[q]
      /\ LeaseChange(r) /\ DialChange(r) /\ None \notin Request
      /\ UNCHANGED <<deadBeforeAdd, keys, idleCheck, home, phys, marked>>
  BY H2Assumption DEF RequestEffect, IInv, TypeOK, ReqType
<1>2. req[r].st = "waiting" => req'[r].st = "waiting" /\ req'[r].tr = req[r].tr
  BY <1>1 DEF DialChange, LeaseChange
<1>3. ASSUME NEW t \in Transport
      PROVE  /\ dialing'[t] \in DialType /\ dialing'[t].conn = dialing[t].conn
             /\ \/ dialing'[t].owner = dialing[t].owner
                \/ dialing[t].owner = None /\ dialing'[t].owner = r /\ req'[r].st = "waiting"
                   /\ req'[r].tr = t
  <2>1. CASE dialing' = dialing
    BY <1>1, <2>1
  <2>2. CASE /\ req[r].st = "getting" /\ req'[r].st = "waiting"
             /\ dialing' = [dialing EXCEPT ![req[r].tr] =
                  [dialing[req[r].tr] EXCEPT !.owner =
                     IF dialing[req[r].tr].owner = None THEN r ELSE dialing[req[r].tr].owner]]
    <3>1. req'[r].tr = req[r].tr
      BY <1>1, <2>2 DEF LeaseChange
    <3>2. CASE t = req[r].tr
      <4>1. dialing'[t] = [dialing[t] EXCEPT !.owner =
                             IF dialing[t].owner = None THEN r ELSE dialing[t].owner]
        BY <1>1, <2>2, <3>2
      <4> QED
        BY <1>1, <2>2, <3>1, <3>2, <4>1
    <3>3. CASE t # req[r].tr
      BY <1>1, <2>2, <3>3
    <3> QED
      BY <3>2, <3>3
  <2> QED
    BY <1>1, <2>1, <2>2 DEF DialChange
<1>4. dialing' \in [Transport -> DialType]
  <2>1. dialing' = [t \in Transport |-> dialing'[t]]
    BY <1>1 DEF DialChange
  <2> QED
    BY <1>3, <2>1
<1>5. ASSUME NEW t \in Transport, dialing'[t].owner # None
      PROVE  req'[dialing'[t].owner].st = "waiting" /\ req'[dialing'[t].owner].tr = t
  <2>1. CASE dialing'[t].owner = dialing[t].owner
    <3>1. /\ dialing[t].owner \in Request /\ req[dialing[t].owner].st = "waiting"
          /\ req[dialing[t].owner].tr = t
      BY <1>1, <1>5, <2>1 DEF IInv, DialsOK
    <3> QED
      BY <1>1, <1>2, <2>1, <3>1
  <2> QED
    BY <1>3, <2>1
<1>6. \A t \in Transport : dialing[t].owner # None => dialing'[t].owner # None
  BY <1>1, <1>3
<1> QED
  BY <1>1, <1>3, <1>4, <1>5, <1>6 DEF IInv, DialsOK

LEMMA RequestKeepsStreams ==
    ASSUME IInv, NEW r \in Request, RequestEffect(r)
    PROVE  /\ StreamsOK' /\ ending' \in [Conn -> Nat] /\ moved' \in [Conn -> BOOLEAN]
<1>1. /\ ending \in [Conn -> Nat] /\ moved \in [Conn -> BOOLEAN]
      /\ req \in [Request -> ReqType] /\ req' \in [Request -> ReqType]
      /\ \A q \in Request \ {r} : req'[q] = req[q]
      /\ StreamChange(r) /\ keys' = keys /\ idleCheck' = idleCheck
      /\ MaxStreams \in Nat
      /\ req[r].st \in Using => req[r].conn \in Conn
  BY H2Assumption DEF RequestEffect, IInv, TypeOK, ReqType, LeasesOK, Using
<1>2. ASSUME NEW c \in Conn
      PROVE  /\ (r \in Holders(c) <=> r \in Holders(c)') =>
                  Cardinality(Holders(c)') = Cardinality(Holders(c))
             /\ r \in Holders(c) /\ r \notin Holders(c)' =>
                  Cardinality(Holders(c)') = Cardinality(Holders(c)) - 1
             /\ r \notin Holders(c) /\ r \in Holders(c)' =>
                  Cardinality(Holders(c)') = Cardinality(Holders(c)) + 1
             /\ Cardinality(Holders(c)) \in Nat /\ Cardinality(Holders(c)') \in Nat
             /\ r \in Holders(c) => Cardinality(Holders(c)) > 0
             /\ r \in Holders(c) <=> req[r].conn = c /\ req[r].st \in Using
             /\ r \in Holders(c)' <=> req'[r].conn = c /\ req'[r].st \in Using
  <2>1. Holders(c) \in SUBSET Request /\ Holders(c)' \in SUBSET Request
    BY DEF Holders
  <2>2. \A q \in Request \ {r} : q \in Holders(c) <=> q \in Holders(c)'
    BY <1>1 DEF Holders
  <2>3. /\ r \in Holders(c) <=> req[r].conn = c /\ req[r].st \in Using
        /\ r \in Holders(c)' <=> req'[r].conn = c /\ req'[r].st \in Using
    BY DEF Holders, Using
  <2> QED
    BY <2>1, <2>2, <2>3, CountMoves
<1>3. ASSUME NEW c \in Conn
      PROVE  /\ Streams(c) = Cardinality(Holders(c)) + ending[c]
             /\ Streams(c)' = Cardinality(Holders(c)') + ending'[c]
             /\ Streams(c) <= MaxStreams
             /\ idleCheck[c].st = "idle" /\ keys[c] # 0 /\ ~moved[c] => Streams(c) = 0
  BY DEF Streams, IInv, StreamsOK
<1> DEFINE Good == /\ ending' \in [Conn -> Nat] /\ moved' \in [Conn -> BOOLEAN]
                   /\ \A c \in Conn :
                        /\ Streams(c)' <= MaxStreams
                        /\ idleCheck[c].st = "idle" /\ keys[c] # 0 /\ ~moved'[c] =>
                             Streams(c)' = 0
<1>4. ASSUME /\ ending' = ending /\ moved' = moved
             /\ req'[r].st \in Using => req[r].st \in Using /\ req'[r].conn = req[r].conn
      PROVE  Good
  <2>1. \A c \in Conn : r \in Holders(c)' => r \in Holders(c)
    BY <1>2, <1>4
  <2> QED
    BY <1>1, <1>2, <1>3, <1>4, <2>1
<1>5. ASSUME /\ req[r].st \notin Using /\ req'[r].st = "reserved" /\ req'[r].conn \in Conn
             /\ Streams(req'[r].conn) < MaxStreams
             /\ ending' = ending
             /\ moved' = [moved EXCEPT ![req'[r].conn] = idleCheck[req'[r].conn].st # "off"]
      PROVE  Good
  <2>1. \A c \in Conn : r \notin Holders(c) /\ (r \in Holders(c)' <=> c = req'[r].conn)
    BY <1>2, <1>5 DEF Using
  <2>2. moved' \in [Conn -> BOOLEAN]
    BY <1>1, <1>5
  <2>3. \A c \in Conn : moved'[c] = IF c = req'[r].conn THEN idleCheck[c].st # "off" ELSE moved[c]
    BY <1>1, <1>5
  <2>4. \A c \in Conn : Streams(c)' = IF c = req'[r].conn THEN Streams(c) + 1 ELSE Streams(c)
    BY <1>1, <1>2, <1>3, <1>5, <2>1
  <2>5. \A c \in Conn : Streams(c) \in Nat
    BY <1>1, <1>2, <1>3
  <2>6. ASSUME NEW c \in Conn
        PROVE  /\ Streams(c)' <= MaxStreams
               /\ idleCheck[c].st = "idle" /\ keys[c] # 0 /\ ~moved'[c] => Streams(c)' = 0
    <3>1. CASE c = req'[r].conn
      <4>1. Streams(c)' <= MaxStreams
        BY <1>1, <1>5, <2>4, <2>5, <3>1
      <4>2. idleCheck[c].st = "idle" => moved'[c]
        BY <2>3, <3>1
      <4> QED
        BY <4>1, <4>2
    <3>2. CASE c # req'[r].conn
      BY <1>3, <2>3, <2>4, <3>2
    <3> QED
      BY <3>1, <3>2
  <2> QED
    BY <1>1, <1>5, <2>2, <2>6
<1>6. ASSUME /\ req[r].st \in Using /\ req'[r].st = "finished"
             /\ moved' = moved
             /\ ending' = [ending EXCEPT ![req[r].conn] = @ + 1]
      PROVE  Good
  <2>1. \A c \in Conn : r \notin Holders(c)' /\ (r \in Holders(c) <=> c = req[r].conn)
    BY <1>2, <1>6 DEF Using
  <2>2. req[r].conn \in Conn
    BY <1>1, <1>6
  <2>3. /\ ending' \in [Conn -> Nat]
        /\ \A c \in Conn : ending'[c] = IF c = req[r].conn THEN ending[c] + 1 ELSE ending[c]
    BY <1>1, <1>6, <2>2
  <2>4. \A c \in Conn : Streams(c)' = Streams(c)
    BY <1>1, <1>2, <1>3, <2>1, <2>3
  <2> QED
    BY <1>1, <1>3, <1>6, <2>3, <2>4
<1>7. Good
  BY <1>1, <1>4, <1>5, <1>6 DEF StreamChange
<1> QED
  BY <1>1, <1>7 DEF StreamsOK

LEMMA RequestKeeps ==
    ASSUME IInv, NEW r \in Request, RequestEffect(r)
    PROVE  IInv'
<1>1. LeasesOK' /\ DialsOK' /\ StreamsOK'
  BY RequestKeepsLeases, RequestKeepsDials, RequestKeepsStreams
<1>2. TypeOK'
  <2>1. active' \in 0..Cardinality(Request) /\ \A c \in Conn : ending'[c] \in 0..MaxStreams
    BY <1>1, RequestKeepsStreams, CountersTyped DEF LeasesOK, StreamsOK
  <2>2. ending' \in [Conn -> 0..MaxStreams]
    BY <2>1, RequestKeepsStreams
  <2> QED
    BY <2>1, <2>2, RequestKeepsLeases, RequestKeepsDials, RequestKeepsStreams
       DEF RequestEffect, IInv, TypeOK, ReqType
<1>3. ConnsOK'
  BY DEF RequestEffect, IInv, ConnsOK
<1>4. CancelIsOwn'
  BY DEF RequestEffect, IInv, CancelIsOwn
<1> QED
  BY <1>1, <1>2, <1>3, <1>4 DEF IInv

-----------------------------------------------------------------------------
(* The dial goroutine. *)

LEMMA DialConnectsKeeps ==
    ASSUME IInv, NEW t \in Transport, NEW c \in Conn, DialConnects(t, c)
    PROVE  IInv'
<1>1. /\ dialing \in [Transport -> [owner : Request \cup {None}, conn : Conn \cup {None}]]
      /\ phys \in [Conn -> {"none", "up", "goaway", "closing", "closed"}]
      /\ home \in [Conn -> {0} \cup Transport] /\ None \notin Conn /\ t # 0
      /\ keys[c] = 0 /\ ~marked[c] /\ idleCheck[c].st = "off"
      /\ dialing[t].owner # None /\ phys[c] = "none"
      /\ \A u \in Transport : dialing[u].conn # c
  <2>1. dialing[t].owner # None /\ phys[c] = "none"
    BY DEF DialConnects
  <2>2. keys[c] = 0 /\ ~marked[c] /\ idleCheck[c].st = "off"
    BY <2>1 DEF IInv, ConnsOK
  <2>3. None \notin Conn /\ t # 0
    BY H2Assumption DEF Transport
  <2>4. \A u \in Transport : dialing[u].conn # c
    BY <2>1, <2>3 DEF IInv, DialsOK
  <2> QED
    BY <2>1, <2>2, <2>3, <2>4 DEF IInv, TypeOK
<1>2. /\ transport' = transport /\ made' = made /\ active' = active /\ retired' = retired
      /\ closing' = closing /\ req' = req /\ deadBeforeAdd' = deadBeforeAdd /\ keys' = keys
      /\ moved' = moved /\ idleCheck' = idleCheck /\ ending' = ending /\ marked' = marked
  BY DEF DialConnects, manager
<1>3. /\ dialing' = [dialing EXCEPT ![t] = [dialing[t] EXCEPT !.conn = c]]
      /\ phys' = [phys EXCEPT ![c] = "up"] /\ home' = [home EXCEPT ![c] = t]
  BY <1>1 DEF DialConnects
<1>4. /\ dialing' \in [Transport -> [owner : Request \cup {None}, conn : Conn \cup {None}]]
      /\ \A u \in Transport : dialing'[u].owner = dialing[u].owner
      /\ dialing'[t].conn = c /\ \A u \in Transport \ {t} : dialing'[u].conn = dialing[u].conn
  BY <1>1, <1>3
<1>5. /\ phys' \in [Conn -> {"none", "up", "goaway", "closing", "closed"}]
      /\ home' \in [Conn -> {0} \cup Transport]
      /\ phys'[c] = "up" /\ home'[c] = t
      /\ \A d \in Conn \ {c} : phys'[d] = phys[d] /\ home'[d] = home[d]
  BY <1>1, <1>3
<1>6. TypeOK'
  BY <1>2, <1>4, <1>5 DEF IInv, TypeOK
<1>7. LeasesOK' /\ CancelIsOwn'
  BY <1>2 DEF IInv, LeasesOK, Leased, CancelIsOwn
<1>8. DialsOK'
  <2>1. SUFFICES ASSUME NEW u \in Transport
        PROVE  /\ dialing'[u].owner # None =>
                    req'[dialing'[u].owner].st = "waiting" /\ req'[dialing'[u].owner].tr = u
               /\ dialing'[u].conn # None =>
                    LET d == dialing'[u].conn IN
                    /\ dialing'[u].owner # None
                    /\ home'[d] = u /\ keys'[d] = 0 /\ idleCheck'[d].st = "off"
                    /\ phys'[d] # "none"
                    /\ marked'[d] => d \in deadBeforeAdd'[u]
               /\ deadBeforeAdd'[u] # {} => dialing'[u].owner # None
    BY DEF DialsOK
  <2>2. CASE u = t
    BY <1>1, <1>2, <1>4, <1>5, <2>2 DEF IInv, DialsOK
  <2>3. CASE u # t
    <3>1. dialing[u].conn \in Conn \cup {None} /\ dialing[u].conn # c
      BY <1>1
    <3> QED
      BY <1>1, <1>2, <1>4, <1>5, <2>3, <3>1 DEF IInv, DialsOK
  <2> QED
    BY <2>2, <2>3
<1>9. ConnsOK'
  BY <1>1, <1>2, <1>5 DEF IInv, ConnsOK
<1>10. StreamsOK'
  BY <1>2 DEF IInv, StreamsOK, Streams, Holders
<1> QED
  BY <1>6, <1>7, <1>8, <1>9, <1>10 DEF IInv

\* However a dial ends, its waiters go on, what it made is closed or added to
\* the pool, the latter only if it has not been marked dead.
DialEndEffect(t) ==
    /\ UNCHANGED <<transport, made, active, retired, closing, moved, idleCheck, home, ending, marked>>
    /\ dialing[t].owner # None
    /\ DialEnds(t)
    /\ req' \in [Request -> ReqType]
    /\ \A r \in Request \ Waiters(t) : req'[r] = req[r]
    /\ \A r \in Waiters(t) :
         /\ req'[r].st \in {"finished", "getting", "answered"} /\ req'[r].tr = req[r].tr
         /\ req'[r].st = "answered" => req'[r].conn \in Conn
         /\ req'[r].err = "canceled" => req'[r].cancelled
    /\ keys' \in [Conn -> {0} \cup Transport]
    /\ \A c \in Conn : \/ keys'[c] = keys[c]
                       \/ c = dialing[t].conn /\ ~marked[c]
    /\ phys' \in [Conn -> {"none", "up", "goaway", "closing", "closed"}]
    /\ \A c \in Conn : phys'[c] = phys[c] \/ (phys[c] # "none" /\ phys'[c] = "closed")

LEMMA DialEndStepEffect ==
    ASSUME IInv, NEW t \in Transport,
           DialDead(t) \/ DialAdds(t) \/ \E e \in {"failed", "canceled"} : DialFails(t, e)
    PROVE  DialEndEffect(t)
<1> USE DEF DialEndEffect, manager, peer
<1>1. /\ req \in [Request -> ReqType] /\ keys \in [Conn -> {0} \cup Transport]
      /\ phys \in [Conn -> {"none", "up", "goaway", "closing", "closed"}]
      /\ dialing[t].conn \in Conn \cup {None}
      /\ dialing[t].conn # None =>
           /\ dialing[t].owner # None /\ phys[dialing[t].conn] # "none"
           /\ marked[dialing[t].conn] => Dead(t)
      /\ \A r \in Request : req[r].err = "canceled" => req[r].cancelled
  BY DEF IInv, TypeOK, ReqType, DialsOK, Dead, CancelIsOwn
<1>2. Waiters(t) \in SUBSET Request
  BY DEF Waiters
<1>3. ASSUME NEW e \in {"failed", "canceled"}, AnswerError(t, e),
             e = "canceled" => req[dialing[t].owner].cancelled
      PROVE  /\ req' \in [Request -> ReqType]
             /\ \A r \in Request \ Waiters(t) : req'[r] = req[r]
             /\ \A r \in Waiters(t) :
                  /\ req'[r].st \in {"finished", "getting", "answered"} /\ req'[r].tr = req[r].tr
                  /\ req'[r].st = "answered" => req'[r].conn \in Conn
                  /\ req'[r].err = "canceled" => req'[r].cancelled
  <2> DEFINE new(r) == IF r \notin Waiters(t) THEN req[r]
                       ELSE IF e = "canceled" /\ r # dialing[t].owner
                            THEN [req[r] EXCEPT !.st = "getting"]
                       ELSE [req[r] EXCEPT !.st = "finished", !.err = e]
  <2>1. req' = [r \in Request |-> new(r)]
    BY <1>3 DEF AnswerError
  <2>2. ASSUME NEW r \in Request
        PROVE  /\ new(r) \in ReqType /\ (r \notin Waiters(t) => new(r) = req[r])
               /\ r \in Waiters(t) =>
                    /\ new(r).st \in {"finished", "getting"} /\ new(r).tr = req[r].tr
                    /\ new(r).err = "canceled" => new(r).cancelled
    <3>0. req[r] \in ReqType
      BY <1>1
    <3>1. CASE r \notin Waiters(t)
      BY <3>0, <3>1
    <3>2. CASE r \in Waiters(t) /\ e = "canceled" /\ r # dialing[t].owner
      <4>1. new(r) = [req[r] EXCEPT !.st = "getting"]
        BY <3>2
      <4> QED
        BY <1>1, <3>0, <3>2, <4>1 DEF ReqType
    <3>3. CASE r \in Waiters(t) /\ (e # "canceled" \/ r = dialing[t].owner)
      <4>1. new(r) = [req[r] EXCEPT !.st = "finished", !.err = e]
        BY <3>3
      <4> QED
        BY <1>3, <3>0, <3>3, <4>1 DEF ReqType
    <3> QED
      BY <3>1, <3>2, <3>3
  <2> HIDE DEF new
  <2> QED
    BY <1>2, <2>1, <2>2
<1>4. ASSUME NEW e \in {"failed", "canceled"}, DialFails(t, e) PROVE DialEndEffect(t)
  BY <1>1, <1>3, <1>4 DEF DialFails
<1>5. CASE DialDead(t)
  <2>1. /\ phys' \in [Conn -> {"none", "up", "goaway", "closing", "closed"}]
        /\ \A c \in Conn : phys'[c] = phys[c] \/ (phys[c] # "none" /\ phys'[c] = "closed")
    BY <1>1, <1>5 DEF DialDead
  <2>2. AnswerError(t, "failed") /\ dialing[t].owner # None
    BY <1>1, <1>5 DEF DialDead
  <2> QED
    BY <1>1, <1>3, <1>5, <2>1, <2>2 DEF DialDead
<1>6. CASE DialAdds(t)
  <2>1. dialing[t].conn \in Conn /\ dialing[t].owner # None /\ ~marked[dialing[t].conn]
    BY <1>1, <1>6 DEF DialAdds
  <2>2. /\ keys' \in [Conn -> {0} \cup Transport]
        /\ \A c \in Conn : keys'[c] = keys[c] \/ c = dialing[t].conn
    BY <1>1, <1>6, <2>1 DEF DialAdds
  <2>3. /\ req' \in [Request -> ReqType]
        /\ \A r \in Request \ Waiters(t) : req'[r] = req[r]
        /\ \A r \in Waiters(t) :
             /\ req'[r].st = "answered" /\ req'[r].tr = req[r].tr /\ req'[r].conn \in Conn
             /\ req'[r].err = req[r].err /\ req'[r].cancelled = req[r].cancelled
    <3> DEFINE new(r) == IF r \in Waiters(t)
                         THEN [req[r] EXCEPT !.st = "answered", !.conn = dialing[t].conn]
                         ELSE req[r]
    <3>1. req' = [r \in Request |-> new(r)]
      BY <1>6 DEF DialAdds
    <3>2. ASSUME NEW r \in Request
          PROVE  /\ new(r) \in ReqType /\ (r \notin Waiters(t) => new(r) = req[r])
                 /\ r \in Waiters(t) =>
                      /\ new(r).st = "answered" /\ new(r).tr = req[r].tr /\ new(r).conn \in Conn
                      /\ new(r).err = req[r].err /\ new(r).cancelled = req[r].cancelled
      <4>1. req[r] \in ReqType
        BY <1>1
      <4> QED
        BY <2>1, <4>1 DEF ReqType
    <3> HIDE DEF new
    <3> QED
      BY <1>2, <3>1, <3>2
  <2> QED
    BY <1>1, <1>2, <1>6, <2>1, <2>2, <2>3 DEF DialAdds
<1> QED
  BY <1>4, <1>5, <1>6

LEMMA DialEndKeeps ==
    ASSUME IInv, NEW t \in Transport, DialEndEffect(t)
    PROVE  IInv'
<1>1. /\ dialing \in [Transport -> [owner : Request \cup {None}, conn : Conn \cup {None}]]
      /\ deadBeforeAdd \in [Transport -> SUBSET Conn] /\ None \notin Conn
      /\ dialing' = [dialing EXCEPT ![t] = NoDial]
      /\ deadBeforeAdd' = [deadBeforeAdd EXCEPT ![t] = {}]
  BY H2Assumption DEF IInv, TypeOK, DialEndEffect, DialEnds
<1>2. /\ dialing' \in [Transport -> [owner : Request \cup {None}, conn : Conn \cup {None}]]
      /\ deadBeforeAdd' \in [Transport -> SUBSET Conn]
      /\ dialing'[t].owner = None /\ dialing'[t].conn = None /\ deadBeforeAdd'[t] = {}
      /\ \A u \in Transport \ {t} :
           dialing'[u] = dialing[u] /\ deadBeforeAdd'[u] = deadBeforeAdd[u]
  <2>1. NoDial \in [owner : Request \cup {None}, conn : Conn \cup {None}]
        /\ NoDial.owner = None /\ NoDial.conn = None
    BY DEF NoDial
  <2> QED
    BY <1>1, <2>1
<1>3. TypeOK'
  BY <1>2 DEF IInv, TypeOK, DialEndEffect, ReqType
<1>4. ASSUME NEW r \in Request
      PROVE  /\ req'[r].st = "idle" <=> req[r].st = "idle"
             /\ req'[r].tr = req[r].tr
             /\ req'[r].st \in {"answered", "reserved", "open"} => req'[r].conn \in Conn
             /\ req'[r].err = "canceled" => req'[r].cancelled
             /\ \A c \in Conn : req'[r].conn = c /\ req'[r].st \in Using
                                  <=> req[r].conn = c /\ req[r].st \in Using
  <2>1. CASE r \in Waiters(t)
    <3>1. req[r].st = "waiting"
      BY <2>1 DEF Waiters
    <3> QED
      BY <2>1, <3>1 DEF DialEndEffect, Using
  <2>2. CASE r \notin Waiters(t)
    BY <2>2 DEF DialEndEffect, IInv, LeasesOK, CancelIsOwn
  <2> QED
    BY <2>1, <2>2
<1>5. LeasesOK' /\ CancelIsOwn'
  <2>1. Leased' = Leased
    BY <1>4 DEF Leased
  <2> QED
    BY <1>4, <2>1 DEF IInv, LeasesOK, CancelIsOwn, DialEndEffect
<1>6. DialsOK'
  <2>1. SUFFICES ASSUME NEW u \in Transport \ {t}
        PROVE  /\ dialing[u].owner # None =>
                    req'[dialing[u].owner].st = "waiting" /\ req'[dialing[u].owner].tr = u
               /\ dialing[u].conn # None =>
                    LET d == dialing[u].conn IN
                    /\ dialing[u].owner # None
                    /\ home[d] = u /\ keys'[d] = 0 /\ idleCheck[d].st = "off"
                    /\ phys'[d] # "none"
                    /\ marked[d] => d \in deadBeforeAdd[u]
               /\ deadBeforeAdd[u] # {} => dialing[u].owner # None
    BY <1>2 DEF DialsOK, DialEndEffect
  <2>2. dialing[u].owner # None =>
          req'[dialing[u].owner].st = "waiting" /\ req'[dialing[u].owner].tr = u
    <3>1. SUFFICES ASSUME dialing[u].owner # None
          PROVE req'[dialing[u].owner].st = "waiting" /\ req'[dialing[u].owner].tr = u
      OBVIOUS
    <3>2. /\ dialing[u].owner \in Request /\ req[dialing[u].owner].st = "waiting"
          /\ req[dialing[u].owner].tr = u
      BY <1>1, <3>1 DEF IInv, DialsOK
    <3>3. dialing[u].owner \notin Waiters(t)
      BY <3>2 DEF Waiters
    <3> QED
      BY <3>2, <3>3 DEF DialEndEffect
  <2>3. ASSUME dialing[u].conn # None
        PROVE  keys'[dialing[u].conn] = 0 /\ phys'[dialing[u].conn] # "none"
    <3>1. dialing[u].conn \in Conn /\ home[dialing[u].conn] = u /\ keys[dialing[u].conn] = 0
          /\ phys[dialing[u].conn] # "none"
      BY <1>1, <2>3 DEF IInv, DialsOK
    <3>2. dialing[u].conn # dialing[t].conn
      BY <2>3, <3>1 DEF IInv, DialsOK
    <3> QED
      BY <3>1, <3>2 DEF DialEndEffect
  <2> QED
    BY <2>2, <2>3 DEF IInv, DialsOK
<1>7. ConnsOK'
  BY <1>1 DEF IInv, ConnsOK, DialsOK, DialEndEffect
<1>8. StreamsOK'
  <2>1. \A c \in Conn : Holders(c)' = Holders(c)
    BY <1>4 DEF Holders, Using
  <2>2. \A c \in Conn : Streams(c)' = Streams(c)
    BY <2>1 DEF Streams, DialEndEffect
  <2>3. \A c \in Conn : keys'[c] = keys[c] \/ idleCheck[c].st = "off"
    BY <1>1 DEF IInv, DialsOK, DialEndEffect
  <2> QED
    BY <2>2, <2>3 DEF IInv, StreamsOK, DialEndEffect
<1> QED
  BY <1>3, <1>5, <1>6, <1>7, <1>8 DEF IInv

-----------------------------------------------------------------------------
(* The connections' own events and the idle workers; the manager. *)

CheckType == [st : {"off", "begin", "state", "idle", "busy"}, again : BOOLEAN]

\* A connection leaves the pool for good, and is seen idle only while it is.
ConnEffect(c) ==
    /\ UNCHANGED <<transport, made, active, retired, closing, req, dialing, home>>
    /\ keys' \in [Conn -> {0} \cup Transport] /\ moved' \in [Conn -> BOOLEAN]
    /\ idleCheck' \in [Conn -> CheckType]
    /\ phys' \in [Conn -> {"none", "up", "goaway", "closing", "closed"}]
    /\ ending' \in [Conn -> Nat] /\ marked' \in [Conn -> BOOLEAN]
    /\ deadBeforeAdd' \in [Transport -> SUBSET Conn]
    /\ \A d \in Conn \ {c} :
         /\ keys'[d] = keys[d] /\ moved'[d] = moved[d] /\ idleCheck'[d] = idleCheck[d]
         /\ phys'[d] = phys[d] /\ ending'[d] = ending[d] /\ marked'[d] = marked[d]
    /\ keys'[c] \in {0, keys[c]} /\ ending'[c] <= ending[c]
    /\ idleCheck[c].st = "off" => idleCheck'[c].st = "off"
    /\ phys'[c] = "none" <=> phys[c] = "none"
    /\ marked'[c] => marked[c] \/ (phys[c] # "none" /\ keys'[c] = 0)
    /\ idleCheck'[c].st = "idle" /\ ~moved'[c] /\ keys'[c] # 0 =>
         (idleCheck[c].st = "idle" /\ ~moved[c]) \/ Streams(c) = 0
    /\ \A t \in Transport :
         /\ deadBeforeAdd[t] \in SUBSET deadBeforeAdd'[t]
         /\ deadBeforeAdd'[t] # {} => deadBeforeAdd[t] # {} \/ dialing[t].owner # None
         /\ marked'[c] /\ ~marked[c] /\ keys[c] = 0 /\ t = home[c] /\ dialing[t].owner # None =>
              c \in deadBeforeAdd'[t]

ConnStep(c) ==
    \/ StreamEnds(c) \/ Check(c)
    \/ GoAway(c) \/ GoAwayRefuses(c) \/ ConnLost(c) \/ LossNoticed(c)

LEMMA ConnStepEffect ==
    ASSUME IInv, NEW c \in Conn, ConnStep(c)
    PROVE  ConnEffect(c)
<1> USE DEF ConnEffect, manager, pool, peer
<1>1. /\ keys \in [Conn -> {0} \cup Transport] /\ moved \in [Conn -> BOOLEAN]
      /\ idleCheck \in [Conn -> CheckType]
      /\ phys \in [Conn -> {"none", "up", "goaway", "closing", "closed"}]
      /\ ending \in [Conn -> Nat] /\ marked \in [Conn -> BOOLEAN]
      /\ deadBeforeAdd \in [Transport -> SUBSET Conn]
      /\ home \in [Conn -> {0} \cup Transport]
  BY H2Assumption DEF IInv, TypeOK, CheckType
<1>2. NoCheck \in CheckType /\ NoCheck.st = "off"
      /\ [st |-> "state", again |-> FALSE] \in CheckType
  BY DEF NoCheck, CheckType
<1>3. CASE StreamEnds(c)
  <2>1. ending' \in [Conn -> Nat] /\ ending'[c] <= ending[c]
        /\ \A d \in Conn \ {c} : ending'[d] = ending[d]
    BY <1>1, <1>3 DEF StreamEnds
  <2> QED
    BY <1>1, <1>3, <2>1 DEF StreamEnds
<1>4. ASSUME NEW n \in CheckType, idleCheck' = [idleCheck EXCEPT ![c] = n]
      PROVE  /\ idleCheck' \in [Conn -> CheckType] /\ idleCheck'[c] = n
             /\ \A d \in Conn \ {c} : idleCheck'[d] = idleCheck[d]
  BY <1>1, <1>4
<1>5. ASSUME moved' = [moved EXCEPT ![c] = FALSE]
      PROVE  /\ moved' \in [Conn -> BOOLEAN] /\ \A d \in Conn \ {c} : moved'[d] = moved[d]
  BY <1>1, <1>5
<1>6. CASE CheckBegins(c)
  <2>1. PICK n \in CheckType : idleCheck' = [idleCheck EXCEPT ![c] = n] /\ n.st \in {"off", "state"}
    BY <1>2, <1>6 DEF CheckBegins
  <2>2. /\ idleCheck' \in [Conn -> CheckType] /\ idleCheck'[c].st # "idle"
        /\ \A d \in Conn \ {c} : idleCheck'[d] = idleCheck[d]
        /\ idleCheck[c].st = "begin"
    BY <1>4, <1>6, <2>1 DEF CheckBegins
  <2>3. moved' \in [Conn -> BOOLEAN] /\ \A d \in Conn \ {c} : moved'[d] = moved[d]
    BY <1>5, <1>6 DEF CheckBegins
  <2> QED
    BY <1>1, <1>6, <2>2, <2>3 DEF CheckBegins
<1>7. CASE CheckReads(c)
  <2> DEFINE n == [idleCheck[c] EXCEPT !.st = IF Streams(c) = 0 THEN "idle" ELSE "busy"]
  <2>1. idleCheck' = [idleCheck EXCEPT ![c] = n] /\ n \in CheckType
        /\ (n.st = "idle" => Streams(c) = 0)
    BY <1>1, <1>7 DEF CheckReads, CheckType
  <2> HIDE DEF n
  <2> QED
    BY <1>1, <1>4, <1>7, <2>1 DEF CheckReads
<1>8. CASE CheckCloses(c)
  <2>1. /\ keys' \in [Conn -> {0} \cup Transport] /\ keys'[c] = 0
        /\ \A d \in Conn \ {c} : keys'[d] = keys[d]
    BY <1>1, <1>8 DEF CheckCloses
  <2>2. phys[c] # "none"
    BY <1>8 DEF CheckCloses, MayClose, IInv, ConnsOK
  <2>3. /\ phys' \in [Conn -> {"none", "up", "goaway", "closing", "closed"}]
        /\ phys'[c] = "closed" /\ \A d \in Conn \ {c} : phys'[d] = phys[d]
    BY <1>1, <1>8 DEF CheckCloses
  <2> QED
    BY <1>1, <1>2, <1>4, <1>5, <1>8, <2>1, <2>2, <2>3 DEF CheckCloses
<1>9. CASE CheckGivesUp(c)
  <2>1. [idleCheck[c] EXCEPT !.st = "begin"] \in CheckType
        /\ [idleCheck[c] EXCEPT !.st = "begin"].st = "begin"
    BY <1>1 DEF CheckType
  <2>2. PICK n \in CheckType : idleCheck' = [idleCheck EXCEPT ![c] = n] /\ n.st \in {"off", "begin"}
    BY <1>2, <1>9, <2>1 DEF CheckGivesUp
  <2> QED
    BY <1>1, <1>4, <1>5, <1>9, <2>2 DEF CheckGivesUp
<1>10. ASSUME MarkDead(c), phys[c] # "none"
       PROVE  /\ keys' \in [Conn -> {0} \cup Transport] /\ keys'[c] = 0
              /\ moved' \in [Conn -> BOOLEAN] /\ marked' \in [Conn -> BOOLEAN]
              /\ \A d \in Conn \ {c} :
                   keys'[d] = keys[d] /\ moved'[d] = moved[d] /\ marked'[d] = marked[d]
              /\ deadBeforeAdd' \in [Transport -> SUBSET Conn]
              /\ \A t \in Transport :
                   /\ deadBeforeAdd[t] \in SUBSET deadBeforeAdd'[t]
                   /\ deadBeforeAdd'[t] # {} => deadBeforeAdd[t] # {} \/ dialing[t].owner # None
                   /\ keys[c] = 0 /\ t = home[c] /\ dialing[t].owner # None =>
                        c \in deadBeforeAdd'[t]
  <2>1. /\ keys' \in [Conn -> {0} \cup Transport] /\ keys'[c] = 0
        /\ \A d \in Conn \ {c} : keys'[d] = keys[d]
    BY <1>1, <1>10 DEF MarkDead
  <2>2. marked' \in [Conn -> BOOLEAN] /\ \A d \in Conn \ {c} : marked'[d] = marked[d]
    BY <1>1, <1>10 DEF MarkDead
  <2>3. moved' \in [Conn -> BOOLEAN] /\ \A d \in Conn \ {c} : moved'[d] = moved[d]
    BY <1>5, <1>10 DEF MarkDead
  <2>4. home[c] \in Transport
    BY <1>1, <1>10 DEF IInv, ConnsOK
  <2>5. CASE keys[c] = 0 /\ dialing[home[c]].owner # None
    <3>1. deadBeforeAdd' = [deadBeforeAdd EXCEPT ![home[c]] = deadBeforeAdd[home[c]] \cup {c}]
      BY <1>10, <2>5 DEF MarkDead
    <3> QED
      BY <1>1, <2>1, <2>2, <2>3, <2>4, <2>5, <3>1
  <2>6. CASE ~(keys[c] = 0 /\ dialing[home[c]].owner # None)
    BY <1>1, <1>10, <2>1, <2>2, <2>3, <2>4, <2>6 DEF MarkDead
  <2> QED
    BY <2>5, <2>6
<1>11. ASSUME NEW p \in {"goaway", "closing", "closed"}, phys' = [phys EXCEPT ![c] = p]
       PROVE  /\ phys' \in [Conn -> {"none", "up", "goaway", "closing", "closed"}]
              /\ phys'[c] = p /\ \A d \in Conn \ {c} : phys'[d] = phys[d]
  BY <1>1, <1>11
<1>12. CASE GoAway(c)
  BY <1>1, <1>10, <1>11, <1>12 DEF GoAway
<1>13. CASE GoAwayRefuses(c)
  BY <1>1, <1>11, <1>13 DEF GoAwayRefuses
<1>14. CASE ConnLost(c)
  <2>1. ending' \in [Conn -> Nat] /\ ending'[c] <= ending[c]
        /\ \A d \in Conn \ {c} : ending'[d] = ending[d]
    BY <1>1, <1>14 DEF ConnLost
  <2> QED
    BY <1>1, <1>11, <1>14, <2>1 DEF ConnLost
<1>15. CASE LossNoticed(c)
  BY <1>1, <1>10, <1>15 DEF LossNoticed
<1> QED
  BY <1>3, <1>6, <1>7, <1>8, <1>9, <1>12, <1>13, <1>14, <1>15 DEF ConnStep, Check

LEMMA ConnKeeps ==
    ASSUME IInv, NEW c \in Conn, ConnEffect(c)
    PROVE  IInv'
<1>1. /\ transport' = transport /\ made' = made /\ active' = active /\ retired' = retired
      /\ closing' = closing /\ req' = req /\ dialing' = dialing /\ home' = home
      /\ dialing \in [Transport -> [owner : Request \cup {None}, conn : Conn \cup {None}]]
      /\ ending \in [Conn -> Nat] /\ ending' \in [Conn -> Nat] /\ marked \in [Conn -> BOOLEAN]
      /\ None \notin Conn /\ MaxStreams \in Nat
  BY H2Assumption DEF ConnEffect, IInv, TypeOK
<1>2. LeasesOK' /\ CancelIsOwn'
  BY <1>1 DEF IInv, LeasesOK, Leased, CancelIsOwn
<1>3. ASSUME NEW d \in Conn
      PROVE  Streams(d)' <= Streams(d) /\ Streams(d) \in Nat /\ Streams(d)' \in Nat
  <2>1. Holders(d)' = Holders(d) /\ Holders(d) \in SUBSET Request
    BY <1>1 DEF Holders
  <2>2. Cardinality(Holders(d)) \in Nat
    BY <2>1, RequestsFinite
  <2>3. ending'[d] <= ending[d] /\ ending'[d] \in Nat /\ ending[d] \in Nat
    BY <1>1 DEF ConnEffect
  <2>4. /\ Streams(d) = Cardinality(Holders(d)) + ending[d]
        /\ Streams(d)' = Cardinality(Holders(d)) + ending'[d]
    BY <2>1 DEF Streams
  <2> QED
    BY <2>2, <2>3, <2>4
<1>4. StreamsOK'
  <2>1. ASSUME NEW d \in Conn PROVE Streams(d)' <= MaxStreams
    BY <1>1, <1>3 DEF IInv, StreamsOK
  <2>2. ASSUME NEW d \in Conn, idleCheck'[d].st = "idle", keys'[d] # 0, ~moved'[d]
        PROVE  Streams(d) = 0
    <3>1. CASE d = c
      BY <2>2, <3>1 DEF IInv, StreamsOK, ConnEffect
    <3>2. CASE d # c
      BY <2>2, <3>2 DEF IInv, StreamsOK, ConnEffect
    <3> QED
      BY <3>1, <3>2
  <2> QED
    BY <1>3, <2>1, <2>2 DEF StreamsOK
<1>5. TypeOK'
  <2>1. active' \in 0..Cardinality(Request) /\ \A d \in Conn : ending'[d] \in 0..MaxStreams
    BY <1>1, <1>2, <1>4, CountersTyped DEF LeasesOK, StreamsOK
  <2>2. ending' \in [Conn -> 0..MaxStreams]
    BY <1>1, <2>1
  <2> QED
    BY <1>1, <2>1, <2>2 DEF ConnEffect, IInv, TypeOK, CheckType
<1>6. DialsOK'
  <2>1. SUFFICES ASSUME NEW t \in Transport
        PROVE  /\ dialing[t].conn # None =>
                    LET d == dialing[t].conn IN
                    /\ keys'[d] = 0 /\ idleCheck'[d].st = "off" /\ phys'[d] # "none"
                    /\ marked'[d] => d \in deadBeforeAdd'[t]
               /\ deadBeforeAdd'[t] # {} => dialing[t].owner # None
    BY <1>1 DEF IInv, DialsOK
  <2>2. deadBeforeAdd'[t] # {} => dialing[t].owner # None
    BY DEF ConnEffect, IInv, DialsOK
  <2>3. ASSUME dialing[t].conn # None
        PROVE  LET d == dialing[t].conn IN
               /\ keys'[d] = 0 /\ idleCheck'[d].st = "off" /\ phys'[d] # "none"
               /\ marked'[d] => d \in deadBeforeAdd'[t]
    <3> DEFINE d == dialing[t].conn
    <3>1. /\ d \in Conn /\ keys[d] = 0 /\ idleCheck[d].st = "off" /\ phys[d] # "none"
          /\ home[d] = t /\ dialing[t].owner # None
          /\ marked[d] => d \in deadBeforeAdd[t]
      BY <1>1, <2>3 DEF IInv, DialsOK
    <3> HIDE DEF d
    <3>2. keys'[d] = 0 /\ idleCheck'[d].st = "off" /\ phys'[d] # "none"
      BY <3>1 DEF ConnEffect
    <3>3. marked'[d] => d \in deadBeforeAdd'[t]
      <4>1. CASE d = c
        BY <3>1, <4>1 DEF ConnEffect
      <4>2. CASE d # c
        BY <3>1, <4>2 DEF ConnEffect
      <4> QED
        BY <4>1, <4>2
    <3> QED
      BY <3>2, <3>3 DEF d
  <2> QED
    BY <2>2, <2>3
<1>7. ConnsOK'
  <2>1. SUFFICES ASSUME NEW d \in Conn
        PROVE  /\ phys'[d] = "none" => keys'[d] = 0 /\ ~marked'[d] /\ idleCheck'[d].st = "off"
               /\ phys'[d] # "none" => home[d] # 0
               /\ marked'[d] => keys'[d] = 0
    BY <1>1 DEF ConnsOK
  <2>2. CASE d = c
    BY <2>2 DEF ConnEffect, IInv, ConnsOK
  <2>3. CASE d # c
    BY <2>3 DEF ConnEffect, IInv, ConnsOK
  <2> QED
    BY <2>2, <2>3
<1> QED
  BY <1>2, <1>4, <1>5, <1>6, <1>7 DEF IInv

\* The manager drops its transport only without leases; the workers it starts
\* look at pooled connections.
ManagerEffect ==
    /\ UNCHANGED <<made, active, req, dialing, deadBeforeAdd, keys, moved, home, phys, ending, marked>>
    /\ retired' \in BOOLEAN /\ closing' \in SUBSET Transport
    /\ transport' = transport \/ (transport' = 0 /\ active = 0)
    /\ idleCheck' \in [Conn -> CheckType]
    /\ \A c \in Conn : \/ idleCheck'[c].st = idleCheck[c].st
                       \/ idleCheck'[c].st = "begin" /\ keys[c] # 0

LEMMA ManagerStepEffect ==
    ASSUME IInv, Retire \/ CloseIdle \/ \E t \in Transport : CloseIdleConnections(t)
    PROVE  ManagerEffect
<1> USE DEF ManagerEffect, pool, peer
<1>1. /\ idleCheck \in [Conn -> CheckType] /\ retired \in BOOLEAN /\ closing \in SUBSET Transport
      /\ transport \in {0} \cup Transport
  BY DEF IInv, TypeOK, CheckType
<1>2. CASE Retire
  BY <1>1, <1>2 DEF Retire
<1>3. CASE CloseIdle
  BY <1>1, <1>3 DEF CloseIdle
<1>4. ASSUME NEW t \in Transport, CloseIdleConnections(t) PROVE ManagerEffect
  <2> DEFINE n(c) == IF keys[c] # t THEN idleCheck[c]
                     ELSE IF idleCheck[c].st = "off" THEN [st |-> "begin", again |-> FALSE]
                     ELSE [idleCheck[c] EXCEPT !.again = TRUE]
  <2>1. idleCheck' = [c \in Conn |-> n(c)]
    BY <1>4 DEF CloseIdleConnections, Again
  <2>2. t # 0
    BY DEF Transport
  <2>3. ASSUME NEW c \in Conn
        PROVE  n(c) \in CheckType
               /\ (n(c).st = idleCheck[c].st \/ (n(c).st = "begin" /\ keys[c] # 0))
    <3>1. idleCheck[c] \in CheckType
      BY <1>1
    <3> QED
      BY <2>2, <3>1 DEF CheckType
  <2> HIDE DEF n
  <2>4. idleCheck' \in [Conn -> CheckType]
        /\ \A c \in Conn : \/ idleCheck'[c].st = idleCheck[c].st
                           \/ idleCheck'[c].st = "begin" /\ keys[c] # 0
    BY <2>1, <2>3
  <2> QED
    BY <1>1, <1>4, <2>4 DEF CloseIdleConnections
<1> QED
  BY <1>2, <1>3, <1>4

LEMMA ManagerKeeps ==
    ASSUME IInv, ManagerEffect
    PROVE  IInv'
<1>1. /\ made' = made /\ active' = active /\ req' = req /\ dialing' = dialing
      /\ deadBeforeAdd' = deadBeforeAdd /\ keys' = keys /\ moved' = moved /\ home' = home
      /\ phys' = phys /\ ending' = ending /\ marked' = marked
      /\ dialing \in [Transport -> [owner : Request \cup {None}, conn : Conn \cup {None}]]
      /\ None \notin Conn /\ Leased' = Leased /\ transport \in {0} \cup Transport
  BY H2Assumption DEF ManagerEffect, IInv, TypeOK, Leased
<1>2. TypeOK'
  BY <1>1 DEF ManagerEffect, IInv, TypeOK, CheckType
<1>3. LeasesOK'
  <2>1. active = 0 => \A r \in Request : req[r].st = "idle"
    <3>1. IsFiniteSet(Leased) /\ active = Cardinality(Leased)
      BY RequestsFinite DEF Leased, IInv, LeasesOK
    <3> QED
      BY <3>1, FS_EmptySet DEF Leased
  <2> QED
    BY <1>1, <2>1 DEF ManagerEffect, IInv, LeasesOK
<1>4. DialsOK'
  BY <1>1 DEF ManagerEffect, IInv, DialsOK
<1>5. ConnsOK'
  BY <1>1 DEF ManagerEffect, IInv, ConnsOK
<1>6. StreamsOK'
  <2>1. \A c \in Conn : Streams(c)' = Streams(c)
    BY <1>1 DEF Streams, Holders
  <2> QED
    BY <1>1, <2>1 DEF ManagerEffect, IInv, StreamsOK
<1>7. CancelIsOwn'
  BY <1>1 DEF IInv, CancelIsOwn
<1> QED
  BY <1>2, <1>3, <1>4, <1>5, <1>6, <1>7 DEF IInv

-----------------------------------------------------------------------------
(* The invariant and what follows from it. *)

LEMMA InitKeeps == Init => IInv
<1> SUFFICES ASSUME Init PROVE IInv
  OBVIOUS
<1>1. /\ \A r \in Request : req[r] = NoRequest
      /\ \A t \in Transport : dialing[t] = NoDial /\ deadBeforeAdd[t] = {}
      /\ \A c \in Conn : keys[c] = 0 /\ phys[c] = "none" /\ ending[c] = 0 /\ ~marked[c]
                         /\ idleCheck[c] = NoCheck
      /\ active = 0
  BY DEF Init
<1>2. Cardinality({}) = 0 /\ IsFiniteSet({})
  BY FS_EmptySet
<1>3. {} \in SUBSET Request
  OBVIOUS
<1>4. 0 \in 0..Cardinality(Request) /\ 0 \in 0..MaxStreams /\ 0 \in 0..MaxTransport
  BY <1>2, <1>3, RequestsFinite, H2Assumption
<1>5. NoDial \in [owner : Request \cup {None}, conn : Conn \cup {None}]
      /\ NoDial.owner = None /\ NoDial.conn = None
  BY DEF NoDial
<1>6. NoCheck \in CheckType /\ NoCheck.st = "off"
  BY DEF NoCheck, CheckType
<1>7. TypeOK
  <2>1. req \in [Request -> ReqType]
    BY NoRequestType DEF Init
  <2>2. dialing \in [Transport -> [owner : Request \cup {None}, conn : Conn \cup {None}]]
    BY <1>5 DEF Init
  <2>3. idleCheck \in [Conn -> CheckType]
    BY <1>6 DEF Init
  <2>4. /\ keys \in [Conn -> {0} \cup Transport] /\ moved \in [Conn -> BOOLEAN]
        /\ home \in [Conn -> {0} \cup Transport]
        /\ deadBeforeAdd \in [Transport -> SUBSET Conn]
    BY DEF Init
  <2>5. /\ phys \in [Conn -> {"none", "up", "goaway", "closing", "closed"}]
        /\ ending \in [Conn -> 0..MaxStreams] /\ marked \in [Conn -> BOOLEAN]
    BY <1>4 DEF Init
  <2>6. /\ transport \in {0} \cup Transport /\ made \in 0..MaxTransport
        /\ active \in 0..Cardinality(Request) /\ retired \in BOOLEAN
        /\ closing \in SUBSET Transport
    BY <1>4 DEF Init
  <2> QED
    BY <2>1, <2>2, <2>3, <2>4, <2>5, <2>6 DEF TypeOK, ReqType, CheckType
<1>8. LeasesOK
  <2>1. Leased = {}
    BY <1>1, NoRequestType DEF Leased
  <2> QED
    BY <1>1, <1>2, <2>1, NoRequestType DEF LeasesOK
<1>9. DialsOK /\ ConnsOK
  BY <1>1, <1>5, <1>6 DEF DialsOK, ConnsOK
<1>10. StreamsOK
  <2>1. \A c \in Conn : Holders(c) = {}
    BY <1>1, NoRequestType DEF Holders
  <2>2. \A c \in Conn : Streams(c) = 0
    BY <1>1, <1>2, <2>1 DEF Streams
  <2> QED
    BY <1>4, <2>2, H2Assumption DEF StreamsOK
<1>11. CancelIsOwn
  BY <1>1, NoRequestType DEF CancelIsOwn
<1> QED
  BY <1>7, <1>8, <1>9, <1>10, <1>11 DEF IInv

LEMMA StutterKeeps ==
    ASSUME IInv, UNCHANGED vars
    PROVE  IInv'
<1>1. /\ UNCHANGED <<transport, made, active, retired, closing, req, dialing, deadBeforeAdd>>
      /\ UNCHANGED <<keys, moved, idleCheck, home, phys, ending, marked>>
  BY DEF vars, manager, pool, peer
<1>2. TypeOK'
  BY <1>1 DEF IInv, TypeOK
<1>3. LeasesOK' /\ CancelIsOwn'
  BY <1>1 DEF IInv, LeasesOK, Leased, CancelIsOwn
<1>4. DialsOK' /\ ConnsOK'
  BY <1>1 DEF IInv, DialsOK, ConnsOK
<1>5. StreamsOK'
  BY <1>1 DEF IInv, StreamsOK, Streams, Holders
<1> QED
  BY <1>2, <1>3, <1>4, <1>5 DEF IInv

LEMMA NextKeeps == IInv /\ [Next]_vars => IInv'
<1> SUFFICES ASSUME IInv, [Next]_vars PROVE IInv'
  OBVIOUS
<1>1. ASSUME NEW r \in Request, RequestStep(r) PROVE IInv'
  BY <1>1, RequestStepEffect, RequestKeeps
<1>2. CASE Retire \/ CloseIdle \/ \E t \in Transport : CloseIdleConnections(t)
  BY <1>2, ManagerStepEffect, ManagerKeeps
<1>3. ASSUME NEW t \in Transport, Dial(t) PROVE IInv'
  <2>1. ASSUME NEW c \in Conn, DialConnects(t, c) PROVE IInv'
    BY <2>1, DialConnectsKeeps
  <2>2. CASE DialDead(t) \/ DialAdds(t) \/ \E e \in {"failed", "canceled"} : DialFails(t, e)
    BY <2>2, DialEndStepEffect, DialEndKeeps
  <2> QED
    BY <1>3, <2>1, <2>2 DEF Dial
<1>4. ASSUME NEW c \in Conn, ConnStep(c) PROVE IInv'
  BY <1>4, ConnStepEffect, ConnKeeps
<1>5. CASE UNCHANGED vars
  BY <1>5, StutterKeeps
<1> QED
  BY <1>1, <1>2, <1>3, <1>4, <1>5 DEF Next, RequestStep, ConnStep

\* The invariant holds in every reachable state of the manager and its pools.
THEOREM Invariance == Spec => []IInv
BY InitKeeps, NextKeeps, PTL DEF Spec

\* acquireTransport, releaseTransport and retire: active counts the leases, and
\* while a request or a dial uses a transport it stays the manager's.
THEOREM LeasesKeepTransports == Spec => []LeaseKeepsTransport
<1>1. IInv => LeaseKeepsTransport
  <2> SUFFICES ASSUME IInv PROVE LeaseKeepsTransport
    OBVIOUS
  <2>1. ASSUME NEW t \in Transport, dialing[t].owner # None PROVE t = transport
    <3>1. dialing[t].owner \in Request
      BY <2>1 DEF IInv, TypeOK
    <3> QED
      BY <2>1, <3>1 DEF IInv, DialsOK, LeasesOK
  <2> QED
    BY <2>1 DEF LeaseKeepsTransport, IInv, LeasesOK, Leased
<1> QED
  BY <1>1, Invariance, PTL

\* MarkDead: a connection that died is never in the pool, even when it died
\* before its dial had added it, and early notifications are kept only for a
\* dial in progress.
THEOREM DeadAreNeverPooled == Spec => []DeadNeverPooled
<1>1. IInv => DeadNeverPooled
  BY DEF IInv, DeadNeverPooled, ConnsOK, DialsOK
<1> QED
  BY <1>1, Invariance, PTL

\* No request fails because another one, with which it shared a dial, was
\* cancelled.
THEOREM CancellationIsOwn == Spec => []CancelIsOwn
<1>1. IInv => CancelIsOwn
  BY DEF IInv
<1> QED
  BY <1>1, Invariance, PTL

\* closeIdleConnections never cuts a stream: its worker does not close a
\* connection that a request has reserved since it was seen idle.
THEOREM IdleClosesAreIdle == Spec => IdleCloseIsIdle
<1> DEFINE Idle(c) == idleCheck[c].st # "off" /\ idleCheck'[c].st = "off"
                      /\ phys[c] # "closed" /\ phys'[c] = "closed" => Streams(c) = 0
<1>1. IInv /\ [Next]_vars => [\A c \in Conn : Idle(c)]_vars
  <2> SUFFICES ASSUME IInv, Next, NEW c \in Conn, idleCheck[c].st # "off",
                      idleCheck'[c].st = "off", phys[c] # "closed", phys'[c] = "closed"
               PROVE  Streams(c) = 0
    OBVIOUS
  <2>1. idleCheck'[c] # idleCheck[c] /\ phys'[c] # phys[c]
    OBVIOUS
  <2>2. ASSUME NEW d \in Conn, ConnStep(d) PROVE Streams(c) = 0
    <3>1. d = c
      BY <2>1, <2>2, ConnStepEffect DEF ConnEffect
    <3>2. CheckCloses(c)
      BY <2>1, <2>2, <3>1 DEF ConnStep, Check, StreamEnds, CheckBegins, CheckReads, CheckGivesUp,
         GoAway, GoAwayRefuses, ConnLost, LossNoticed, pool, peer
    <3> QED
      BY <3>2 DEF CheckCloses, MayClose, IInv, StreamsOK
  <2>3. ASSUME NEW r \in Request, RequestStep(r) PROVE FALSE
    BY <2>1, <2>3, RequestStepEffect DEF RequestEffect
  <2>4. ASSUME Retire \/ CloseIdle \/ \E t \in Transport : CloseIdleConnections(t) PROVE FALSE
    BY <2>1, <2>4, ManagerStepEffect DEF ManagerEffect
  <2>5. ASSUME NEW t \in Transport, Dial(t) PROVE FALSE
    <3>1. ASSUME NEW d \in Conn, DialConnects(t, d) PROVE FALSE
      BY <2>1, <3>1 DEF DialConnects
    <3>2. ASSUME DialDead(t) \/ DialAdds(t) \/ \E e \in {"failed", "canceled"} : DialFails(t, e)
          PROVE  FALSE
      BY <2>1, <3>2, DialEndStepEffect DEF DialEndEffect
    <3> QED
      BY <2>5, <3>1, <3>2 DEF Dial
  <2> QED
    BY <2>2, <2>3, <2>4, <2>5 DEF Next, RequestStep, ConnStep
<1> QED
  BY <1>1, Invariance, PTL DEF Spec, IdleCloseIsIdle
=============================================================================
