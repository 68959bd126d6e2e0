------------------------------- MODULE Gateway -------------------------------
(***************************************************************************)
(* The gateway of a SigBPF node, src/gateway.c and src/gateway_nf.c (the   *)
(* two have the same handlers), with the clients it serves.  Thread RX     *)
(* (server_process_rx) accepts connections, reads a request into a fresh   *)
(* object and transfers it to the first hop of its route.  Thread TX       *)
(* (server_process_tx) waits for objects, forwards them while the route    *)
(* has hops left, and otherwise answers the client, closes the connection  *)
(* and releases the object.  A thread that meets an error returns, and     *)
(* nothing restarts it.                                                    *)
(*                                                                         *)
(* The object pool is used through Pool!Take and Pool!Give, which the ring *)
(* implements while an object is left (ObjectPool).  When all but one are  *)
(* in use an allocation may be refused, and when all of them are, one that *)
(* is in use may be handed out: the user may open more descriptors than    *)
(* there are objects (run.sh).  From then on the pool promises nothing.    *)
(***************************************************************************)
EXTENDS SharedRegion, FiniteSets

CONSTANTS
    Fd,         \* The descriptors the process may have for connections.
    Probe,      \* The requests whose client may close its end unsent.
    Flaky       \* The requests whose client may reset the connection.

ASSUME GatewayAssumption ==
    /\ Fd \subseteq Nat \ {0}
    /\ IsFiniteSet(Fd) /\ IsFiniteSet(Object)
    /\ Probe \subseteq Request /\ Flaky \subseteq Request
    /\ Probe \intersect Flaky = {}

VARIABLES
    client,     \* client[r]: how far the client of request r is.
    gone,       \* The requests whose client has closed or reset.
    backlog,    \* The connections the ingress socket has not accepted.
    conn,       \* conn[fd]: the request whose connection fd is.
    armed,      \* The descriptors whose EPOLLONESHOT event is enabled.
    uses,       \* uses[o]: whether allocate_object has handed out o, 1 or 0.
    rx, tx,     \* Where the two threads are and what they hold.
    answers     \* answers[r]: the responses written to the client of r.

clientVars == <<client, gone>>
gatewayVars == <<client, gone, backlog, conn, armed, uses, rx, tx, answers>>

Pool == INSTANCE Pool

\* What epoll_wait reports: the ingress socket or a connection.
Listener == 0

RxPC == {"poll", "receive", "dispatch", "ended"}
TxPC == {"wait", "forward", "respond", "close", "release", "ended"}

GatewayTypeOK ==
    /\ client \in [Request -> {"idle", "connected", "sent"}]
    /\ gone \subseteq Request
    /\ backlog \in Seq(Request)
    /\ conn \in [Fd -> Request \union {None}]
    /\ armed \subseteq Fd
    /\ Pool!TypeOK
    /\ rx \in [pc : RxPC, batch : SUBSET (Fd \union {Listener}),
               fd : Fd \union {None}, obj : Object \union {None}]
    /\ tx \in [pc : TxPC, obj : Object \union {None}, fd : Nat \union {None}]
    /\ answers \in [Request -> Nat]

GatewayInit ==
    /\ client = [r \in Request |-> "idle"]
    /\ gone = {}
    /\ backlog = <<>>
    /\ conn = [fd \in Fd |-> None]
    /\ armed = {}
    /\ Pool!Init
    /\ rx = [pc |-> "poll", batch |-> {}, fd |-> None, obj |-> None]
    /\ tx = [pc |-> "wait", obj |-> None, fd |-> None]
    /\ answers = [r \in Request |-> 0]

-----------------------------------------------------------------------------
(* The clients.                                                            *)

Connect(r) ==
    /\ client[r] = "idle"
    /\ client' = [client EXCEPT ![r] = "connected"]
    /\ backlog' = Append(backlog, r)
    /\ UNCHANGED <<sharedVars, gone, conn, armed, uses, rx, tx, answers>>

Send(r) ==
    /\ client[r] = "connected" /\ r \notin gone
    /\ client' = [client EXCEPT ![r] = "sent"]
    /\ UNCHANGED <<sharedVars, gone, backlog, conn, armed, uses, rx, tx, answers>>

Waiting(r) == client[r] # "idle" /\ answers[r] = 0

(* A probe closes before it sends; a flaky client resets at any time.      *)
Leave(r) ==
    /\ r \notin gone
    /\ \/ r \in Probe /\ client[r] = "connected"
       \/ r \in Flaky /\ Waiting(r)
    /\ gone' = gone \union {r}
    /\ UNCHANGED <<sharedVars, client, backlog, conn, armed, uses, rx, tx, answers>>

-----------------------------------------------------------------------------
(* Thread RX.                                                              *)

(* A connection is readable when it has bytes, an end of file or an error. *)
Ready ==
    {fd \in armed : client[conn[fd]] = "sent" \/ conn[fd] \in gone}
        \union {e \in {Listener} : backlog # <<>>}

\* Mutants of StillArmed: without EPOLLONESHOT, and disabling too much.
LevelTriggered == armed
NoneArmed == {}

(* EPOLLONESHOT: what epoll_wait reports it disables. *)
StillArmed == armed \ Ready

(* epoll_wait: every ready event. *)
RxPoll ==
    /\ alive[0]
    /\ rx.pc = "poll" /\ rx.batch = {}
    /\ Ready # {}
    /\ rx' = [rx EXCEPT !.batch = Ready]
    /\ armed' = StillArmed
    /\ UNCHANGED <<sharedVars, clientVars, backlog, conn, uses, tx, answers>>

FreeFd == {fd \in Fd : conn[fd] = None}

(* event_process, a new connection: accept gives it the lowest descriptor. *)
RxAccept ==
    /\ alive[0]
    /\ rx.pc = "poll" /\ Listener \in rx.batch
    /\ FreeFd # {}
    /\ LET fd == CHOOSE x \in FreeFd : \A y \in FreeFd : x <= y
       IN  /\ conn' = [conn EXCEPT ![fd] = Head(backlog)]
           /\ armed' = armed \union {fd}
    /\ backlog' = Tail(backlog)
    /\ rx' = [rx EXCEPT !.batch = @ \ {Listener}]
    /\ UNCHANGED <<sharedVars, clientVars, uses, tx, answers>>

(* accept fails with EMFILE: the thread returns.                           *)
RxAcceptError ==
    /\ alive[0]
    /\ rx.pc = "poll" /\ Listener \in rx.batch
    /\ FreeFd = {}
    /\ rx' = [rx EXCEPT !.pc = "ended"]
    /\ UNCHANGED <<sharedVars, clientVars, backlog, conn, armed, uses, tx, answers>>

(* accept succeeds and epoll_ctl fails, the user having as many watches as *)
(* the kernel allows: the connection is closed again, the thread returns.  *)
RxAcceptRefused ==
    /\ alive[0]
    /\ rx.pc = "poll" /\ Listener \in rx.batch
    /\ FreeFd # {} /\ Limited
    /\ backlog' = Tail(backlog)
    /\ rx' = [rx EXCEPT !.pc = "ended"]
    /\ UNCHANGED <<sharedVars, clientVars, conn, armed, uses, tx, answers>>

\* conn_read has object o for the connection fd.
Reads(fd, o) ==
    rx' = [pc |-> "receive", batch |-> rx.batch \ {fd}, fd |-> fd, obj |-> o]

(* Once an object was handed out twice it is also given back twice, and an *)
(* address may be in the ring any number of times.                         *)
Allocated(o) == Pool!Take(o) \/ (doubled /\ uses' = [uses EXCEPT ![o] = 1])
Released(o) == Pool!Give(o) \/ (doubled /\ uses[o] = 0 /\ UNCHANGED uses)

(* conn_read: allocate_object for the readable connection fd.              *)
RxAllocate(fd) ==
    /\ alive[0]
    /\ rx.pc = "poll" /\ fd \in rx.batch
    /\ \E o \in Object : Allocated(o) /\ Reads(fd, o)
    /\ UNCHANGED <<sharedVars, clientVars, backlog, conn, armed, tx, answers>>

(* allocate_object finds the ring empty: its -1 is no address, conn_read   *)
(* has no transaction, and the thread returns.                             *)
RxRefused(fd) ==
    /\ alive[0]
    /\ rx.pc = "poll" /\ fd \in rx.batch
    /\ doubled \/ Cardinality(Object \ Pool!InUse) <= 1
    /\ rx' = [rx EXCEPT !.pc = "ended"]
    /\ UNCHANGED <<sharedVars, clientVars, backlog, conn, armed, uses, tx, answers>>

(* allocate_object does not see that the ring is empty and hands out what  *)
(* is left in a slot, the address of an object in use.                     *)
RxOverrun(fd) ==
    /\ alive[0]
    /\ rx.pc = "poll" /\ fd \in rx.batch
    /\ Pool!InUse = Object
    /\ \E o \in Object : Reads(fd, o)
    /\ doubled' = TRUE
    /\ UNCHANGED <<txn, signals, alive, clientVars, backlog, conn, armed, uses,
                   tx, answers>>

(***************************************************************************)
(* conn_read: recv and the fields of the transaction.  At an end of file   *)
(* recv returns 0, which is no error, and the buffer still holds the       *)
(* request that used the object before; a fresh buffer has no "/" and      *)
(* gives route 0.                                                          *)
(***************************************************************************)
Received(r, before) == IF client[r] = "sent" THEN r ELSE before

ParsedRoute(r) == IF r = None THEN 0 ELSE RouteOf[r]

Receivable(fd) ==
    conn[fd] # None /\ (client[conn[fd]] = "sent" \/ conn[fd] \notin Flaky)

RxReceive ==
    /\ alive[0]
    /\ rx.pc = "receive"
    /\ Receivable(rx.fd)
    /\ LET q == Received(conn[rx.fd], txn[rx.obj].request)
       IN  txn' = [txn EXCEPT ![rx.obj] =
                         [request |-> q, sockfd |-> rx.fd,
                          route |-> ParsedRoute(q), hop |-> 0]]
    /\ rx' = [rx EXCEPT !.pc = "dispatch"]
    /\ UNCHANGED <<signals, alive, doubled, clientVars, backlog, conn, armed,
                   uses, tx, answers>>

(* recv fails on a connection that is reset or closed: the thread returns, *)
(* and keeps the object.                                                   *)
RxReceiveError ==
    /\ alive[0]
    /\ rx.pc = "receive"
    /\ ~Receivable(rx.fd)
    /\ rx' = [rx EXCEPT !.pc = "ended"]
    /\ UNCHANGED <<sharedVars, clientVars, backlog, conn, armed, uses,
                   tx, answers>>

(* conn_read: dispatch_msg_to_fn to hop 0 of the route.                    *)
RxDispatch ==
    /\ alive[0]
    /\ rx.pc = "dispatch"
    /\ TransferOwnership(0, rx.obj, HopAt(txn[rx.obj].route, 0))
    /\ rx' = [rx EXCEPT !.pc = "poll", !.fd = None, !.obj = None]
    /\ UNCHANGED <<txn, doubled, clientVars, backlog, conn, armed, uses, tx, answers>>

-----------------------------------------------------------------------------
(* Thread TX.                                                              *)

NextHopCount(k) == k + 1

(* conn_write: an object arrives; its hop count decides what it is for.    *)
TxWait ==
    /\ CanWait(0)
    /\ tx.pc = "wait"
    /\ Consume(0)
    /\ LET o == Awaited(0, None)
       IN  IF o = None
           THEN /\ tx' = [tx EXCEPT !.pc = "ended"]
                /\ UNCHANGED txn
           ELSE LET k == NextHopCount(txn[o].hop)
                IN  /\ txn' = [txn EXCEPT ![o].hop = k]
                    /\ tx' = [pc |-> IF k < Len(Route[txn[o].route])
                                     THEN "forward" ELSE "respond",
                              obj |-> o, fd |-> None]
    /\ UNCHANGED <<doubled, clientVars, backlog, conn, armed, uses, rx, answers>>

TxForward ==
    /\ alive[0]
    /\ tx.pc = "forward"
    /\ TransferOwnership(0, tx.obj, HopAt(txn[tx.obj].route, txn[tx.obj].hop))
    /\ tx' = [pc |-> "wait", obj |-> None, fd |-> None]
    /\ UNCHANGED <<txn, doubled, clientVars, backlog, conn, armed, uses, rx, answers>>

(* write fails on a descriptor that is closed or whose client has reset.   *)
Writable(fd) == conn[fd] # None /\ conn[fd] \notin Flaky \intersect gone

\* The result of conn_write that says the object was forwarded.
Forwarded == 1

(***************************************************************************)
(* conn_write: the response.  Its result is the address of the object, so  *)
(* an object at address Forwarded is answered, and its connection is not   *)
(* closed nor the object released.                                         *)
(***************************************************************************)
TxRespond ==
    /\ alive[0]
    /\ tx.pc = "respond"
    /\ Writable(txn[tx.obj].sockfd)
    /\ answers' = [answers EXCEPT ![conn[txn[tx.obj].sockfd]] = @ + 1]
    /\ tx' = IF tx.obj = Forwarded
             THEN [pc |-> "wait", obj |-> None, fd |-> None]
             ELSE [tx EXCEPT !.pc = "close", !.fd = txn[tx.obj].sockfd]
    /\ UNCHANGED <<sharedVars, clientVars, backlog, conn, armed, uses, rx>>

TxRespondError ==
    /\ alive[0]
    /\ tx.pc = "respond"
    /\ ~Writable(txn[tx.obj].sockfd)
    /\ tx' = [tx EXCEPT !.pc = "ended"]
    /\ UNCHANGED <<sharedVars, clientVars, backlog, conn, armed, uses, rx, answers>>

(* conn_close: the descriptor that conn_write took from the transaction    *)
(* leaves epoll and is free for the next accept.  Closing one that is not  *)
(* open is fatal to the gateway.                                           *)
TxClose ==
    /\ alive[0]
    /\ tx.pc = "close"
    /\ IF conn[tx.fd] = None
       THEN /\ Exit(0)
            /\ UNCHANGED <<conn, armed, tx>>
       ELSE /\ conn' = [conn EXCEPT ![tx.fd] = None]
            /\ armed' = armed \ {tx.fd}
            /\ tx' = [tx EXCEPT !.pc = "release", !.fd = None]
            /\ UNCHANGED <<signals, alive>>
    /\ UNCHANGED <<txn, doubled, clientVars, backlog, uses, rx, answers>>

TxRelease ==
    /\ alive[0]
    /\ tx.pc = "release"
    /\ Released(tx.obj)
    /\ tx' = [pc |-> "wait", obj |-> None, fd |-> None]
    /\ UNCHANGED <<sharedVars, clientVars, backlog, conn, armed, rx, answers>>

-----------------------------------------------------------------------------
ClientStep(r) == Connect(r) \/ Send(r) \/ Leave(r)

RxStep ==
    \/ RxPoll \/ RxAccept \/ RxAcceptError \/ RxAcceptRefused
    \/ \E fd \in Fd : RxAllocate(fd) \/ RxRefused(fd) \/ RxOverrun(fd)
    \/ RxReceive \/ RxReceiveError \/ RxDispatch

TxStep ==
    TxWait \/ TxForward \/ TxRespond \/ TxRespondError \/ TxClose \/ TxRelease
=============================================================================
