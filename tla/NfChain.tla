------------------------------- MODULE NfChain -------------------------------
(***************************************************************************)
(* A chain of network functions: the gateway, its clients and the nf       *)
(* processes, which interact by the signals and the transactions of        *)
(* SharedRegion only.                                                      *)
(***************************************************************************)
EXTENDS Gateway, NetworkFunction

CONSTANTS Free, Lost    \* The owners of objects that no process owns.

ASSUME OwnersAssumption == Free \notin Proc /\ Lost \notin Proc

vars == <<sharedVars, gatewayVars, nfVars>>

Init == SharedInit /\ GatewayInit /\ NfInit

GatewayNext ==
    /\ (\E r \in Request : ClientStep(r)) \/ RxStep \/ TxStep
    /\ UNCHANGED nfVars

NfNext ==
    /\ \E f \in Fn : NfStep(f) \/ NfKilled(f)
    /\ UNCHANGED gatewayVars

Next == GatewayNext \/ NfNext

Spec == Init /\ [][Next]_vars

-----------------------------------------------------------------------------
(* Fairness: every thread is scheduled again and again, and a client that  *)
(* has connected sends its request or leaves.                              *)

Fairness ==
    /\ \A r \in Request : WF_vars(Send(r) /\ UNCHANGED nfVars)
    /\ WF_vars(RxStep /\ UNCHANGED nfVars)
    /\ WF_vars(TxStep /\ UNCHANGED nfVars)
    /\ \A f \in Fn :
           /\ WF_vars(NfRx(f) /\ UNCHANGED gatewayVars)
           /\ \A w \in Worker(f) :
                  /\ WF_vars(NfWorkerRead(f, w) /\ UNCHANGED gatewayVars)
                  /\ WF_vars(NfWorkerWrite(f, w) /\ UNCHANGED gatewayVars)
                  /\ WF_vars(NfTx(f, w) /\ UNCHANGED gatewayVars)

FairSpec == Spec /\ Fairness

-----------------------------------------------------------------------------
(* Where an object can be: the places of a running process that name it.   *)

SignalPlaces(o, p) ==
    {<<"signal", p, i>> : i \in {j \in DOMAIN signals[p] : signals[p][j].addr = o}}

ThreadPlaces(o) ==
    {<<"rx">> : t \in {u \in {rx} : u.obj = o /\ u.pc # "ended"}}
        \union {<<"tx">> : t \in {u \in {tx} : u.obj = o /\ u.pc # "ended"}}

WorkerPlaces(o, f, w) ==
    {<<"in", f, w, i>> : i \in {j \in DOMAIN inPipe[f][w] : inPipe[f][w][j] = o}}
        \union {<<"work", f, w>> : x \in {o} \intersect {work[f][w]}}
        \union {<<"out", f, w, i>> :
                   i \in {j \in DOMAIN outPipe[f][w] : outPipe[f][w][j] = o}}

PlacesIn(o, p) ==
    IF ~alive[p] THEN {}
    ELSE SignalPlaces(o, p)
             \union IF p = 0 THEN ThreadPlaces(o)
                    ELSE UNION {WorkerPlaces(o, p, w) : w \in Worker(p)}

Places(o) == UNION {PlacesIn(o, p) : p \in Proc}

-----------------------------------------------------------------------------
(* The properties.  In two cases the code gives an object to one holder    *)
(* more: nf_rx after a signal whose sender has lost its slot in the hash   *)
(* table, and allocate_object when all objects are in use and it does not  *)
(* see it.  What is said of transactions holds until then, and says that   *)
(* there is no third case; NfChain_proofs proves when there are none.      *)

TypeOK == SharedTypeOK /\ GatewayTypeOK /\ NfTypeOK

(* No object is ever in two hands: no two threads, queued signals or pipe  *)
(* entries, of one process or of two, name the same address, so that no    *)
(* transaction needs a lock (signalled by transfer_ownership, dealt out by *)
(* nf_rx, collected by nf_tx, all without copying the transaction).  And   *)
(* an address in the pool is in nobody's: release_object runs only after   *)
(* the last use, so the next allocation hands out an idle object.          *)
OneHolder ==
    ~doubled =>
        \A o \in Object :
            /\ \A x, y \in Places(o) : x = y
            /\ o \notin Pool!InUse => Places(o) = {}

\* The objects on their way from conn_read's dispatch to the response.
InFlight ==
    {o \in Pool!InUse :
        /\ Places(o) # {}
        /\ ~ (rx.obj = o /\ rx.pc = "receive")
        /\ ~ (tx.obj = o /\ tx.pc \in {"close", "release"})}

(* The descriptor a transaction carries is, all along the chain, the open  *)
(* connection of its own request: it is not closed and given to another    *)
(* client while the transaction travels, and no second transaction is      *)
(* read from it (conn_accept's EPOLLONESHOT, conn_write's close at the     *)
(* end).  A client that left before it sent has no request of its own.     *)
OwnConnection ==
    ~doubled =>
        /\ \A o \in InFlight :
               LET fd == txn[o].sockfd
               IN  /\ fd \in Fd /\ conn[fd] # None
                   /\ fd \notin armed \union rx.batch
                   /\ client[conn[fd]] = "sent" => txn[o].request = conn[fd]
        /\ \A o, p \in InFlight : txn[o].sockfd = txn[p].sockfd => o = p

(* A client gets at most one response.                                     *)
AnsweredOnce == ~doubled => \A r \in Request : answers[r] <= 1

(* Whoever has a transaction is the hop its counter names, and the gateway *)
(* answers only a transaction whose counter has passed the whole route, at *)
(* whichever of conn_read, nf_tx and conn_write the counter was moved.     *)
AtItsHop ==
    ~doubled =>
        \A o \in InFlight :
            LET k == txn[o].hop
                i == txn[o].route
            IN  /\ \A p \in Proc : PlacesIn(o, p) # {} =>
                       \/ HopAt(i, k) = p
                       \/ p = 0 /\ o \in {rx.obj, tx.obj}
                /\ tx.obj = o /\ tx.pc = "respond" => k >= Len(Route[i])

(* What RX still has to process of an epoll_wait is not stale: TX has not  *)
(* closed the connection since, and no request was read from it.           *)
BatchIsFresh ==
    ~doubled =>
        \A fd \in rx.batch \ {Listener} :
            conn[fd] # None /\ \A o \in InFlight : txn[o].sockfd # fd

(* Allocation never outruns the descriptors: the objects out of the pool   *)
(* are at most one more than the open connections, the one TX releases     *)
(* after it has closed.  So the pool is never found empty by a user that   *)
(* may open fewer descriptors than it has objects, by two or more.         *)
ObjectsBounded ==
    ~doubled =>
        Cardinality(Pool!InUse) <= Cardinality({fd \in Fd : conn[fd] # None}) + 1

(* Nothing is lost while no process and no thread has failed: an object    *)
(* out of the pool is in somebody's hands, except the one whose address is *)
(* the result that means "forwarded".                                      *)
NothingLost ==
    ~doubled =>
        \A o \in Pool!InUse \ {Forwarded} : rx.pc # "ended" => Places(o) # {}

(* "Return addr to free mem after connection is closed" (gateway.c:401):   *)
(* an object whose transaction has been answered goes back to the pool.    *)
AnsweredIsReturned == \A o \in Pool!InUse : Places(o) # {}

(* Every request that a client sends is answered, unless RX has returned.  *)
Answered ==
    \A r \in Request :
        client[r] = "sent" ~> (answers[r] = 1 \/ rx.pc = "ended")

(* Even then, what was dispatched is answered, and its object returned.    *)
Drained ==
    \A o \in Object \ {Forwarded} : o \in Pool!InUse ~> o \notin Pool!InUse

-----------------------------------------------------------------------------
(* Objects change hands as Exchange says, which promises nothing either    *)
(* once an object has one holder more.                                     *)

OwnerOf(o) ==
    IF o \notin Pool!InUse THEN Free
    ELSE IF Places(o) = {} THEN Lost
    ELSE CHOOSE p \in Proc : PlacesIn(o, p) # {}

Ownership == INSTANCE Exchange WITH owner <- [o \in Object |-> OwnerOf(o)]

(* Every step of the node is a step of Exchange or leaves it unchanged.    *)
ExchangeSpec == Ownership!Spec
=============================================================================
