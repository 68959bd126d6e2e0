--------------------------- MODULE NfChain_proofs ---------------------------
(***************************************************************************)
(* Proofs about the ownership of objects in a chain of network functions,  *)
(* for any number of functions, workers, clients, descriptors and objects, *)
(* any routes and any processes that may die.  The argument: every place   *)
(* where an address can be is a process, a kind of place in it and, for    *)
(* the pipes, a worker (Holds), and a step does one of four things to the  *)
(* places: nothing (Same), one object goes elsewhere (Moved) or nowhere    *)
(* (Dropped), or all that a process has goes with it (Ended).  None of     *)
(* them puts an object in a second place (HeldOnce), and only Moved of a   *)
(* free object, RX's allocation, takes one out of the pool (HeldInUse).    *)
(* Each of the four is then a step of Exchange.                            *)
(***************************************************************************)
EXTENDS NfChain, FiniteSetTheorems, TLAPS

(* Where the two threads of the gateway are tells what they hold. *)
Threads ==
    /\ rx.pc = "poll" => rx.obj = None
    /\ rx.pc \in {"receive", "dispatch"} => rx.obj \in Object /\ rx.fd \in Fd
    /\ tx.pc = "wait" => tx.obj = None
    /\ tx.pc \in {"forward", "respond", "close", "release"} => tx.obj \in Object
    /\ rx.pc # "ended" /\ Listener \in rx.batch => backlog # <<>>

Shapes == TypeOK /\ Threads

RxType == [pc : RxPC, batch : SUBSET (Fd \union {Listener}),
           fd : Fd \union {None}, obj : Object \union {None}]
TxType == [pc : TxPC, obj : Object \union {None}, fd : Nat \union {None}]

LEMMA Hops ==
    ASSUME NEW i \in DOMAIN Route, NEW k \in Nat
    PROVE  HopAt(i, k) \in Proc
BY SharedRegionAssumption DEF HopAt, Proc

LEMMA TransferShapes ==
    ASSUME SharedTypeOK, NEW p \in Proc, NEW q \in Proc, NEW o \in Object,
           TransferOwnership(p, o, q)
    PROVE  signals' \in [Proc -> Seq(Signal)] /\ alive' \in [Proc -> BOOLEAN]
<1>. DEFINE m == [addr |-> o, from |-> p]
<1>1. m \in Signal
  BY DEF Signal
<1>2. \A r \in Proc : signals[r] \in Seq(Signal) /\ Append(signals[q], m) \in Seq(Signal)
  BY <1>1 DEF SharedTypeOK
<1>3. CASE q \in Known[p] /\ alive[q]
            /\ signals' = [signals EXCEPT ![q] = Append(@, m)] /\ UNCHANGED alive
  BY <1>2, <1>3 DEF SharedTypeOK
<1>4. CASE Exit(p)
  BY <1>4 DEF Exit, SharedTypeOK
<1>5. CASE UNCHANGED <<signals, alive>>
  BY <1>5 DEF SharedTypeOK
<1>. QED  BY <1>3, <1>4, <1>5 DEF TransferOwnership

LEMMA ExitShapes ==
    ASSUME SharedTypeOK, NEW p \in Proc, Exit(p)
    PROVE  signals' \in [Proc -> Seq(Signal)] /\ alive' \in [Proc -> BOOLEAN]
BY DEF Exit, SharedTypeOK

LEMMA OneMore ==
    ASSUME NEW a \in [Request -> Nat], NEW r
    PROVE  [a EXCEPT ![r] = @ + 1] \in [Request -> Nat]
<1>1. CASE r \in Request
  BY <1>1
<1>2. CASE r \notin Request
  <2>1. [a EXCEPT ![r] = @ + 1] = [x \in Request |-> IF x = r THEN a[r] + 1 ELSE a[x]]
    OBVIOUS
  <2>. QED  BY <1>2, <2>1, Zenon
<1>. QED  BY <1>1, <1>2

LEMMA SharedInitShapes == SharedInit => SharedTypeOK
<1>. SUFFICES ASSUME SharedInit PROVE SharedTypeOK
  OBVIOUS
<1>1. txn \in [Object -> Transaction]
  BY SharedRegionAssumption DEF SharedInit, Transaction
<1>2. signals \in [Proc -> Seq(Signal)] /\ alive \in [Proc -> BOOLEAN]
  BY DEF SharedInit
<1>3. doubled \in BOOLEAN
  BY DEF SharedInit
<1>. QED  BY <1>1, <1>2, <1>3 DEF SharedTypeOK

LEMMA InitShapes == Init => Shapes
<1>. SUFFICES ASSUME Init PROVE Shapes
  OBVIOUS
<1>1. SharedTypeOK
  BY SharedInitShapes DEF Init
<1>2. GatewayTypeOK /\ Threads
  BY DEF Init, GatewayInit, GatewayTypeOK, Threads, Pool!Init, Pool!TypeOK, RxPC, TxPC
<1>3. NfTypeOK
  BY NetworkFunctionAssumption DEF Init, NfInit, NfTypeOK, Worker
<1>. QED  BY <1>1, <1>2, <1>3 DEF Shapes, TypeOK

LEMMA SharedKept == SharedTypeOK /\ UNCHANGED sharedVars => SharedTypeOK'
BY DEF SharedTypeOK, sharedVars

LEMMA NfKept == NfTypeOK /\ UNCHANGED nfVars => NfTypeOK'
BY DEF NfTypeOK, nfVars

LEMMA GatewayKept ==
    GatewayTypeOK /\ Threads /\ UNCHANGED gatewayVars => GatewayTypeOK' /\ Threads'
BY DEF GatewayTypeOK, Threads, gatewayVars, Pool!TypeOK

(* Of any set of naturals there is a least; so the kernel finds the lowest *)
(* free descriptor whenever one is free.                                   *)
LEMMA Least ==
    ASSUME NEW S \in SUBSET Nat, S # {}
    PROVE  \E x \in S : \A y \in S : x <= y
<1>. DEFINE Up(x) == 1 .. x
            T == {Up(x) : x \in S}
<1>1. T \subseteq FiniteSubsetsOf(Nat)
  <2>1. \A x \in S : IsFiniteSet(Up(x)) /\ Up(x) \in SUBSET Nat
    BY FS_Interval
  <2>. QED  BY <2>1 DEF FiniteSubsetsOf
<1>2. T # {}
  OBVIOUS
<1>3. PICK U \in T : \A V \in T : <<V, U>> \notin StrictSubsetOrdering(Nat)
  BY <1>1, <1>2, FS_StrictSubsetOrderingWellFounded, WFMin
<1>4. PICK x \in S : U = Up(x)
  OBVIOUS
<1>5. ASSUME NEW y \in S PROVE x <= y
  <2>1. <<Up(y), Up(x)>> \notin StrictSubsetOrdering(Nat)
    BY <1>3, <1>4
  <2>2. SUFFICES ASSUME y < x PROVE FALSE
    BY y \in Nat, x \in Nat
  <2>3. x \in Up(x) /\ x \notin Up(y) /\ Up(y) \subseteq Up(x) /\ Up(x) \subseteq Nat
    BY <2>2
  <2>. QED  BY <2>1, <2>3 DEF StrictSubsetOrdering
<1>. QED  BY <1>5

LEMMA FreeFdLeast ==
    ASSUME FreeFd # {}
    PROVE  (CHOOSE x \in FreeFd : \A y \in FreeFd : x <= y) \in FreeFd
<1>1. \E x \in FreeFd : \A y \in FreeFd : x <= y
  BY GatewayAssumption, Least DEF FreeFd
<1>. QED  BY <1>1

LEMMA ClientShapes ==
    ASSUME Shapes, NEW r \in Request, ClientStep(r), UNCHANGED nfVars
    PROVE  Shapes'
<1>. USE DEF Shapes, TypeOK
<1>1. SharedTypeOK' /\ NfTypeOK'
  BY SharedKept, NfKept DEF ClientStep, Connect, Send, Leave
<1>2. GatewayTypeOK' /\ Threads'
  <2>. USE DEF GatewayTypeOK, Threads, Pool!TypeOK
  <2>1. CASE Connect(r)
    <3>0. backlog \in Seq(Request) /\ backlog' = Append(backlog, r)
      BY <2>1 DEF Connect
    <3>1. backlog' \in Seq(Request) /\ backlog' # <<>>
      BY <3>0
    <3>2. client' \in [Request -> {"idle", "connected", "sent"}]
      BY <2>1 DEF Connect
    <3>. QED  BY <2>1, <3>1, <3>2 DEF Connect
  <2>2. CASE Send(r)
    BY <2>2 DEF Send
  <2>3. CASE Leave(r)
    BY <2>3 DEF Leave
  <2>. QED  BY <2>1, <2>2, <2>3 DEF ClientStep
<1>. QED  BY <1>1, <1>2

LEMMA RxShapes ==
    ASSUME Shapes, RxStep, UNCHANGED nfVars
    PROVE  Shapes'
<1>. USE DEF Shapes, TypeOK, GatewayTypeOK, Threads, Pool!TypeOK, clientVars
<1>1. CASE RxPoll
  <2>1. Ready \subseteq Fd \union {Listener} /\ (Listener \in Ready => backlog # <<>>)
    BY GatewayAssumption DEF Ready, Listener
  <2>2. SharedTypeOK' /\ NfTypeOK'
    BY <1>1, SharedKept, NfKept DEF RxPoll
  <2>3. rx' \in RxType /\ rx'.pc = "poll" /\ rx'.batch = Ready /\ rx'.obj = rx.obj
    BY <1>1, <2>1 DEF RxPoll, RxType
  <2>. QED  BY <1>1, <2>1, <2>2, <2>3 DEF RxPoll, StillArmed, RxType
<1>2. CASE RxAccept
  <2>. DEFINE x == CHOOSE x \in FreeFd : \A y \in FreeFd : x <= y
  <2>1. x \in Fd
    BY <1>2, FreeFdLeast DEF RxAccept, FreeFd
  <2>2. Head(backlog) \in Request /\ Tail(backlog) \in Seq(Request)
    BY <1>2 DEF RxAccept
  <2>3. conn' = [conn EXCEPT ![x] = Head(backlog)] /\ armed' = armed \union {x}
    BY <1>2 DEF RxAccept
  <2>. HIDE DEF x
  <2>4. conn' \in [Fd -> Request \union {None}]
    BY <2>1, <2>2, <2>3
  <2>5. SharedTypeOK' /\ NfTypeOK'
    BY <1>2, SharedKept, NfKept DEF RxAccept
  <2>6. rx' \in RxType /\ rx'.pc = rx.pc /\ Listener \notin rx'.batch
        /\ rx'.obj = rx.obj /\ rx'.fd = rx.fd
    BY <1>2 DEF RxAccept, RxType
  <2>. QED  BY <1>2, <2>1, <2>2, <2>3, <2>4, <2>5, <2>6 DEF RxAccept, RxType
<1>3. CASE RxAcceptError
  BY <1>3, SharedKept, NfKept DEF RxAcceptError, RxPC
<1>4. ASSUME NEW fd \in Fd, RxAllocate(fd) PROVE Shapes'
  <2>1. PICK o \in Object : Allocated(o) /\ Reads(fd, o)
    BY <1>4 DEF RxAllocate
  <2>2. SharedTypeOK' /\ NfTypeOK'
    BY <1>4, SharedKept, NfKept DEF RxAllocate
  <2>3. uses' \in [Object -> {0, 1}]
    BY <2>1 DEF Allocated, Pool!Take
  <2>. QED  BY <1>4, <2>1, <2>2, <2>3 DEF RxAllocate, Reads, RxPC
<1>5. CASE RxReceive
  <2>. DEFINE q == Received(conn[rx.fd], txn[rx.obj].request)
  <2>1. rx.fd \in Fd /\ rx.obj \in Object /\ conn[rx.fd] \in Request /\ rx.fd \in Nat
    BY <1>5, GatewayAssumption DEF RxReceive, Receivable
  <2>2. q \in Request \union {None}
    BY <2>1 DEF Received, SharedTypeOK, Transaction
  <2>3. ParsedRoute(q) \in DOMAIN Route
    BY <2>2, SharedRegionAssumption DEF ParsedRoute
  <2>4. txn' = [txn EXCEPT ![rx.obj] =
                   [request |-> q, sockfd |-> rx.fd, route |-> ParsedRoute(q), hop |-> 0]]
    BY <1>5 DEF RxReceive
  <2>. HIDE DEF q
  <2>5. [request |-> q, sockfd |-> rx.fd, route |-> ParsedRoute(q), hop |-> 0] \in Transaction
    BY <2>1, <2>2, <2>3 DEF Transaction
  <2>6. SharedTypeOK'
    BY <1>5, <2>4, <2>5 DEF SharedTypeOK, RxReceive
  <2>7. NfTypeOK'
    BY <1>5, NfKept
  <2>8. rx' \in RxType /\ rx'.pc = "dispatch" /\ rx'.batch = rx.batch
        /\ rx'.obj = rx.obj /\ rx'.fd = rx.fd
    BY <1>5 DEF RxReceive, RxType, RxPC
  <2>. QED  BY <1>5, <2>1, <2>6, <2>7, <2>8 DEF RxReceive, RxType
<1>6. CASE RxReceiveError
  BY <1>6, SharedKept, NfKept DEF RxReceiveError, RxPC
<1>7. CASE RxDispatch
  <2>1. HopAt(txn[rx.obj].route, 0) \in Proc /\ rx.obj \in Object
    BY <1>7, Hops DEF RxDispatch, SharedTypeOK, Transaction
  <2>2. SharedTypeOK'
    BY <1>7, <2>1, TransferShapes DEF RxDispatch, SharedTypeOK, Proc
  <2>3. NfTypeOK'
    BY NfKept
  <2>4. rx' \in RxType /\ rx'.pc = "poll" /\ rx'.batch = rx.batch /\ rx'.obj = None
    BY <1>7 DEF RxDispatch, RxType, RxPC
  <2>. QED  BY <1>7, <2>2, <2>3, <2>4 DEF RxDispatch, RxType
<1>8. CASE RxAcceptRefused
  <2>1. Tail(backlog) \in Seq(Request)
    BY <1>8 DEF RxAcceptRefused
  <2>2. SharedTypeOK' /\ NfTypeOK'
    BY <1>8, SharedKept, NfKept DEF RxAcceptRefused
  <2>3. rx' \in RxType /\ rx'.pc = "ended"
    BY <1>8 DEF RxAcceptRefused, RxType, RxPC
  <2>4. UNCHANGED <<client, gone, conn, armed, uses, tx, answers>> /\ backlog' = Tail(backlog)
        /\ rx'.batch = rx.batch
    BY <1>8 DEF RxAcceptRefused
  <2>. QED  BY <2>1, <2>2, <2>3, <2>4 DEF RxType
<1>9. ASSUME NEW fd \in Fd, RxRefused(fd) PROVE Shapes'
  BY <1>9, SharedKept, NfKept DEF RxRefused, RxPC
<1>10. ASSUME NEW fd \in Fd, RxOverrun(fd) PROVE Shapes'
  <2>1. PICK o \in Object : Reads(fd, o)
    BY <1>10 DEF RxOverrun
  <2>2. SharedTypeOK' /\ NfTypeOK'
    BY <1>10, NfKept DEF RxOverrun, SharedTypeOK
  <2>. QED  BY <1>10, <2>1, <2>2 DEF RxOverrun, Reads, RxPC
<1>. QED  BY <1>1, <1>2, <1>3, <1>4, <1>5, <1>6, <1>7, <1>8, <1>9, <1>10 DEF RxStep

LEMMA TxShapes ==
    ASSUME Shapes, TxStep, UNCHANGED nfVars
    PROVE  Shapes'
<1>. USE DEF Shapes, TypeOK, GatewayTypeOK, Threads, Pool!TypeOK, clientVars
<1>0. NfTypeOK'
  BY NfKept
<1>1. CASE TxWait
  <2>1. signals[0] \in Seq(Signal) /\ Head(signals[0]) \in Signal /\ Tail(signals[0]) \in Seq(Signal)
    BY <1>1 DEF TxWait, CanWait, SharedTypeOK, Proc
  <2>2. signals' \in [Proc -> Seq(Signal)] /\ alive' = alive
    BY <1>1, <2>1 DEF TxWait, Consume, SharedTypeOK
  <2>3. Awaited(0, None) \in Object \union {None}
    BY <2>1 DEF Awaited, Signal
  <2>4. CASE Awaited(0, None) = None
    BY <1>0, <1>1, <2>2, <2>4 DEF TxWait, SharedTypeOK, TxPC
  <2>5. ASSUME NEW o \in Object, o = Awaited(0, None), o # None PROVE Shapes'
    <3>1. txn' = [txn EXCEPT ![o].hop = NextHopCount(txn[o].hop)]
      BY <1>1, <2>5 DEF TxWait
    <3>2. txn[o] \in Transaction /\ NextHopCount(txn[o].hop) \in Nat
      BY DEF SharedTypeOK, Transaction, NextHopCount
    <3>3. [txn[o] EXCEPT !.hop = NextHopCount(txn[o].hop)] \in Transaction
      BY <3>2 DEF Transaction
    <3>4. SharedTypeOK'
      <4>1. txn' \in [Object -> Transaction]
        BY <3>1, <3>3 DEF SharedTypeOK
      <4>2. doubled' \in BOOLEAN
        BY <1>1 DEF TxWait, SharedTypeOK
      <4>. QED  BY <2>2, <4>1, <4>2 DEF SharedTypeOK
    <3>5. tx' \in TxType /\ tx'.obj = o /\ tx'.pc \in {"forward", "respond"}
      BY <1>1, <2>5 DEF TxWait, TxType, TxPC
    <3>. QED  BY <1>0, <1>1, <3>4, <3>5 DEF TxWait, TxType
  <2>. QED  BY <2>3, <2>4, <2>5, SharedRegionAssumption
<1>2. CASE TxForward
  <2>1. HopAt(txn[tx.obj].route, txn[tx.obj].hop) \in Proc /\ tx.obj \in Object
    BY <1>2, Hops DEF TxForward, SharedTypeOK, Transaction
  <2>2. SharedTypeOK'
    BY <1>2, <2>1, TransferShapes DEF TxForward, SharedTypeOK, Proc
  <2>. QED  BY <1>0, <1>2, <2>2 DEF TxForward, TxPC
<1>3. CASE TxRespond
  <2>1. tx' \in TxType /\ (tx'.pc = "wait" => tx'.obj = None)
        /\ (tx'.pc = "close" => tx'.obj \in Object) /\ tx'.pc \in {"wait", "close"}
    <3>1. tx.obj \in Object /\ txn[tx.obj].sockfd \in Nat
      BY <1>3 DEF TxRespond, SharedTypeOK, Transaction
    <3>. QED  BY <1>3, <3>1 DEF TxRespond, TxType, TxPC
  <2>2. SharedTypeOK'
    BY <1>3, SharedKept DEF TxRespond
  <2>3. answers' \in [Request -> Nat]
    <3>. DEFINE r == conn[txn[tx.obj].sockfd]
    <3>1. answers' = [answers EXCEPT ![r] = @ + 1]
      BY <1>3 DEF TxRespond
    <3>. QED  BY <3>1, OneMore
  <2>. QED  BY <1>0, <1>3, <2>1, <2>2, <2>3 DEF TxRespond, TxType
<1>4. CASE TxRespondError
  BY <1>0, <1>4, SharedKept DEF TxRespondError, TxPC
<1>5. CASE TxClose
  <2>1. CASE conn[tx.fd] = None
    <3>1. SharedTypeOK'
      <4>1. signals' \in [Proc -> Seq(Signal)] /\ alive' \in [Proc -> BOOLEAN]
        BY <1>5, <2>1, ExitShapes DEF TxClose, Proc
      <4>. QED  BY <1>5, <4>1 DEF TxClose, SharedTypeOK
    <3>. QED  BY <1>0, <1>5, <2>1, <3>1 DEF TxClose
  <2>2. CASE conn[tx.fd] # None
    <3>1. SharedTypeOK'
      BY <1>5, <2>2, SharedKept DEF TxClose, sharedVars
    <3>2. tx' \in TxType /\ tx'.pc = "release" /\ tx'.obj = tx.obj /\ tx.obj \in Object
      <4>1. tx \in TxType /\ tx.obj \in Object
        BY <1>5 DEF TxClose, TxType
      <4>2. tx' = [tx EXCEPT !.pc = "release", !.fd = None]
        BY <1>5, <2>2 DEF TxClose
      <4>. QED  BY <4>1, <4>2 DEF TxType, TxPC
    <3>3. conn' \in [Fd -> Request \union {None}] /\ armed' \subseteq Fd
      BY <1>5, <2>2 DEF TxClose
    <3>. QED  BY <1>0, <1>5, <3>1, <3>2, <3>3 DEF TxClose, TxType
  <2>. QED  BY <2>1, <2>2
<1>6. CASE TxRelease
  <2>1. uses' \in [Object -> {0, 1}]
    BY <1>6 DEF TxRelease, Released, Pool!Give
  <2>. QED  BY <1>0, <1>6, <2>1, SharedKept DEF TxRelease, TxPC
<1>. QED  BY <1>1, <1>2, <1>3, <1>4, <1>5, <1>6 DEF TxStep

LEMMA NfShapes ==
    ASSUME Shapes, NEW f \in Fn, NfStep(f) \/ NfKilled(f), UNCHANGED gatewayVars
    PROVE  Shapes'
<1>. USE DEF Shapes, TypeOK
<1>0. GatewayTypeOK' /\ Threads'
  BY GatewayKept
<1>1. CASE NfRx(f)
  <2>1. signals[f] \in Seq(Signal) /\ Head(signals[f]) \in Signal /\ Tail(signals[f]) \in Seq(Signal)
    BY <1>1 DEF NfRx, CanWait, SharedTypeOK, Proc
  <2>2. SharedTypeOK'
    BY <1>1, <2>1 DEF NfRx, Consume, SharedTypeOK
  <2>3. Awaited(f, seen[f]) \in Object \union {None}
    BY <2>1 DEF Awaited, Signal, NfTypeOK
  <2>4. seen' \in [Fn -> Object \union {None}]
    BY <1>1, <2>3 DEF NfRx, NfTypeOK
  <2>5. CASE Awaited(f, seen[f]) = None
    BY <1>0, <1>1, <2>2, <2>4, <2>5 DEF NfRx, NfTypeOK
  <2>6. ASSUME NEW o \in Object, o = Awaited(f, seen[f]), o # None PROVE Shapes'
    <3>1. turn[f] \in Worker(f) /\ NextWorker(f, turn[f]) \in Worker(f)
      <4>1. NThreads[f] \in Nat \ {0}
        BY NetworkFunctionAssumption
      <4>2. turn[f] \in Worker(f)
        BY <1>1 DEF NfRx, NfTypeOK
      <4>3. turn[f] + 1 \in Nat /\ (turn[f] + 1) % NThreads[f] \in 0 .. NThreads[f] - 1
        BY <4>1, <4>2 DEF Worker
      <4>. QED  BY <4>2, <4>3 DEF Worker, NextWorker
    <3>2. Append(inPipe[f][turn[f]], o) \in Seq(Object)
      BY <3>1 DEF NfTypeOK
    <3>3. [inPipe[f] EXCEPT ![turn[f]] = Append(@, o)] \in [Worker(f) -> Seq(Object)]
      BY <3>1, <3>2 DEF NfTypeOK
    <3>4. inPipe' = [inPipe EXCEPT ![f] = [inPipe[f] EXCEPT ![turn[f]] = Append(@, o)]]
          /\ turn' = [turn EXCEPT ![f] = NextWorker(f, @)]
      BY <1>1, <2>6 DEF NfRx
    <3>. QED  BY <1>0, <1>1, <2>2, <2>4, <3>1, <3>3, <3>4 DEF NfRx, NfTypeOK
  <2>. QED  BY <2>3, <2>5, <2>6, SharedRegionAssumption
<1>2. ASSUME NEW w \in Worker(f), NfWorkerRead(f, w) PROVE Shapes'
  <2>1. Head(inPipe[f][w]) \in Object /\ Tail(inPipe[f][w]) \in Seq(Object)
    BY <1>2 DEF NfWorkerRead, NfTypeOK
  <2>2. [inPipe[f] EXCEPT ![w] = Tail(@)] \in [Worker(f) -> Seq(Object)]
        /\ [work[f] EXCEPT ![w] = Head(inPipe[f][w])] \in [Worker(f) -> Object \union {None}]
    BY <2>1 DEF NfTypeOK
  <2>3. inPipe' = [inPipe EXCEPT ![f] = [inPipe[f] EXCEPT ![w] = Tail(@)]]
        /\ work' = [work EXCEPT ![f] = [work[f] EXCEPT ![w] = Head(inPipe[f][w])]]
    BY <1>2 DEF NfWorkerRead
  <2>. QED  BY <1>0, <1>2, <2>2, <2>3, SharedKept DEF NfWorkerRead, NfTypeOK
<1>3. ASSUME NEW w \in Worker(f), NfWorkerWrite(f, w) PROVE Shapes'
  <2>1. work[f][w] \in Object /\ Append(outPipe[f][w], work[f][w]) \in Seq(Object)
    BY <1>3 DEF NfWorkerWrite, NfTypeOK
  <2>2. [outPipe[f] EXCEPT ![w] = Append(@, work[f][w])] \in [Worker(f) -> Seq(Object)]
        /\ [work[f] EXCEPT ![w] = None] \in [Worker(f) -> Object \union {None}]
    BY <2>1 DEF NfTypeOK
  <2>3. outPipe' = [outPipe EXCEPT ![f] = [outPipe[f] EXCEPT ![w] = Append(@, work[f][w])]]
        /\ work' = [work EXCEPT ![f] = [work[f] EXCEPT ![w] = None]]
    BY <1>3 DEF NfWorkerWrite
  <2>. QED  BY <1>0, <1>3, <2>2, <2>3, SharedKept DEF NfWorkerWrite, NfTypeOK
<1>4. ASSUME NEW w \in Worker(f), NfTx(f, w) PROVE Shapes'
  <2>. DEFINE o == Head(outPipe[f][w])
  <2>1. o \in Object /\ Tail(outPipe[f][w]) \in Seq(Object)
    BY <1>4 DEF NfTx, NfTypeOK
  <2>2. /\ txn' = [txn EXCEPT ![o].hop = @ + 1]
        /\ TransferOwnership(f, o, NextHop(txn[o].route, txn[o].hop))
    BY <1>4 DEF NfTx
  <2>. HIDE DEF o
  <2>3. txn[o] \in Transaction /\ [txn[o] EXCEPT !.hop = @ + 1] \in Transaction
    <3>1. txn[o] \in Transaction
      BY <2>1 DEF SharedTypeOK
    <3>. QED  BY <3>1 DEF Transaction
  <2>4. txn' \in [Object -> Transaction]
    BY <2>2, <2>3 DEF SharedTypeOK
  <2>5. NextHop(txn[o].route, txn[o].hop) \in Proc /\ f \in Proc
    BY <2>3, Hops DEF NextHop, Transaction, Proc
  <2>6. SharedTypeOK'
    <3>1. doubled' \in BOOLEAN
      BY <1>4 DEF NfTx, SharedTypeOK
    <3>. QED  BY <2>1, <2>2, <2>4, <2>5, <3>1, TransferShapes DEF SharedTypeOK
  <2>7. [outPipe[f] EXCEPT ![w] = Tail(@)] \in [Worker(f) -> Seq(Object)]
        /\ outPipe' = [outPipe EXCEPT ![f] = [outPipe[f] EXCEPT ![w] = Tail(@)]]
    BY <1>4, <2>1 DEF NfTx, NfTypeOK, o
  <2>. QED  BY <1>0, <1>4, <2>6, <2>7 DEF NfTx, NfTypeOK
<1>5. CASE NfKilled(f)
  <2>1. signals' \in [Proc -> Seq(Signal)] /\ alive' \in [Proc -> BOOLEAN] /\ txn' = txn
    BY <1>5, ExitShapes DEF NfKilled, Proc
  <2>. QED  BY <1>0, <1>5, <2>1, NfKept DEF NfKilled, SharedTypeOK
<1>. QED  BY <1>1, <1>2, <1>3, <1>4, <1>5 DEF NfStep

LEMMA NextShapes == Shapes /\ [Next]_vars => Shapes'
<1>1. CASE UNCHANGED vars
  BY <1>1, SharedKept, GatewayKept, NfKept DEF vars, Shapes, TypeOK
<1>. QED  BY <1>1, ClientShapes, RxShapes, TxShapes, NfShapes DEF Next, GatewayNext, NfNext

(* Every field of a transaction, every queue and pipe, and the state of    *)
(* each thread keeps its type: a hop is always a process, and an object is *)
(* one of the pool's, whatever the routes and however many workers.        *)
THEOREM TypeCorrect == Spec => []TypeOK
<1>1. Shapes => TypeOK
  BY DEF Shapes
<1>. QED  BY <1>1, InitShapes, NextShapes, PTL DEF Spec
-----------------------------------------------------------------------------
(***************************************************************************)
(* The places again, without the positions in a queue: a process, a kind   *)
(* of place in it and, for the pipes, a worker.                            *)
(***************************************************************************)
Kind == {"signal", "rx", "tx", "in", "work", "out"}

Signalled(o, s) == \E i \in DOMAIN s : s[i].addr = o
Piped(o, s) == \E i \in DOMAIN s : s[i] = o

Named(o, k, p, w) ==
    \/ k = "signal" /\ w = 0 /\ Signalled(o, signals[p])
    \/ k = "rx" /\ p = 0 /\ w = 0 /\ rx.obj = o /\ rx.pc # "ended"
    \/ k = "tx" /\ p = 0 /\ w = 0 /\ tx.obj = o /\ tx.pc # "ended"
    \/ /\ p \in Fn /\ w \in Worker(p)
       /\ \/ k = "in" /\ Piped(o, inPipe[p][w])
          \/ k = "work" /\ work[p][w] = o
          \/ k = "out" /\ Piped(o, outPipe[p][w])

Holds(o, k, p, w) == alive[p] /\ Named(o, k, p, w)

Held(o) == \E k \in Kind, p \in Proc, w \in Nat : Holds(o, k, p, w)

(* No queue has an object twice, and no two places have the same one.      *)
SignalledOnce(s) == \A i, j \in DOMAIN s : s[i].addr = s[j].addr => i = j
PipedOnce(s) == \A i, j \in DOMAIN s : s[i] = s[j] => i = j

PipesOnce ==
    \A f \in Fn : \A w \in Worker(f) :
        PipedOnce(inPipe[f][w]) /\ PipedOnce(outPipe[f][w])

HeldOnce ==
    \A o \in Object, k1, k2 \in Kind, p1, p2 \in Proc, w1, w2 \in Nat :
        Holds(o, k1, p1, w1) /\ Holds(o, k2, p2, w2) => k1 = k2 /\ p1 = p2 /\ w1 = w2

(* What is held is out of the pool.                                        *)
HeldInUse == \A o \in Object : uses[o] = 0 => ~Held(o)

SignalsGood == \A p \in Proc : SignalledOnce(signals[p])

(* The object that RX had when it returned is out of the pool for good.    *)
Abandoned ==
    rx.pc = "ended" => \A o \in Object : rx.obj = o => uses[o] = 1 /\ ~Held(o)

HoldersInv == SignalsGood /\ PipesOnce /\ HeldOnce /\ HeldInUse /\ Abandoned

-----------------------------------------------------------------------------
(* Queues, as the set of what is in them.                                  *)

LEMMA AppendSignalled ==
    ASSUME NEW s \in Seq(Signal), NEW m \in Signal
    PROVE  /\ \A x : Signalled(x, Append(s, m)) <=> Signalled(x, s) \/ x = m.addr
           /\ SignalledOnce(s) /\ ~Signalled(m.addr, s) => SignalledOnce(Append(s, m))
<1>1. /\ DOMAIN s = 1 .. Len(s) /\ Len(s) \in Nat
      /\ DOMAIN Append(s, m) = 1 .. Len(s) + 1
      /\ \A i \in 1 .. Len(s) : Append(s, m)[i] = s[i]
      /\ Append(s, m)[Len(s) + 1] = m
  OBVIOUS
<1>2. ASSUME SignalledOnce(s), ~Signalled(m.addr, s),
             NEW i \in 1 .. Len(s) + 1, NEW j \in 1 .. Len(s) + 1,
             Append(s, m)[i].addr = Append(s, m)[j].addr
      PROVE  i = j
  <2>1. \A n \in 1 .. Len(s) : s[n].addr # m.addr
    BY <1>1, <1>2 DEF Signalled
  <2>2. \A n \in 1 .. Len(s) + 1 : n \in 1 .. Len(s) \/ n = Len(s) + 1
    BY <1>1
  <2>. QED  BY <1>1, <1>2, <2>1, <2>2 DEF SignalledOnce
<1>. QED  BY <1>1, <1>2 DEF Signalled, SignalledOnce

LEMMA TailSignalled ==
    ASSUME NEW s \in Seq(Signal), s # <<>>, SignalledOnce(s)
    PROVE  /\ \A x : Signalled(x, Tail(s)) <=> Signalled(x, s) /\ x # Head(s).addr
           /\ SignalledOnce(Tail(s))
           /\ Signalled(Head(s).addr, s)
<1>1. /\ DOMAIN s = 1 .. Len(s) /\ Len(s) \in Nat \ {0}
      /\ DOMAIN Tail(s) = 1 .. Len(s) - 1
      /\ \A i \in 1 .. Len(s) - 1 : Tail(s)[i] = s[i + 1]
      /\ Head(s) = s[1]
  OBVIOUS
<1>2. \A i, j \in 1 .. Len(s) : s[i].addr = s[j].addr => i = j
  BY <1>1 DEF SignalledOnce
<1>3. ASSUME NEW x, Signalled(x, s), x # Head(s).addr PROVE Signalled(x, Tail(s))
  <2>1. PICK i \in 1 .. Len(s) : s[i].addr = x
    BY <1>1, <1>3 DEF Signalled
  <2>2. i - 1 \in 1 .. Len(s) - 1 /\ Tail(s)[i - 1] = s[i]
    BY <1>1, <1>3, <2>1
  <2>. QED  BY <1>1, <2>1, <2>2 DEF Signalled
<1>4. ASSUME NEW x, Signalled(x, Tail(s)) PROVE Signalled(x, s) /\ x # Head(s).addr
  <2>1. PICK i \in 1 .. Len(s) - 1 : s[i + 1].addr = x
    BY <1>1, <1>4 DEF Signalled
  <2>2. i + 1 \in 1 .. Len(s) /\ 1 \in 1 .. Len(s) /\ i + 1 # 1
    BY <1>1
  <2>. QED  BY <1>1, <1>2, <2>1, <2>2 DEF Signalled
<1>5. SignalledOnce(Tail(s))
  <2>1. \A i, j \in 1 .. Len(s) - 1 : s[i + 1].addr = s[j + 1].addr => i = j
    BY <1>1, <1>2
  <2>. QED  BY <1>1, <2>1 DEF SignalledOnce
<1>6. Signalled(Head(s).addr, s)
  BY <1>1 DEF Signalled
<1>. QED  BY <1>3, <1>4, <1>5, <1>6

LEMMA AppendPiped ==
    ASSUME NEW S, NEW s \in Seq(S), NEW o \in S
    PROVE  /\ \A x : Piped(x, Append(s, o)) <=> Piped(x, s) \/ x = o
           /\ PipedOnce(s) /\ ~Piped(o, s) => PipedOnce(Append(s, o))
BY DEF Piped, PipedOnce

LEMMA TailPiped ==
    ASSUME NEW S, NEW s \in Seq(S), s # <<>>, PipedOnce(s)
    PROVE  /\ \A x : Piped(x, Tail(s)) <=> Piped(x, s) /\ x # Head(s)
           /\ PipedOnce(Tail(s))
           /\ Piped(Head(s), s) /\ Head(s) \in S
<1>1. /\ DOMAIN s = 1 .. Len(s) /\ Len(s) \in Nat \ {0}
      /\ DOMAIN Tail(s) = 1 .. Len(s) - 1
      /\ \A i \in 1 .. Len(s) - 1 : Tail(s)[i] = s[i + 1]
      /\ Head(s) = s[1] /\ Head(s) \in S
  OBVIOUS
<1>2. \A i, j \in 1 .. Len(s) : s[i] = s[j] => i = j
  BY <1>1 DEF PipedOnce
<1>3. ASSUME NEW x, Piped(x, s), x # Head(s) PROVE Piped(x, Tail(s))
  <2>1. PICK i \in 1 .. Len(s) : s[i] = x
    BY <1>1, <1>3 DEF Piped
  <2>2. i - 1 \in 1 .. Len(s) - 1 /\ Tail(s)[i - 1] = s[i]
    BY <1>1, <1>3, <2>1
  <2>. QED  BY <1>1, <2>1, <2>2 DEF Piped
<1>4. ASSUME NEW x, Piped(x, Tail(s)) PROVE Piped(x, s) /\ x # Head(s)
  <2>1. PICK i \in 1 .. Len(s) - 1 : s[i + 1] = x
    BY <1>1, <1>4 DEF Piped
  <2>2. i + 1 \in 1 .. Len(s) /\ 1 \in 1 .. Len(s) /\ i + 1 # 1
    BY <1>1
  <2>. QED  BY <1>1, <1>2, <2>1, <2>2 DEF Piped
<1>5. PipedOnce(Tail(s))
  <2>1. \A i, j \in 1 .. Len(s) - 1 : s[i + 1] = s[j + 1] => i = j
    BY <1>1, <1>2
  <2>. QED  BY <1>1, <2>1 DEF PipedOnce
<1>6. Piped(Head(s), s)
  BY <1>1 DEF Piped
<1>. QED  BY <1>1, <1>3, <1>4, <1>5, <1>6

-----------------------------------------------------------------------------
(* What a step does to the places: nothing, or one object goes to another  *)
(* place, or into nobody's, or a process ends with all it has.             *)

Same ==
    \A o \in Object, k \in Kind, p \in Proc, w \in Nat :
        Holds(o, k, p, w)' <=> Holds(o, k, p, w)
Moved(x, c, q, v) ==
    \A o \in Object, k \in Kind, p \in Proc, w \in Nat :
        Holds(o, k, p, w)' <=> IF o = x THEN k = c /\ p = q /\ w = v ELSE Holds(o, k, p, w)
Dropped(x) ==
    \A o \in Object, k \in Kind, p \in Proc, w \in Nat :
        Holds(o, k, p, w)' <=> o # x /\ Holds(o, k, p, w)
Ended(q) ==
    \A o \in Object, k \in Kind, p \in Proc, w \in Nat :
        Holds(o, k, p, w)' <=> p # q /\ Holds(o, k, p, w)

(* Nothing is in more hands after such a step than before it.              *)
LEMMA StaysOnce ==
    ASSUME HeldOnce,
           \/ Same
           \/ \E x, c, q, v : Moved(x, c, q, v)
           \/ \E x : Dropped(x)
           \/ \E q : Ended(q)
    PROVE  HeldOnce'
<1>1. CASE \/ Same \/ (\E x : Dropped(x)) \/ (\E q : Ended(q))
  BY <1>1 DEF HeldOnce, Same, Dropped, Ended
<1>2. ASSUME NEW x, NEW c, NEW q, NEW v, Moved(x, c, q, v) PROVE HeldOnce'
  BY <1>2 DEF HeldOnce, Moved
<1>. QED  BY <1>1, <1>2

LEMMA StaysInUse ==
    ASSUME HeldInUse,
           \/ uses' = uses /\ (Same \/ \E q : Ended(q))
           \/ uses' = uses /\ \E x \in Object : Dropped(x)
           \/ uses' = uses /\ \E x \in Object : \E c, q, v : Held(x) /\ Moved(x, c, q, v)
    PROVE  HeldInUse'
<1>1. ASSUME NEW o \in Object, Held(o)' PROVE Held(o) /\ uses' = uses
  BY <1>1 DEF Held, Same, Ended, Dropped, Moved
<1>. QED  BY <1>1 DEF HeldInUse

(* Objects of RX and TX are in the places of that name.                    *)
LEMMA RxHolds ==
    ASSUME alive[0], rx.pc # "ended"
    PROVE  Holds(rx.obj, "rx", 0, 0)
BY DEF Holds, Named

LEMMA TxHolds ==
    ASSUME alive[0], tx.pc # "ended"
    PROVE  Holds(tx.obj, "tx", 0, 0)
BY DEF Holds, Named

LEMMA HoldsHeld ==
    ASSUME NEW o \in Object, NEW k \in Kind, NEW p \in Proc, NEW w \in Nat, Holds(o, k, p, w)
    PROVE  Held(o)
BY DEF Held

LEMMA HeldOnly ==
    ASSUME HeldOnce, NEW o \in Object, NEW c \in Kind, NEW q \in Proc, NEW v \in Nat,
           Holds(o, c, q, v)
    PROVE  \A k \in Kind, p \in Proc, w \in Nat :
               Holds(o, k, p, w) <=> k = c /\ p = q /\ w = v
BY DEF HeldOnce

LEMMA Workers == \A f \in Fn : Worker(f) \subseteq Nat /\ f \in Proc /\ f # 0 /\ 0 \in Proc
BY NetworkFunctionAssumption, SharedRegionAssumption DEF Worker, Proc

(* What transfer_ownership does to the signals and to who is alive.        *)
Arrives(o, p, q) ==
    /\ alive[q] /\ alive' = alive
    /\ \A x \in Object, r \in Proc :
           Signalled(x, signals'[r]) <=> Signalled(x, signals[r]) \/ (x = o /\ r = q)
Dies(p) ==
    /\ alive' = [alive EXCEPT ![p] = FALSE]
    /\ signals' = [signals EXCEPT ![p] = <<>>]

LEMMA TransferEffect ==
    ASSUME SharedTypeOK, SignalsGood, NEW p \in Proc, NEW q \in Proc, NEW o \in Object,
           TransferOwnership(p, o, q), \A r \in Proc : alive[r] => ~Signalled(o, signals[r])
    PROVE  /\ Arrives(o, p, q) \/ Dies(p) \/ UNCHANGED <<signals, alive>>
           /\ SignalsGood'
<1>. DEFINE m == [addr |-> o, from |-> p]
<1>0. m \in Signal /\ m.addr = o /\ m.from = p /\ \A r \in Proc : signals[r] \in Seq(Signal)
  BY DEF Signal, SharedTypeOK
<1>1. CASE q \in Known[p] /\ alive[q]
            /\ signals' = [signals EXCEPT ![q] = Append(@, m)] /\ UNCHANGED alive
  <2>. DEFINE s == Append(signals[q], m)
  <2>1. /\ \A x : Signalled(x, s) <=> Signalled(x, signals[q]) \/ x = o
        /\ SignalledOnce(s)
    BY <1>0, <1>1, AppendSignalled DEF SignalsGood
  <2>2. \A r \in Proc : signals'[r] = IF r = q THEN s ELSE signals[r]
    BY <1>1 DEF SharedTypeOK
  <2>. HIDE DEF s
  <2>4. Arrives(o, p, q)
    BY <1>1, <2>1, <2>2 DEF Arrives
  <2>5. SignalsGood'
    BY <2>1, <2>2 DEF SignalsGood
  <2>. QED  BY <2>4, <2>5
<1>2. CASE Exit(p)
  <2>1. \A r \in Proc : signals'[r] = IF r = p THEN <<>> ELSE signals[r]
    BY <1>2 DEF Exit, SharedTypeOK
  <2>2. SignalsGood'
    BY <2>1 DEF SignalsGood, SignalledOnce
  <2>. QED  BY <1>2, <2>2 DEF Dies, Exit
<1>3. CASE UNCHANGED <<signals, alive>>
  BY <1>3 DEF SignalsGood, SignalledOnce
<1>. QED  BY <1>1, <1>2, <1>3 DEF TransferOwnership

(* The steps that use it: where p holds o at first, it does not after.     *)
Leaves(o, c, p, v) ==
    \A x \in Object, k \in Kind \ {"signal"}, r \in Proc, w \in Nat :
        Named(x, k, r, w)' <=> Named(x, k, r, w) /\ ~(x = o /\ k = c /\ r = p /\ w = v)

LEMMA HandOver ==
    ASSUME SharedTypeOK, HeldOnce, SignalsGood,
           NEW p \in Proc, NEW q \in Proc, NEW o \in Object,
           NEW c \in Kind \ {"signal"}, NEW v \in Nat,
           Holds(o, c, p, v), TransferOwnership(p, o, q), Leaves(o, c, p, v)
    PROVE  /\ Moved(o, "signal", q, 0) \/ Dropped(o) \/ Ended(p)
           /\ SignalsGood'
<1>1. \A k \in Kind, r \in Proc, w \in Nat :
          Holds(o, k, r, w) <=> k = c /\ r = p /\ w = v
  BY DEF HeldOnce
<1>2. \A r \in Proc : alive[r] => ~Signalled(o, signals[r])
  <2>1. \A r \in Proc : alive[r] /\ Signalled(o, signals[r]) => Holds(o, "signal", r, 0)
    BY DEF Holds, Named
  <2>. QED  BY <1>1, <2>1 DEF Kind
<1>3. /\ Arrives(o, p, q) \/ Dies(p) \/ UNCHANGED <<signals, alive>>
      /\ SignalsGood'
  BY <1>2, TransferEffect
<1>4. \A x \in Object, r \in Proc, w \in Nat :
          /\ Named(x, "signal", r, w) <=> w = 0 /\ Signalled(x, signals[r])
          /\ Named(x, "signal", r, w)' <=> w = 0 /\ Signalled(x, signals'[r])
  BY DEF Named, Signalled
<1>5. CASE Arrives(o, p, q)
  <2>1. ASSUME NEW x \in Object, NEW k \in Kind, NEW r \in Proc, NEW w \in Nat
        PROVE  Holds(x, k, r, w)' <=> IF x = o THEN k = "signal" /\ r = q /\ w = 0
                                     ELSE Holds(x, k, r, w)
    <3>1. CASE k = "signal"
      BY <1>2, <1>4, <1>5, <3>1 DEF Holds, Arrives
    <3>2. CASE k # "signal"
      BY <1>1, <1>5, <3>2 DEF Holds, Arrives, Leaves
    <3>. QED  BY <3>1, <3>2
  <2>. QED  BY <1>3, <2>1 DEF Moved
<1>6. CASE Dies(p)
  <2>1. \A r \in Proc : /\ alive'[r] = (alive[r] /\ r # p)
                        /\ r # p => signals'[r] = signals[r]
    BY <1>6 DEF Dies, SharedTypeOK
  <2>2. ASSUME NEW x \in Object, NEW k \in Kind, NEW r \in Proc, NEW w \in Nat
        PROVE  Holds(x, k, r, w)' <=> r # p /\ Holds(x, k, r, w)
    <3>1. CASE k = "signal"
      BY <1>4, <2>1, <3>1 DEF Holds
    <3>2. CASE k # "signal"
      BY <2>1, <3>2 DEF Holds, Leaves
    <3>. QED  BY <3>1, <3>2
  <2>. QED  BY <1>3, <2>2 DEF Ended
<1>7. CASE UNCHANGED <<signals, alive>>
  <2>1. ASSUME NEW x \in Object, NEW k \in Kind, NEW r \in Proc, NEW w \in Nat
        PROVE  Holds(x, k, r, w)' <=> x # o /\ Holds(x, k, r, w)
    <3>1. CASE k = "signal"
      BY <1>2, <1>4, <1>7, <3>1 DEF Holds
    <3>2. CASE k # "signal"
      BY <1>1, <1>7, <3>2 DEF Holds, Leaves
    <3>. QED  BY <3>1, <3>2
  <2>. QED  BY <1>3, <2>1 DEF Dropped
<1>. QED  BY <1>3, <1>5, <1>6, <1>7

-----------------------------------------------------------------------------
(* What each step does to the places.                                      *)

LEMMA Still ==
    ASSUME UNCHANGED <<signals, alive, inPipe, work, outPipe>>,
           \A o \in Object : (rx'.obj = o /\ rx'.pc # "ended") <=> (rx.obj = o /\ rx.pc # "ended"),
           \A o \in Object : (tx'.obj = o /\ tx'.pc # "ended") <=> (tx.obj = o /\ tx.pc # "ended")
    PROVE  Same
BY DEF Same, Holds, Named, Signalled, Piped

LEMMA SignalsKept == SignalsGood /\ UNCHANGED signals => SignalsGood'
BY DEF SignalsGood, SignalledOnce

LEMMA PipesKept == PipesOnce /\ UNCHANGED nfVars => PipesOnce'
BY DEF PipesOnce, PipedOnce, nfVars

LEMMA ClientEffect ==
    ASSUME NEW r \in Request, ClientStep(r), UNCHANGED nfVars
    PROVE  Same
<1>1. UNCHANGED <<signals, alive, inPipe, work, outPipe, rx, tx>>
  BY DEF ClientStep, Connect, Send, Leave, sharedVars, nfVars
<1>. QED  BY <1>1, Still

(* The ways in which RX returns before it has an object.                   *)
RxStops == RxAcceptError \/ RxAcceptRefused \/ \E fd \in Fd : RxRefused(fd)

LEMMA RxStopsEffect ==
    ASSUME Shapes, RxStops
    PROVE  /\ UNCHANGED <<sharedVars, clientVars, conn, armed, uses, tx, answers>>
           /\ backlog' \in {backlog, Tail(backlog)}
           /\ rx.pc = "poll" /\ alive[0]
           /\ rx' = [rx EXCEPT !.pc = "ended"] /\ rx'.pc = "ended"
           /\ rx.obj = None /\ rx'.obj = None
<1>1. /\ UNCHANGED <<sharedVars, clientVars, conn, armed, uses, tx, answers>>
      /\ backlog' \in {backlog, Tail(backlog)} /\ alive[0]
      /\ rx.pc = "poll" /\ rx' = [rx EXCEPT !.pc = "ended"]
  BY DEF RxStops, RxAcceptError, RxAcceptRefused, RxRefused
<1>. QED  BY <1>1 DEF Shapes, TypeOK, GatewayTypeOK, Threads

LEMMA RxStillEffect ==
    ASSUME Shapes, RxPoll \/ RxAccept \/ RxStops \/ RxReceive, UNCHANGED nfVars
    PROVE  Same
<1>. USE DEF sharedVars, nfVars
<1>1. CASE RxPoll \/ RxAccept \/ RxReceive
  <2>1. UNCHANGED <<signals, alive, inPipe, work, outPipe, tx>>
    BY <1>1 DEF RxPoll, RxAccept, RxReceive
  <2>2. rx'.obj = rx.obj /\ rx.pc # "ended" /\ rx'.pc # "ended"
    BY <1>1 DEF RxPoll, RxAccept, RxReceive, Shapes, TypeOK, GatewayTypeOK
  <2>. QED  BY <2>1, <2>2, Still
<1>2. CASE RxStops
  <2>1. UNCHANGED <<signals, alive, inPipe, work, outPipe, tx>>
    BY <1>2, RxStopsEffect
  <2>2. \A o \in Object : rx.obj # o /\ rx'.obj # o
    BY <1>2, RxStopsEffect, SharedRegionAssumption
  <2>. QED  BY <2>1, <2>2, Still
<1>. QED  BY <1>1, <1>2

LEMMA RxAllocateEffect ==
    ASSUME Shapes, HeldInUse, ~doubled, NEW fd \in Fd, RxAllocate(fd), UNCHANGED nfVars
    PROVE  rx'.obj \in Object /\ uses[rx'.obj] = 0 /\ Moved(rx'.obj, "rx", 0, 0)
<1>1. PICK x \in Object : /\ uses[x] = 0
                          /\ rx' = [pc |-> "receive", batch |-> rx.batch \ {fd}, fd |-> fd, obj |-> x]
  BY DEF RxAllocate, Allocated, Reads, Pool!Take
<1>2. rx'.obj = x /\ rx'.pc = "receive" /\ alive[0]
      /\ \A o \in Object : rx.obj # o
  BY <1>1, SharedRegionAssumption DEF RxAllocate, Shapes, TypeOK, GatewayTypeOK, Threads
<1>3. \A k \in Kind, p \in Proc, w \in Nat : ~Holds(x, k, p, w)
  BY <1>1 DEF HeldInUse, Held
<1>4. UNCHANGED <<signals, alive, inPipe, work, outPipe, tx>>
  BY DEF RxAllocate, sharedVars, nfVars
<1>5. ASSUME NEW o \in Object, NEW k \in Kind, NEW p \in Proc, NEW w \in Nat
      PROVE  Holds(o, k, p, w)' <=> IF o = x THEN k = "rx" /\ p = 0 /\ w = 0 ELSE Holds(o, k, p, w)
  <2>1. CASE k = "rx"
    BY <1>2, <1>4, <2>1 DEF Holds, Named
  <2>2. CASE k # "rx"
    <3>1. Holds(o, k, p, w)' <=> Holds(o, k, p, w)
      BY <1>4, <2>2 DEF Holds, Named, Signalled, Piped
    <3>. QED  BY <1>3, <2>2, <3>1
  <2>. QED  BY <2>1, <2>2
<1>. QED  BY <1>1, <1>2, <1>5 DEF Moved

LEMMA RxReceiveErrorEffect ==
    ASSUME Shapes, HeldOnce, RxReceiveError, UNCHANGED nfVars
    PROVE  rx.obj \in Object /\ Held(rx.obj) /\ Dropped(rx.obj)
<1>1. rx.obj \in Object /\ alive[0] /\ rx.pc = "receive" /\ rx'.pc = "ended" /\ rx'.obj = rx.obj
  BY DEF RxReceiveError, Shapes, TypeOK, GatewayTypeOK, Threads
<1>0. Holds(rx.obj, "rx", 0, 0) /\ "rx" \in Kind /\ 0 \in Proc /\ 0 \in Nat
  BY <1>1, RxHolds DEF Kind, Proc
<1>2. \A k \in Kind, p \in Proc, w \in Nat :
          Holds(rx.obj, k, p, w) <=> k = "rx" /\ p = 0 /\ w = 0
  BY <1>0, <1>1, HeldOnly
<1>3. UNCHANGED <<signals, alive, inPipe, work, outPipe, tx>>
  BY DEF RxReceiveError, sharedVars, nfVars
<1>4. ASSUME NEW o \in Object, NEW k \in Kind, NEW p \in Proc, NEW w \in Nat
      PROVE  Holds(o, k, p, w)' <=> o # rx.obj /\ Holds(o, k, p, w)
  <2>1. CASE k = "rx"
    BY <1>1, <1>3, <2>1 DEF Holds, Named
  <2>2. CASE k # "rx"
    <3>1. Holds(o, k, p, w)' <=> Holds(o, k, p, w)
      BY <1>3, <2>2 DEF Holds, Named, Signalled, Piped
    <3>. QED  BY <1>2, <2>2, <3>1
  <2>. QED  BY <2>1, <2>2
<1>. QED  BY <1>0, <1>1, <1>4 DEF Dropped, Held

LEMMA RxDispatchEffect ==
    ASSUME Shapes, HoldersInv, RxDispatch, UNCHANGED nfVars
    PROVE  /\ rx.obj \in Object /\ Held(rx.obj)
           /\ \/ Moved(rx.obj, "signal", HopAt(txn[rx.obj].route, 0), 0)
              \/ Dropped(rx.obj) \/ Ended(0)
           /\ SignalsGood'
<1>1. rx.obj \in Object /\ alive[0] /\ rx.pc = "dispatch" /\ rx'.obj = None
      /\ HopAt(txn[rx.obj].route, 0) \in Proc /\ SharedTypeOK /\ 0 \in Proc
  BY Hops DEF RxDispatch, Shapes, TypeOK, SharedTypeOK, GatewayTypeOK, Transaction, Threads, Proc
<1>2. Holds(rx.obj, "rx", 0, 0) /\ "rx" \in Kind \ {"signal"}
  BY <1>1, RxHolds DEF Kind
<1>3. Leaves(rx.obj, "rx", 0, 0)
  BY <1>1, SharedRegionAssumption DEF Leaves, RxDispatch, nfVars, Named, Piped
<1>4. TransferOwnership(0, rx.obj, HopAt(txn[rx.obj].route, 0))
  BY DEF RxDispatch
<1>. QED  BY <1>1, <1>2, <1>3, <1>4, HandOver, HoldsHeld, 0 \in Nat DEF HoldersInv

(* What wait_for_ownership does: the oldest signal is gone, and p has the  *)
(* object it names if it knows the sender.                                 *)
Oldest(p) == Head(signals[p]).addr

LEMMA ConsumeEffect ==
    ASSUME SharedTypeOK, SignalsGood, NEW p \in Proc, CanWait(p), Consume(p)
    PROVE  /\ Oldest(p) \in Object
           /\ Holds(Oldest(p), "signal", p, 0)
           /\ \A x \in Object, r \in Proc :
                  Signalled(x, signals'[r]) <=>
                      Signalled(x, signals[r]) /\ ~(x = Oldest(p) /\ r = p)
           /\ alive' = alive /\ SignalsGood'
<1>. DEFINE s == signals[p]
<1>1. s \in Seq(Signal) /\ s # <<>> /\ SignalledOnce(s) /\ alive[p]
  BY DEF SharedTypeOK, CanWait, SignalsGood
<1>2. Oldest(p) = Head(s).addr /\ Head(s).addr \in Object
  <2>1. Head(s) \in Signal
    BY <1>1
  <2>. QED  BY <2>1 DEF Signal, Oldest
<1>3. \A r \in Proc : signals'[r] = IF r = p THEN Tail(s) ELSE signals[r]
  BY DEF Consume, SharedTypeOK
<1>4. /\ \A x : Signalled(x, Tail(s)) <=> Signalled(x, s) /\ x # Head(s).addr
      /\ SignalledOnce(Tail(s)) /\ Signalled(Head(s).addr, s)
  BY <1>1, TailSignalled
<1>. HIDE DEF s
<1>5. SignalsGood'
  BY <1>3, <1>4 DEF SignalsGood
<1>6. Holds(Oldest(p), "signal", p, 0)
  BY <1>1, <1>2, <1>4 DEF Holds, Named, s
<1>. QED  BY <1>2, <1>3, <1>4, <1>5, <1>6 DEF Consume, s

(* A signal is taken and its address goes nowhere: the sender is unknown.  *)
LEMMA RejectEffect ==
    ASSUME SharedTypeOK, HoldersInv, NEW p \in Proc, CanWait(p), Consume(p),
           UNCHANGED <<inPipe, work, outPipe, rx>>,
           tx' = tx \/ \A o \in Object : tx.obj # o /\ tx'.obj # o
    PROVE  Oldest(p) \in Object /\ Held(Oldest(p)) /\ Dropped(Oldest(p)) /\ SignalsGood'
<1>. DEFINE a == Oldest(p)
<1>1. /\ a \in Object /\ Holds(a, "signal", p, 0) /\ alive' = alive /\ SignalsGood'
      /\ \A x \in Object, r \in Proc :
             Signalled(x, signals'[r]) <=> Signalled(x, signals[r]) /\ ~(x = a /\ r = p)
  BY ConsumeEffect DEF HoldersInv
<1>. HIDE DEF a
<1>2. \A k \in Kind, r \in Proc, w \in Nat :
          Holds(a, k, r, w) <=> k = "signal" /\ r = p /\ w = 0
  BY <1>1, HeldOnly DEF HoldersInv, Kind
<1>3. ASSUME NEW o \in Object, NEW k \in Kind, NEW r \in Proc, NEW w \in Nat
      PROVE  Holds(o, k, r, w)' <=> o # a /\ Holds(o, k, r, w)
  <2>1. CASE k = "signal"
    <3>1. Holds(o, k, r, w)' <=> alive[r] /\ w = 0 /\ Signalled(o, signals'[r])
      BY <1>1, <2>1 DEF Holds, Named, Signalled
    <3>2. Holds(o, k, r, w) <=> alive[r] /\ w = 0 /\ Signalled(o, signals[r])
      BY <2>1 DEF Holds, Named
    <3>. QED  BY <1>1, <1>2, <2>1, <3>1, <3>2
  <2>2. CASE k # "signal"
    <3>1. Holds(o, k, r, w)' <=> Holds(o, k, r, w)
      BY <1>1, <2>2 DEF Holds, Named, Piped
    <3>. QED  BY <1>2, <2>2, <3>1
  <2>. QED  BY <2>1, <2>2
<1>4. Held(a)
  BY <1>1 DEF Held, Kind
<1>. QED  BY <1>1, <1>3, <1>4 DEF Dropped, a

LEMMA TxWaitEffect ==
    ASSUME Shapes, HoldersInv, TxWait, Accepted(0), UNCHANGED nfVars
    PROVE  /\ tx'.obj = Awaited(0, None) /\ tx'.obj \in Object /\ Held(tx'.obj)
           /\ Moved(tx'.obj, "tx", 0, 0)
           /\ Holds(tx'.obj, "signal", 0, 0)
           /\ SignalsGood'
<1>. DEFINE a == Awaited(0, None)
<1>0. 0 \in Proc /\ CanWait(0) /\ Consume(0) /\ SharedTypeOK
  BY DEF TxWait, Proc, Shapes, TypeOK
<1>1. /\ a \in Object /\ Holds(a, "signal", 0, 0) /\ alive' = alive /\ SignalsGood'
      /\ \A x \in Object, r \in Proc :
             Signalled(x, signals'[r]) <=> Signalled(x, signals[r]) /\ ~(x = a /\ r = 0)
  <2>1. a = Oldest(0)
    BY DEF Awaited, Oldest
  <2>. QED  BY <1>0, <2>1, ConsumeEffect DEF HoldersInv
<1>2. /\ tx'.obj = a /\ tx'.pc # "ended" /\ alive[0]
      /\ \A o \in Object : tx.obj # o
  BY <1>1, SharedRegionAssumption DEF TxWait, CanWait, Shapes, TypeOK, GatewayTypeOK, Threads
<1>. HIDE DEF a
<1>3. \A k \in Kind, p \in Proc, w \in Nat :
          Holds(a, k, p, w) <=> k = "signal" /\ p = 0 /\ w = 0
  BY <1>0, <1>1, HeldOnly DEF HoldersInv, Kind
<1>4. UNCHANGED <<inPipe, work, outPipe, rx>>
  BY DEF TxWait, nfVars
<1>5. ASSUME NEW o \in Object, NEW k \in Kind, NEW p \in Proc, NEW w \in Nat
      PROVE  Holds(o, k, p, w)' <=> IF o = a THEN k = "tx" /\ p = 0 /\ w = 0 ELSE Holds(o, k, p, w)
  <2>1. CASE k = "tx"
    BY <1>1, <1>2, <2>1 DEF Holds, Named
  <2>2. CASE k = "signal"
    <3>1. Holds(o, k, p, w)' <=> alive[p] /\ w = 0 /\ Signalled(o, signals'[p])
      BY <1>1, <2>2 DEF Holds, Named, Signalled
    <3>2. Holds(o, k, p, w) <=> alive[p] /\ w = 0 /\ Signalled(o, signals[p])
      BY <2>2 DEF Holds, Named
    <3>. QED  BY <1>1, <1>3, <2>2, <3>1, <3>2
  <2>3. CASE k \notin {"tx", "signal"}
    <3>1. Holds(o, k, p, w)' <=> Holds(o, k, p, w)
      BY <1>1, <1>4, <2>3 DEF Holds, Named, Piped
    <3>. QED  BY <1>3, <2>3, <3>1
  <2>. QED  BY <2>1, <2>2, <2>3
<1>6. Held(a)
  BY <1>0, <1>1 DEF Held, Kind
<1>. QED  BY <1>1, <1>2, <1>5, <1>6 DEF Moved, a

(* TX returns when it does not know the sender.                            *)
LEMMA TxRejectEffect ==
    ASSUME Shapes, HoldersInv, TxWait, ~Accepted(0), UNCHANGED nfVars
    PROVE  /\ Oldest(0) \in Object /\ Held(Oldest(0)) /\ Dropped(Oldest(0))
           /\ tx.obj = None /\ tx'.obj = None /\ tx'.pc = "ended" /\ txn' = txn
           /\ SignalsGood'
<1>1. 0 \in Proc /\ CanWait(0) /\ Consume(0) /\ SharedTypeOK
      /\ UNCHANGED <<inPipe, work, outPipe, rx>>
  BY DEF TxWait, Proc, Shapes, TypeOK, nfVars
<1>2. Awaited(0, None) = None
  BY DEF Awaited
<1>3. tx.obj = None /\ tx'.obj = None /\ tx'.pc = "ended" /\ txn' = txn
  BY <1>2 DEF TxWait, Shapes, TypeOK, GatewayTypeOK, Threads
<1>4. \A o \in Object : tx.obj # o /\ tx'.obj # o
  BY <1>3, SharedRegionAssumption
<1>. QED  BY <1>1, <1>3, <1>4, RejectEffect

LEMMA TxForwardEffect ==
    ASSUME Shapes, HoldersInv, TxForward, UNCHANGED nfVars
    PROVE  /\ tx.obj \in Object /\ Held(tx.obj)
           /\ \/ Moved(tx.obj, "signal", HopAt(txn[tx.obj].route, txn[tx.obj].hop), 0)
              \/ Dropped(tx.obj) \/ Ended(0)
           /\ SignalsGood'
<1>. DEFINE q == HopAt(txn[tx.obj].route, txn[tx.obj].hop)
<1>1. tx.obj \in Object /\ alive[0] /\ tx.pc = "forward" /\ tx'.obj = None
      /\ q \in Proc /\ SharedTypeOK /\ 0 \in Proc
  BY Hops DEF TxForward, Shapes, TypeOK, SharedTypeOK, GatewayTypeOK, Transaction, Threads, Proc
<1>2. Holds(tx.obj, "tx", 0, 0) /\ "tx" \in Kind \ {"signal"}
  BY <1>1, TxHolds DEF Kind
<1>3. Leaves(tx.obj, "tx", 0, 0)
  BY <1>1, SharedRegionAssumption DEF Leaves, TxForward, nfVars, Named, Piped
<1>4. TransferOwnership(0, tx.obj, q)
  BY DEF TxForward
<1>. HIDE DEF q
<1>5. /\ Moved(tx.obj, "signal", q, 0) \/ Dropped(tx.obj) \/ Ended(0)
      /\ SignalsGood' /\ Held(tx.obj)
  BY <1>1, <1>2, <1>3, <1>4, HandOver, HoldsHeld, 0 \in Nat DEF HoldersInv
<1>. QED  BY <1>1, <1>5 DEF q

(* TX is done with its object: the thread returns, forgets the object at   *)
(* address Forwarded, or gives it back.                                    *)
LEMMA TxDropEffect ==
    ASSUME Shapes, HoldersInv, tx.obj \in Object, tx.pc # "ended", alive[0],
           tx'.pc = "ended" \/ tx'.obj = None,
           UNCHANGED <<signals, alive, inPipe, work, outPipe, rx>>
    PROVE  Held(tx.obj) /\ Dropped(tx.obj)
<1>1. Holds(tx.obj, "tx", 0, 0) /\ "tx" \in Kind /\ 0 \in Proc
  BY TxHolds DEF Kind, Proc
<1>2. \A k \in Kind, p \in Proc, w \in Nat :
          Holds(tx.obj, k, p, w) <=> k = "tx" /\ p = 0 /\ w = 0
  BY <1>1, HeldOnly DEF HoldersInv
<1>3. ASSUME NEW o \in Object, NEW k \in Kind, NEW p \in Proc, NEW w \in Nat
      PROVE  Holds(o, k, p, w)' <=> o # tx.obj /\ Holds(o, k, p, w)
  <2>1. CASE k = "tx"
    BY <2>1, SharedRegionAssumption DEF Holds, Named
  <2>2. CASE k # "tx"
    <3>1. Holds(o, k, p, w)' <=> Holds(o, k, p, w)
      BY <2>2 DEF Holds, Named, Signalled, Piped
    <3>. QED  BY <1>2, <2>2, <3>1
  <2>. QED  BY <2>1, <2>2
<1>. QED  BY <1>1, <1>3 DEF Dropped, Held

LEMMA TxRespondEffect ==
    ASSUME Shapes, HoldersInv, TxRespond, UNCHANGED nfVars
    PROVE  \/ tx.obj = Forwarded /\ Held(tx.obj) /\ Dropped(tx.obj)
           \/ tx.obj # Forwarded /\ Same
<1>1. /\ UNCHANGED <<signals, alive, inPipe, work, outPipe, rx>>
      /\ tx.obj \in Object /\ tx.pc = "respond" /\ alive[0]
  BY DEF TxRespond, sharedVars, nfVars, Shapes, Threads
<1>2. CASE tx.obj = Forwarded
  BY <1>1, <1>2, TxDropEffect DEF TxRespond
<1>3. CASE tx.obj # Forwarded
  <2>1. tx'.obj = tx.obj /\ tx'.pc = "close"
    BY <1>3 DEF TxRespond, Shapes, TypeOK, GatewayTypeOK
  <2>. QED  BY <1>1, <1>3, <2>1, Still
<1>. QED  BY <1>2, <1>3

LEMMA TxRespondErrorEffect ==
    ASSUME Shapes, HoldersInv, TxRespondError, UNCHANGED nfVars
    PROVE  tx.obj \in Object /\ Held(tx.obj) /\ Dropped(tx.obj)
<1>1. /\ UNCHANGED <<signals, alive, inPipe, work, outPipe, rx>>
      /\ tx.obj \in Object /\ tx.pc = "respond" /\ alive[0] /\ tx'.pc = "ended"
  BY DEF TxRespondError, sharedVars, nfVars, Shapes, TypeOK, GatewayTypeOK, Threads
<1>. QED  BY <1>1, TxDropEffect

(* What the end of p does.                                                 *)
LEMMA ExitEffect ==
    ASSUME SharedTypeOK, SignalsGood, NEW p \in Proc, Exit(p),
           UNCHANGED <<inPipe, work, outPipe, rx, tx>>
    PROVE  Ended(p) /\ SignalsGood'
<1>1. \A r \in Proc : /\ alive'[r] = (alive[r] /\ r # p)
                      /\ signals'[r] = IF r = p THEN <<>> ELSE signals[r]
  BY DEF Exit, SharedTypeOK
<1>2. SignalsGood'
  BY <1>1 DEF SignalsGood, SignalledOnce
<1>3. ASSUME NEW o \in Object, NEW k \in Kind, NEW r \in Proc, NEW w \in Nat
      PROVE  Holds(o, k, r, w)' <=> r # p /\ Holds(o, k, r, w)
  <2>1. CASE r = p
    BY <1>1, <2>1 DEF Holds
  <2>2. CASE r # p
    <3>1. signals'[r] = signals[r]
      BY <1>1, <2>2
    <3>2. Named(o, k, r, w)' <=> Named(o, k, r, w)
      BY <3>1 DEF Named, Signalled, Piped
    <3>. QED  BY <1>1, <2>2, <3>2 DEF Holds
  <2>. QED  BY <2>1, <2>2
<1>. QED  BY <1>2, <1>3 DEF Ended

LEMMA TxCloseEffect ==
    ASSUME Shapes, HoldersInv, TxClose, UNCHANGED nfVars
    PROVE  /\ IF conn[tx.fd] = None THEN Ended(0) ELSE Same
           /\ SignalsGood'
<1>1. /\ UNCHANGED <<inPipe, work, outPipe, rx>>
      /\ tx.obj \in Object /\ tx.pc = "close" /\ alive[0] /\ 0 \in Proc /\ SharedTypeOK
  BY DEF TxClose, nfVars, Shapes, TypeOK, Threads, Proc
<1>2. CASE conn[tx.fd] = None
  <2>1. Exit(0) /\ tx' = tx
    BY <1>2 DEF TxClose
  <2>. QED  BY <1>1, <1>2, <2>1, ExitEffect DEF HoldersInv
<1>3. CASE conn[tx.fd] # None
  <2>1. UNCHANGED <<signals, alive>> /\ tx'.pc = "release" /\ tx'.obj = tx.obj
    BY <1>3 DEF TxClose, Shapes, TypeOK, GatewayTypeOK
  <2>. QED  BY <1>1, <1>3, <2>1, Still, SignalsKept DEF HoldersInv
<1>. QED  BY <1>2, <1>3

LEMMA TxReleaseEffect ==
    ASSUME Shapes, HoldersInv, TxRelease, UNCHANGED nfVars
    PROVE  tx.obj \in Object /\ Held(tx.obj) /\ Dropped(tx.obj)
<1>1. /\ UNCHANGED <<signals, alive, inPipe, work, outPipe, rx>>
      /\ tx.obj \in Object /\ tx.pc = "release" /\ alive[0] /\ tx'.obj = None
  BY DEF TxRelease, sharedVars, nfVars, Shapes, TypeOK, GatewayTypeOK, Threads
<1>. QED  BY <1>1, TxDropEffect

LEMMA NfRxEffect ==
    ASSUME Shapes, HoldersInv, NEW f \in Fn, NfRx(f), Accepted(f), UNCHANGED gatewayVars
    PROVE  \E o \in Object :
               /\ o = Awaited(f, seen[f]) /\ Holds(o, "signal", f, 0)
               /\ Moved(o, "in", f, turn[f]) /\ turn[f] \in Worker(f)
               /\ SignalsGood' /\ PipesOnce'
<1>. DEFINE a == Awaited(f, seen[f])
            v == turn[f]
<1>0. f \in Proc /\ f # 0 /\ CanWait(f) /\ Consume(f) /\ SharedTypeOK /\ NfTypeOK
      /\ v \in Worker(f) /\ v \in Nat /\ inPipe[f] \in [Worker(f) -> Seq(Object)]
  BY Workers DEF NfRx, Shapes, TypeOK, NfTypeOK
<1>1. /\ a \in Object /\ Holds(a, "signal", f, 0) /\ alive' = alive /\ SignalsGood'
      /\ \A x \in Object, r \in Proc :
             Signalled(x, signals'[r]) <=> Signalled(x, signals[r]) /\ ~(x = a /\ r = f)
  <2>1. a = Oldest(f)
    BY DEF Awaited, Oldest
  <2>. QED  BY <1>0, <2>1, ConsumeEffect DEF HoldersInv
<1>2. a # None
  BY <1>1, SharedRegionAssumption
<1>3. inPipe' = [inPipe EXCEPT ![f] = [inPipe[f] EXCEPT ![v] = Append(@, a)]]
  BY <1>2 DEF NfRx
<1>. HIDE DEF a
<1>4. \A g \in Fn : \A w \in Worker(g) :
          inPipe'[g][w] = IF g = f /\ w = v THEN Append(inPipe[f][v], a) ELSE inPipe[g][w]
  BY <1>0, <1>3 DEF NfTypeOK
<1>5. \A k \in Kind, p \in Proc, w \in Nat :
          Holds(a, k, p, w) <=> k = "signal" /\ p = f /\ w = 0
  BY <1>0, <1>1, HeldOnly DEF HoldersInv, Kind
<1>6. ~Piped(a, inPipe[f][v])
  <2>1. alive[f] /\ Piped(a, inPipe[f][v]) => Holds(a, "in", f, v)
    BY <1>0 DEF Holds, Named
  <2>. QED  BY <1>0, <1>5, <2>1 DEF Kind, CanWait
<1>7. /\ \A x : Piped(x, Append(inPipe[f][v], a)) <=> Piped(x, inPipe[f][v]) \/ x = a
      /\ PipedOnce(Append(inPipe[f][v], a))
  BY <1>0, <1>1, <1>6, AppendPiped DEF HoldersInv, PipesOnce
<1>8. UNCHANGED <<work, outPipe, rx, tx>>
  BY DEF NfRx, gatewayVars
<1>9. ASSUME NEW o \in Object, NEW k \in Kind, NEW p \in Proc, NEW w \in Nat
      PROVE  Holds(o, k, p, w)' <=> IF o = a THEN k = "in" /\ p = f /\ w = v ELSE Holds(o, k, p, w)
  <2>1. CASE k = "in"
    <3>1. Holds(o, k, p, w)' <=> alive[p] /\ p \in Fn /\ w \in Worker(p) /\ Piped(o, inPipe'[p][w])
      BY <1>1, <2>1 DEF Holds, Named, Piped
    <3>2. Holds(o, k, p, w) <=> alive[p] /\ p \in Fn /\ w \in Worker(p) /\ Piped(o, inPipe[p][w])
      BY <2>1 DEF Holds, Named
    <3>. QED  BY <1>0, <1>4, <1>5, <1>7, <2>1, <3>1, <3>2 DEF CanWait
  <2>2. CASE k = "signal"
    <3>1. Holds(o, k, p, w)' <=> alive[p] /\ w = 0 /\ Signalled(o, signals'[p])
      BY <1>1, <2>2 DEF Holds, Named, Signalled
    <3>2. Holds(o, k, p, w) <=> alive[p] /\ w = 0 /\ Signalled(o, signals[p])
      BY <2>2 DEF Holds, Named
    <3>. QED  BY <1>1, <1>5, <2>2, <3>1, <3>2
  <2>3. CASE k \notin {"in", "signal"}
    <3>1. Holds(o, k, p, w)' <=> Holds(o, k, p, w)
      BY <1>1, <1>8, <2>3 DEF Holds, Named, Piped
    <3>. QED  BY <1>5, <2>3, <3>1
  <2>. QED  BY <2>1, <2>2, <2>3
<1>10. PipesOnce'
  <2>1. \A g \in Fn : \A w \in Worker(g) :
            PipedOnce(inPipe'[g][w]) /\ PipedOnce(outPipe'[g][w])
    BY <1>4, <1>7, <1>8 DEF HoldersInv, PipesOnce
  <2>. QED  BY <2>1 DEF PipesOnce, PipedOnce
<1>11. Moved(a, "in", f, v)
  BY <1>9 DEF Moved
<1>. QED  BY <1>0, <1>1, <1>10, <1>11 DEF a

(* nf_rx returns when it does not know the sender of its first signal; of  *)
(* a later one, it would deal out its previous object once more.           *)
LEMMA NfRejectEffect ==
    ASSUME Shapes, HoldersInv, NEW f \in Fn, NfRx(f), ~Accepted(f), ~doubled',
           UNCHANGED gatewayVars
    PROVE  /\ Oldest(f) \in Object /\ Held(Oldest(f)) /\ Dropped(Oldest(f))
           /\ UNCHANGED <<txn, inPipe, work, outPipe>>
           /\ SignalsGood' /\ PipesOnce'
<1>1. f \in Proc /\ CanWait(f) /\ Consume(f) /\ SharedTypeOK
  BY Workers DEF NfRx, Shapes, TypeOK
<1>2. Awaited(f, seen[f]) = None
  BY DEF NfRx, Awaited
<1>3. UNCHANGED <<txn, inPipe, work, outPipe, rx, tx>>
  BY <1>2 DEF NfRx, gatewayVars
<1>4. PipesOnce'
  BY <1>3 DEF HoldersInv, PipesOnce, PipedOnce
<1>. QED  BY <1>1, <1>3, <1>4, RejectEffect

LEMMA NfWorkerReadEffect ==
    ASSUME Shapes, HoldersInv, NEW f \in Fn, NEW v \in Worker(f), NfWorkerRead(f, v),
           UNCHANGED gatewayVars
    PROVE  \E o \in Object : Holds(o, "in", f, v) /\ Moved(o, "work", f, v) /\ PipesOnce'
<1>. DEFINE s == inPipe[f][v]
            a == Head(s)
<1>0. f \in Proc /\ f # 0 /\ NfTypeOK /\ v \in Nat /\ s \in Seq(Object) /\ s # <<>>
      /\ PipedOnce(s) /\ alive[f] /\ work[f][v] = None
  BY Workers DEF NfWorkerRead, Shapes, TypeOK, NfTypeOK, HoldersInv, PipesOnce
<1>1. /\ \A x : Piped(x, Tail(s)) <=> Piped(x, s) /\ x # a
      /\ PipedOnce(Tail(s)) /\ Piped(a, s) /\ a \in Object
  BY <1>0, TailPiped
<1>2. \A g \in Fn : \A w \in Worker(g) :
          /\ inPipe'[g][w] = IF g = f /\ w = v THEN Tail(s) ELSE inPipe[g][w]
          /\ work'[g][w] = IF g = f /\ w = v THEN a ELSE work[g][w]
  BY <1>0 DEF NfTypeOK, NfWorkerRead
<1>3. UNCHANGED <<alive, signals, outPipe, rx, tx>>
  BY DEF NfWorkerRead, gatewayVars, sharedVars
<1>. HIDE DEF a, s
<1>4. Holds(a, "in", f, v)
  BY <1>0, <1>1 DEF Holds, Named, s
<1>5. \A k \in Kind, p \in Proc, w \in Nat :
          Holds(a, k, p, w) <=> k = "in" /\ p = f /\ w = v
  BY <1>0, <1>1, <1>4, HeldOnly DEF HoldersInv, Kind
<1>6. ASSUME NEW o \in Object, NEW k \in Kind, NEW p \in Proc, NEW w \in Nat
      PROVE  Holds(o, k, p, w)' <=> IF o = a THEN k = "work" /\ p = f /\ w = v ELSE Holds(o, k, p, w)
  <2>1. CASE k = "in"
    <3>1. Holds(o, k, p, w)' <=> alive[p] /\ p \in Fn /\ w \in Worker(p) /\ Piped(o, inPipe'[p][w])
      BY <1>3, <2>1 DEF Holds, Named, Piped
    <3>2. Holds(o, k, p, w) <=> alive[p] /\ p \in Fn /\ w \in Worker(p) /\ Piped(o, inPipe[p][w])
      BY <2>1 DEF Holds, Named
    <3>. QED  BY <1>1, <1>2, <1>5, <2>1, <3>1, <3>2 DEF s
  <2>2. CASE k = "work"
    <3>1. Holds(o, k, p, w)' <=> alive[p] /\ p \in Fn /\ w \in Worker(p) /\ work'[p][w] = o
      BY <1>3, <2>2 DEF Holds, Named
    <3>2. Holds(o, k, p, w) <=> alive[p] /\ p \in Fn /\ w \in Worker(p) /\ work[p][w] = o
      BY <2>2 DEF Holds, Named
    <3>. QED  BY <1>0, <1>1, <1>2, <1>5, <2>2, <3>1, <3>2, SharedRegionAssumption
  <2>3. CASE k \notin {"in", "work"}
    <3>1. Holds(o, k, p, w)' <=> Holds(o, k, p, w)
      BY <1>3, <2>3 DEF Holds, Named, Piped, Signalled
    <3>. QED  BY <1>5, <2>3, <3>1
  <2>. QED  BY <2>1, <2>2, <2>3
<1>7. PipesOnce'
  <2>1. \A g \in Fn : \A w \in Worker(g) :
            PipedOnce(inPipe'[g][w]) /\ PipedOnce(outPipe'[g][w])
    BY <1>1, <1>2, <1>3 DEF HoldersInv, PipesOnce
  <2>. QED  BY <2>1 DEF PipesOnce, PipedOnce
<1>. QED  BY <1>1, <1>4, <1>6, <1>7 DEF Moved

LEMMA NfWorkerWriteEffect ==
    ASSUME Shapes, HoldersInv, NEW f \in Fn, NEW v \in Worker(f), NfWorkerWrite(f, v),
           UNCHANGED gatewayVars
    PROVE  \E o \in Object : Holds(o, "work", f, v) /\ Moved(o, "out", f, v) /\ PipesOnce'
<1>. DEFINE s == outPipe[f][v]
            a == work[f][v]
<1>0. f \in Proc /\ f # 0 /\ NfTypeOK /\ v \in Nat /\ s \in Seq(Object)
      /\ PipedOnce(s) /\ alive[f] /\ a \in Object
  BY Workers DEF NfWorkerWrite, Shapes, TypeOK, NfTypeOK, HoldersInv, PipesOnce
<1>2. \A g \in Fn : \A w \in Worker(g) :
          /\ outPipe'[g][w] = IF g = f /\ w = v THEN Append(s, a) ELSE outPipe[g][w]
          /\ work'[g][w] = IF g = f /\ w = v THEN None ELSE work[g][w]
  BY <1>0 DEF NfTypeOK, NfWorkerWrite
<1>3. UNCHANGED <<alive, signals, inPipe, rx, tx>>
  BY DEF NfWorkerWrite, gatewayVars, sharedVars
<1>. HIDE DEF a, s
<1>4. Holds(a, "work", f, v)
  BY <1>0 DEF Holds, Named, a
<1>5. \A k \in Kind, p \in Proc, w \in Nat :
          Holds(a, k, p, w) <=> k = "work" /\ p = f /\ w = v
  BY <1>0, <1>4, HeldOnly DEF HoldersInv, Kind
<1>1. /\ \A x : Piped(x, Append(s, a)) <=> Piped(x, s) \/ x = a
      /\ PipedOnce(Append(s, a))
  <2>1. Piped(a, s) => Holds(a, "out", f, v)
    BY <1>0 DEF Holds, Named, s
  <2>2. ~Piped(a, s)
    BY <1>0, <1>5, <2>1 DEF Kind
  <2>. QED  BY <1>0, <2>2, AppendPiped
<1>6. ASSUME NEW o \in Object, NEW k \in Kind, NEW p \in Proc, NEW w \in Nat
      PROVE  Holds(o, k, p, w)' <=> IF o = a THEN k = "out" /\ p = f /\ w = v ELSE Holds(o, k, p, w)
  <2>1. CASE k = "out"
    <3>1. Holds(o, k, p, w)' <=> alive[p] /\ p \in Fn /\ w \in Worker(p) /\ Piped(o, outPipe'[p][w])
      BY <1>3, <2>1 DEF Holds, Named, Piped
    <3>2. Holds(o, k, p, w) <=> alive[p] /\ p \in Fn /\ w \in Worker(p) /\ Piped(o, outPipe[p][w])
      BY <2>1 DEF Holds, Named
    <3>. QED  BY <1>0, <1>1, <1>2, <1>5, <2>1, <3>1, <3>2 DEF s
  <2>2. CASE k = "work"
    <3>1. Holds(o, k, p, w)' <=> alive[p] /\ p \in Fn /\ w \in Worker(p) /\ work'[p][w] = o
      BY <1>3, <2>2 DEF Holds, Named
    <3>2. Holds(o, k, p, w) <=> alive[p] /\ p \in Fn /\ w \in Worker(p) /\ work[p][w] = o
      BY <2>2 DEF Holds, Named
    <3>. QED  BY <1>0, <1>2, <1>5, <2>2, <3>1, <3>2, SharedRegionAssumption DEF a
  <2>3. CASE k \notin {"out", "work"}
    <3>1. Holds(o, k, p, w)' <=> Holds(o, k, p, w)
      BY <1>3, <2>3 DEF Holds, Named, Piped, Signalled
    <3>. QED  BY <1>5, <2>3, <3>1
  <2>. QED  BY <2>1, <2>2, <2>3
<1>7. PipesOnce'
  <2>1. \A g \in Fn : \A w \in Worker(g) :
            PipedOnce(inPipe'[g][w]) /\ PipedOnce(outPipe'[g][w])
    BY <1>1, <1>2, <1>3 DEF HoldersInv, PipesOnce
  <2>. QED  BY <2>1 DEF PipesOnce, PipedOnce
<1>. QED  BY <1>0, <1>4, <1>6, <1>7 DEF Moved

LEMMA NfTxEffect ==
    ASSUME Shapes, HoldersInv, NEW f \in Fn, NEW v \in Worker(f), NfTx(f, v),
           UNCHANGED gatewayVars
    PROVE  \E o \in Object :
               /\ Holds(o, "out", f, v)
               /\ \/ Moved(o, "signal", NextHop(txn[o].route, txn[o].hop), 0)
                  \/ Dropped(o) \/ Ended(f)
               /\ txn' = [txn EXCEPT ![o].hop = @ + 1]
               /\ SignalsGood' /\ PipesOnce'
<1>. DEFINE s == outPipe[f][v]
            a == Head(s)
            q == NextHop(txn[a].route, txn[a].hop)
<1>0. f \in Proc /\ f # 0 /\ NfTypeOK /\ v \in Nat /\ s \in Seq(Object) /\ s # <<>>
      /\ PipedOnce(s) /\ alive[f] /\ SharedTypeOK
  BY Workers DEF NfTx, Shapes, TypeOK, NfTypeOK, HoldersInv, PipesOnce
<1>1. /\ \A x : Piped(x, Tail(s)) <=> Piped(x, s) /\ x # a
      /\ PipedOnce(Tail(s)) /\ Piped(a, s) /\ a \in Object
  BY <1>0, TailPiped
<1>2. \A g \in Fn : \A w \in Worker(g) :
          outPipe'[g][w] = IF g = f /\ w = v THEN Tail(s) ELSE outPipe[g][w]
  BY <1>0 DEF NfTypeOK, NfTx
<1>3. UNCHANGED <<work, inPipe, rx, tx>> /\ TransferOwnership(f, a, q)
      /\ txn' = [txn EXCEPT ![a].hop = @ + 1]
  BY DEF NfTx, gatewayVars
<1>. HIDE DEF a, s
<1>4. Holds(a, "out", f, v)
  BY <1>0, <1>1 DEF Holds, Named, s
<1>5. Leaves(a, "out", f, v)
  <2>1. ASSUME NEW o \in Object, NEW k \in Kind \ {"signal"}, NEW p \in Proc, NEW w \in Nat
        PROVE  Named(o, k, p, w)' <=> Named(o, k, p, w) /\ ~(o = a /\ k = "out" /\ p = f /\ w = v)
    <3>1. CASE k = "out"
      <4>1. Named(o, k, p, w)' <=> p \in Fn /\ w \in Worker(p) /\ Piped(o, outPipe'[p][w])
        BY <3>1 DEF Named, Piped
      <4>2. Named(o, k, p, w) <=> p \in Fn /\ w \in Worker(p) /\ Piped(o, outPipe[p][w])
        BY <3>1 DEF Named
      <4>. QED  BY <1>1, <1>2, <3>1, <4>1, <4>2 DEF s
    <3>2. CASE k # "out"
      BY <1>3, <3>2 DEF Named, Piped
    <3>. QED  BY <3>1, <3>2
  <2>. QED  BY <2>1 DEF Leaves
<1>6. q \in Proc
  BY <1>0, <1>1, Hops DEF NextHop, SharedTypeOK, Transaction
<1>7. PipesOnce'
  <2>1. \A g \in Fn : \A w \in Worker(g) :
            PipedOnce(inPipe'[g][w]) /\ PipedOnce(outPipe'[g][w])
    BY <1>1, <1>2, <1>3 DEF HoldersInv, PipesOnce
  <2>. QED  BY <2>1 DEF PipesOnce, PipedOnce
<1>. HIDE DEF q
<1>8. /\ Moved(a, "signal", q, 0) \/ Dropped(a) \/ Ended(f)
      /\ SignalsGood'
  BY <1>0, <1>1, <1>3, <1>4, <1>5, <1>6, HandOver DEF HoldersInv, Kind
<1>. QED  BY <1>1, <1>3, <1>4, <1>7, <1>8 DEF q

LEMMA NfKilledEffect ==
    ASSUME Shapes, HoldersInv, NEW f \in Fn, NfKilled(f), UNCHANGED gatewayVars
    PROVE  Ended(f) /\ SignalsGood' /\ PipesOnce'
<1>1. SharedTypeOK /\ f \in Proc /\ Exit(f) /\ UNCHANGED <<inPipe, work, outPipe, rx, tx>>
  BY Workers DEF Shapes, TypeOK, NfKilled, nfVars, gatewayVars
<1>. QED  BY <1>1, ExitEffect, PipesKept DEF HoldersInv, NfKilled

-----------------------------------------------------------------------------
(* The places are disjoint in every state.                                 *)

LEMMA InitHolders == Init => HoldersInv
<1>. SUFFICES ASSUME Init PROVE HoldersInv
  OBVIOUS
<1>1. \A o \in Object, k \in Kind, p \in Proc, w \in Nat : ~Holds(o, k, p, w)
  BY SharedRegionAssumption DEF Init, SharedInit, GatewayInit, NfInit, Holds, Named, Signalled, Piped
<1>2. HeldOnce /\ HeldInUse
  BY <1>1 DEF HeldOnce, HeldInUse, Held
<1>3. SignalsGood /\ PipesOnce /\ Abandoned
  BY DEF Init, SharedInit, GatewayInit, NfInit, SignalsGood, SignalledOnce,
         PipesOnce, PipedOnce, Abandoned
<1>. QED  BY <1>2, <1>3 DEF HoldersInv

(* A step that leaves rx alone or does not end it, and takes from the pool *)
(* and gives back nothing.                                                 *)
LEMMA KeepsHolders ==
    ASSUME Shapes, HoldersInv, uses' = uses, SignalsGood', PipesOnce',
           \/ rx' = rx \/ rx'.pc # "ended" \/ rx'.obj = None
           \/ rx'.obj \in Object /\ Held(rx'.obj) /\ Dropped(rx'.obj),
           \/ Same \/ \E q : Ended(q)
           \/ \E x \in Object : Held(x) /\ Dropped(x)
           \/ \E x \in Object : \E c, q, v : Held(x) /\ Moved(x, c, q, v)
    PROVE  HoldersInv'
<1>1. HeldOnce'
  BY StaysOnce DEF HoldersInv
<1>2. HeldInUse'
  BY StaysInUse DEF HoldersInv
<1>3. \A o \in Object : Held(o)' => Held(o)
  BY DEF Held, Same, Ended, Dropped, Moved
<1>4. Abandoned'
  <2>1. ASSUME NEW o \in Object, rx'.pc = "ended", rx'.obj = o
        PROVE  uses'[o] = 1 /\ ~Held(o)'
    <3>1. CASE rx' = rx
      BY <1>3, <2>1, <3>1 DEF HoldersInv, Abandoned
    <3>2. CASE Held(o) /\ Dropped(o)
      <4>1. ~Held(o)'
        BY <3>2 DEF Held, Dropped
      <4>2. uses[o] = 1
        BY <3>2 DEF HoldersInv, HeldInUse, Shapes, TypeOK, GatewayTypeOK, Pool!TypeOK
      <4>. QED  BY <4>1, <4>2
    <3>. QED  BY <2>1, <3>1, <3>2, SharedRegionAssumption
  <2>. QED  BY <2>1 DEF Abandoned
<1>. QED  BY <1>1, <1>2, <1>4 DEF HoldersInv

LEMMA RxHolders ==
    ASSUME Shapes, HoldersInv, ~doubled, ~doubled', RxStep, UNCHANGED nfVars
    PROVE  HoldersInv'
<1>0. PipesOnce'
  BY PipesKept DEF HoldersInv
<1>1. CASE RxPoll \/ RxAccept \/ RxStops \/ RxReceive
  <2>1. Same
    BY <1>1, RxStillEffect
  <2>2. uses' = uses /\ signals' = signals
        /\ (rx'.pc # "ended" \/ rx'.obj = None)
    <3>1. CASE RxStops
      BY <3>1, RxStopsEffect DEF sharedVars
    <3>. QED  BY <1>1, <3>1 DEF RxPoll, RxAccept, RxReceive, sharedVars, Shapes, TypeOK, GatewayTypeOK, Threads
  <2>. QED  BY <1>0, <2>1, <2>2, SignalsKept, KeepsHolders DEF HoldersInv
<1>2. ASSUME NEW fd \in Fd, RxAllocate(fd) PROVE HoldersInv'
  <2>. DEFINE x == rx'.obj
  <2>1. x \in Object /\ uses[x] = 0 /\ Moved(x, "rx", 0, 0)
    BY <1>2, RxAllocateEffect DEF HoldersInv
  <2>2. signals' = signals /\ rx'.pc = "receive" /\ uses' = [uses EXCEPT ![x] = 1]
    BY <1>2 DEF RxAllocate, Allocated, Reads, sharedVars, Pool!Take
  <2>. HIDE DEF x
  <2>3. HeldOnce'
    BY <2>1, StaysOnce DEF HoldersInv
  <2>4. HeldInUse'
    <3>1. \A o \in Object : Held(o)' => o = x \/ Held(o)
      BY <2>1 DEF Held, Moved
    <3>2. \A o \in Object : uses'[o] = IF o = x THEN 1 ELSE uses[o]
      BY <2>2 DEF Shapes, TypeOK, GatewayTypeOK, Pool!TypeOK
    <3>. QED  BY <3>1, <3>2 DEF HoldersInv, HeldInUse
  <2>5. Abandoned'
    BY <2>2 DEF Abandoned
  <2>. QED  BY <1>0, <2>2, <2>3, <2>4, <2>5, SignalsKept DEF HoldersInv
<1>3. CASE RxReceiveError
  <2>1. rx.obj \in Object /\ Held(rx.obj) /\ Dropped(rx.obj)
    BY <1>3, RxReceiveErrorEffect DEF HoldersInv
  <2>2. uses' = uses /\ signals' = signals /\ rx'.obj = rx.obj
    BY <1>3 DEF RxReceiveError, sharedVars, Shapes, TypeOK, GatewayTypeOK
  <2>. QED  BY <1>0, <2>1, <2>2, SignalsKept, KeepsHolders DEF HoldersInv
<1>4. CASE RxDispatch
  <2>1. uses' = uses /\ rx'.pc = "poll"
    BY <1>4 DEF RxDispatch, Shapes, TypeOK, GatewayTypeOK
  <2>2. /\ rx.obj \in Object /\ Held(rx.obj)
        /\ \/ Moved(rx.obj, "signal", HopAt(txn[rx.obj].route, 0), 0)
           \/ Dropped(rx.obj) \/ Ended(0)
        /\ SignalsGood'
    BY <1>4, RxDispatchEffect
  <2>. QED  BY <1>0, <2>1, <2>2, KeepsHolders
<1>. QED  BY <1>1, <1>2, <1>3, <1>4 DEF RxStep, RxStops, RxOverrun

LEMMA TxHolders ==
    ASSUME Shapes, HoldersInv, ~doubled, TxStep, UNCHANGED nfVars
    PROVE  HoldersInv'
<1>0. PipesOnce' /\ rx' = rx
  BY PipesKept DEF HoldersInv, TxStep, TxWait, TxForward, TxRespond, TxRespondError, TxClose, TxRelease
<1>1. CASE TxWait
  <2>1. SignalsGood' /\ \E x \in Object : Held(x) /\ (Moved(x, "tx", 0, 0) \/ Dropped(x))
    BY <1>1, TxWaitEffect, TxRejectEffect
  <2>2. uses' = uses
    BY <1>1 DEF TxWait
  <2>. QED  BY <1>0, <2>1, <2>2, KeepsHolders
<1>2. CASE TxForward
  <2>1. /\ tx.obj \in Object /\ Held(tx.obj)
        /\ \/ Moved(tx.obj, "signal", HopAt(txn[tx.obj].route, txn[tx.obj].hop), 0)
           \/ Dropped(tx.obj) \/ Ended(0)
        /\ SignalsGood'
    BY <1>2, TxForwardEffect
  <2>2. uses' = uses
    BY <1>2 DEF TxForward
  <2>. QED  BY <1>0, <2>1, <2>2, KeepsHolders
<1>3. CASE TxRespond
  <2>1. tx.obj \in Object /\ uses' = uses /\ signals' = signals
    BY <1>3 DEF TxRespond, Shapes, Threads, sharedVars
  <2>2. Same \/ (Held(tx.obj) /\ Dropped(tx.obj))
    BY <1>3, TxRespondEffect
  <2>. QED  BY <1>0, <2>1, <2>2, SignalsKept, KeepsHolders DEF HoldersInv
<1>4. CASE TxRespondError
  <2>1. tx.obj \in Object /\ Held(tx.obj) /\ Dropped(tx.obj)
    BY <1>4, TxRespondErrorEffect
  <2>2. uses' = uses /\ signals' = signals
    BY <1>4 DEF TxRespondError, sharedVars
  <2>. QED  BY <1>0, <2>1, <2>2, SignalsKept, KeepsHolders DEF HoldersInv
<1>5. CASE TxClose
  <2>1. (Same \/ Ended(0)) /\ SignalsGood'
    BY <1>5, TxCloseEffect
  <2>2. uses' = uses
    BY <1>5 DEF TxClose
  <2>. QED  BY <1>0, <2>1, <2>2, KeepsHolders
<1>6. CASE TxRelease
  <2>. DEFINE x == tx.obj
  <2>1. x \in Object /\ Held(x) /\ Dropped(x)
    BY <1>6, TxReleaseEffect
  <2>2. signals' = signals /\ uses' = [uses EXCEPT ![x] = 0]
    BY <1>6 DEF TxRelease, Released, sharedVars, Pool!Give
  <2>. HIDE DEF x
  <2>3. HeldOnce'
    BY <2>1, StaysOnce DEF HoldersInv
  <2>4. \A o \in Object : /\ Held(o)' => o # x /\ Held(o)
                          /\ uses'[o] = IF o = x THEN 0 ELSE uses[o]
    BY <2>1, <2>2 DEF Held, Dropped, Shapes, TypeOK, GatewayTypeOK, Pool!TypeOK
  <2>5. HeldInUse'
    BY <2>4 DEF HoldersInv, HeldInUse
  <2>6. Abandoned'
    BY <1>0, <2>1, <2>4 DEF HoldersInv, Abandoned
  <2>. QED  BY <1>0, <2>2, <2>3, <2>5, <2>6, SignalsKept DEF HoldersInv
<1>. QED  BY <1>1, <1>2, <1>3, <1>4, <1>5, <1>6 DEF TxStep

LEMMA NfHolders ==
    ASSUME Shapes, HoldersInv, ~doubled', NEW f \in Fn, NfStep(f) \/ NfKilled(f), UNCHANGED gatewayVars
    PROVE  HoldersInv'
<1>0. uses' = uses /\ rx' = rx /\ f \in Proc /\ \A w \in Worker(f) : w \in Nat
  BY Workers DEF gatewayVars
<1>1. CASE NfRx(f)
  <2>1. CASE Accepted(f)
    <3>1. PICK o \in Object : Holds(o, "signal", f, 0) /\ Moved(o, "in", f, turn[f])
                              /\ SignalsGood' /\ PipesOnce'
      BY <1>1, <2>1, NfRxEffect
    <3>2. Held(o)
      BY <1>0, <3>1 DEF Held, Kind
    <3>. QED  BY <1>0, <3>1, <3>2, KeepsHolders
  <2>2. CASE ~Accepted(f)
    BY <1>0, <1>1, <2>2, NfRejectEffect, KeepsHolders
  <2>. QED  BY <2>1, <2>2
<1>2. ASSUME NEW w \in Worker(f), NfWorkerRead(f, w) PROVE HoldersInv'
  <2>1. PICK o \in Object : Holds(o, "in", f, w) /\ Moved(o, "work", f, w) /\ PipesOnce'
    BY <1>2, NfWorkerReadEffect
  <2>2. Held(o)
    BY <1>0, <2>1 DEF Held, Kind
  <2>3. SignalsGood'
    BY <1>2, SignalsKept DEF HoldersInv, NfWorkerRead, sharedVars
  <2>. QED  BY <1>0, <2>1, <2>2, <2>3, KeepsHolders
<1>3. ASSUME NEW w \in Worker(f), NfWorkerWrite(f, w) PROVE HoldersInv'
  <2>1. PICK o \in Object : Holds(o, "work", f, w) /\ Moved(o, "out", f, w) /\ PipesOnce'
    BY <1>3, NfWorkerWriteEffect
  <2>2. Held(o)
    BY <1>0, <2>1 DEF Held, Kind
  <2>3. SignalsGood'
    BY <1>3, SignalsKept DEF HoldersInv, NfWorkerWrite, sharedVars
  <2>. QED  BY <1>0, <2>1, <2>2, <2>3, KeepsHolders
<1>4. ASSUME NEW w \in Worker(f), NfTx(f, w) PROVE HoldersInv'
  <2>1. PICK o \in Object :
            /\ Holds(o, "out", f, w)
            /\ \/ Moved(o, "signal", NextHop(txn[o].route, txn[o].hop), 0)
               \/ Dropped(o) \/ Ended(f)
            /\ SignalsGood' /\ PipesOnce'
    BY <1>4, NfTxEffect
  <2>2. Held(o)
    BY <1>0, <2>1 DEF Held, Kind
  <2>. QED  BY <1>0, <2>1, <2>2, KeepsHolders
<1>5. CASE NfKilled(f)
  BY <1>0, <1>5, NfKilledEffect, KeepsHolders
<1>. QED  BY <1>1, <1>2, <1>3, <1>4, <1>5 DEF NfStep

(* Once an object has two holders, that stays on record.                   *)
LEMMA DoubledStays == [Next]_vars /\ doubled => doubled'
<1>. SUFFICES ASSUME [Next]_vars, doubled PROVE doubled'
  OBVIOUS
<1>. USE DEF sharedVars
<1>1. ASSUME NEW r \in Request, ClientStep(r) PROVE doubled'
  BY <1>1 DEF ClientStep, Connect, Send, Leave
<1>2. CASE RxStep
  BY <1>2 DEF RxStep, RxPoll, RxAccept, RxAcceptError, RxAcceptRefused, RxAllocate, RxRefused,
              RxOverrun, RxReceive, RxReceiveError, RxDispatch
<1>3. CASE TxStep
  BY <1>3 DEF TxStep, TxWait, TxForward, TxRespond, TxRespondError, TxClose, TxRelease
<1>4. ASSUME NEW f \in Fn, NfStep(f) \/ NfKilled(f) PROVE doubled'
  <2>1. CASE NfRx(f)
    BY <2>1 DEF NfRx
  <2>. QED  BY <1>4, <2>1 DEF NfStep, NfWorkerRead, NfWorkerWrite, NfTx, NfKilled
<1>5. CASE UNCHANGED vars
  BY <1>5 DEF vars
<1>. QED  BY <1>1, <1>2, <1>3, <1>4, <1>5 DEF Next, GatewayNext, NfNext

LEMMA NextHolders ==
    Shapes /\ HoldersInv /\ ~doubled /\ ~doubled' /\ [Next]_vars => HoldersInv'
<1>. SUFFICES ASSUME Shapes, HoldersInv, ~doubled, ~doubled', [Next]_vars PROVE HoldersInv'
  OBVIOUS
<1>1. ASSUME NEW r \in Request, ClientStep(r), UNCHANGED nfVars PROVE HoldersInv'
  <2>1. Same /\ UNCHANGED <<uses, rx, signals>>
    BY <1>1, ClientEffect DEF ClientStep, Connect, Send, Leave, sharedVars
  <2>. QED  BY <1>1, <2>1, SignalsKept, PipesKept, KeepsHolders DEF HoldersInv
<1>2. CASE UNCHANGED vars
  <2>1. Same /\ UNCHANGED <<uses, rx, signals, nfVars>>
    BY <1>2, Still DEF vars, sharedVars, gatewayVars, nfVars
  <2>. QED  BY <2>1, SignalsKept, PipesKept, KeepsHolders DEF HoldersInv
<1>. QED  BY <1>1, <1>2, RxHolders, TxHolders, NfHolders DEF Next, GatewayNext, NfNext

-----------------------------------------------------------------------------
(* Named and Places say the same.                                          *)

(* The place of kind k, with its position in the queue. *)
PlaceOf(o, k, p, w) ==
    CASE k = "signal" -> <<"signal", p, CHOOSE i \in DOMAIN signals[p] : signals[p][i].addr = o>>
      [] k = "rx" -> <<"rx">>
      [] k = "tx" -> <<"tx">>
      [] k = "in" -> <<"in", p, w, CHOOSE i \in DOMAIN inPipe[p][w] : inPipe[p][w][i] = o>>
      [] k = "work" -> <<"work", p, w>>
      [] k = "out" -> <<"out", p, w, CHOOSE i \in DOMAIN outPipe[p][w] : outPipe[p][w][i] = o>>

LEMMA PlaceIsNamed ==
    ASSUME HoldersInv, NEW o \in Object, NEW p \in Proc, NEW x \in PlacesIn(o, p)
    PROVE  \E k \in Kind, w \in Nat : Holds(o, k, p, w) /\ x = PlaceOf(o, k, p, w)
<1>0. alive[p] /\ 0 \in Nat
  BY DEF PlacesIn
<1>1. CASE x \in SignalPlaces(o, p)
  <2>1. PICK i \in DOMAIN signals[p] : signals[p][i].addr = o /\ x = <<"signal", p, i>>
    BY <1>1 DEF SignalPlaces
  <2>2. i = CHOOSE j \in DOMAIN signals[p] : signals[p][j].addr = o
    BY <2>1 DEF HoldersInv, SignalsGood, SignalledOnce
  <2>3. x = PlaceOf(o, "signal", p, 0)
    BY <2>1, <2>2 DEF PlaceOf
  <2>4. Holds(o, "signal", p, 0)
    BY <1>0, <2>1 DEF Holds, Named, Signalled
  <2>. QED  BY <2>3, <2>4 DEF Kind
<1>2. CASE p = 0 /\ x \in ThreadPlaces(o)
  <2>1. CASE x = <<"rx">> /\ rx.obj = o /\ rx.pc # "ended"
    <3>1. Holds(o, "rx", p, 0) /\ x = PlaceOf(o, "rx", p, 0)
      BY <1>0, <1>2, <2>1 DEF Holds, Named, PlaceOf
    <3>. QED  BY <3>1 DEF Kind
  <2>2. CASE x = <<"tx">> /\ tx.obj = o /\ tx.pc # "ended"
    <3>1. Holds(o, "tx", p, 0) /\ x = PlaceOf(o, "tx", p, 0)
      BY <1>0, <1>2, <2>2 DEF Holds, Named, PlaceOf
    <3>. QED  BY <3>1 DEF Kind
  <2>. QED  BY <1>2, <2>1, <2>2 DEF ThreadPlaces
<1>3. ASSUME p # 0, NEW w \in Worker(p), x \in WorkerPlaces(o, p, w)
      PROVE  \E k \in Kind, v \in Nat : Holds(o, k, p, v) /\ x = PlaceOf(o, k, p, v)
  <2>0. p \in Fn /\ w \in Nat
    BY <1>3, Workers DEF Proc
  <2>1. ASSUME NEW i \in DOMAIN inPipe[p][w], inPipe[p][w][i] = o, x = <<"in", p, w, i>>
        PROVE  Holds(o, "in", p, w) /\ x = PlaceOf(o, "in", p, w)
    <3>1. i = CHOOSE j \in DOMAIN inPipe[p][w] : inPipe[p][w][j] = o
      BY <2>0, <2>1 DEF HoldersInv, PipesOnce, PipedOnce
    <3>. QED  BY <1>0, <2>0, <2>1, <3>1 DEF Holds, Named, Piped, PlaceOf
  <2>2. ASSUME NEW i \in DOMAIN outPipe[p][w], outPipe[p][w][i] = o, x = <<"out", p, w, i>>
        PROVE  Holds(o, "out", p, w) /\ x = PlaceOf(o, "out", p, w)
    <3>1. i = CHOOSE j \in DOMAIN outPipe[p][w] : outPipe[p][w][j] = o
      BY <2>0, <2>2 DEF HoldersInv, PipesOnce, PipedOnce
    <3>. QED  BY <1>0, <2>0, <2>2, <3>1 DEF Holds, Named, Piped, PlaceOf
  <2>3. ASSUME work[p][w] = o, x = <<"work", p, w>>
        PROVE  Holds(o, "work", p, w) /\ x = PlaceOf(o, "work", p, w)
    BY <1>0, <2>0, <2>3 DEF Holds, Named, PlaceOf
  <2>. QED  BY <1>3, <2>0, <2>1, <2>2, <2>3 DEF WorkerPlaces, Kind
<1>. QED  BY <1>1, <1>2, <1>3 DEF PlacesIn

LEMMA NamedHasPlace ==
    ASSUME NEW o \in Object, NEW p \in Proc, NEW k \in Kind, NEW w \in Nat, Holds(o, k, p, w)
    PROVE  PlacesIn(o, p) # {}
<1>0. alive[p] /\ Named(o, k, p, w)
  BY DEF Holds
<1>1. CASE k = "signal"
  <2>1. SignalPlaces(o, p) # {}
    BY <1>0, <1>1 DEF Named, Signalled, SignalPlaces
  <2>. QED  BY <1>0, <2>1 DEF PlacesIn
<1>2. CASE k \in {"rx", "tx"}
  <2>1. p = 0 /\ ThreadPlaces(o) # {}
    BY <1>0, <1>2 DEF Named, ThreadPlaces
  <2>. QED  BY <1>0, <2>1 DEF PlacesIn
<1>3. CASE k \in {"in", "work", "out"}
  <2>1. p \in Fn /\ p # 0 /\ w \in Worker(p)
    BY <1>0, <1>3, Workers DEF Named
  <2>2. WorkerPlaces(o, p, w) # {}
    BY <1>0, <1>3 DEF Named, WorkerPlaces, Piped
  <2>. QED  BY <1>0, <2>1, <2>2 DEF PlacesIn
<1>. QED  BY <1>1, <1>2, <1>3 DEF Kind

LEMMA PlacesAreHolders ==
    ASSUME HoldersInv, NEW o \in Object
    PROVE  /\ \A p \in Proc : PlacesIn(o, p) # {} <=> \E k \in Kind, w \in Nat : Holds(o, k, p, w)
           /\ Places(o) # {} <=> Held(o)
<1>1. \A p \in Proc : PlacesIn(o, p) # {} <=> \E k \in Kind, w \in Nat : Holds(o, k, p, w)
  BY PlaceIsNamed, NamedHasPlace
<1>2. Places(o) # {} <=> \E p \in Proc : PlacesIn(o, p) # {}
  BY DEF Places
<1>. QED  BY <1>1, <1>2 DEF Held

LEMMA OneHolderHolds == Shapes /\ HoldersInv => OneHolder
<1>. SUFFICES ASSUME Shapes, HoldersInv, NEW o \in Object
              PROVE  /\ \A x, y \in Places(o) : x = y
                     /\ o \notin Pool!InUse => Places(o) = {}
  BY DEF OneHolder
<1>1. ASSUME NEW x \in Places(o), NEW y \in Places(o) PROVE x = y
  <2>1. PICK p \in Proc : x \in PlacesIn(o, p)
    BY DEF Places
  <2>2. PICK q \in Proc : y \in PlacesIn(o, q)
    BY DEF Places
  <2>3. PICK k \in Kind, w \in Nat : Holds(o, k, p, w) /\ x = PlaceOf(o, k, p, w)
    BY <2>1, PlaceIsNamed
  <2>4. PICK c \in Kind, v \in Nat : Holds(o, c, q, v) /\ y = PlaceOf(o, c, q, v)
    BY <2>2, PlaceIsNamed
  <2>5. k = c /\ p = q /\ w = v
    BY <2>3, <2>4 DEF HoldersInv, HeldOnce
  <2>. QED  BY <2>3, <2>4, <2>5
<1>2. ASSUME o \notin Pool!InUse PROVE Places(o) = {}
  <2>1. uses[o] = 0
    BY <1>2 DEF Pool!InUse, Shapes, TypeOK, GatewayTypeOK, Pool!TypeOK
  <2>. QED  BY <2>1, PlacesAreHolders DEF HoldersInv, HeldInUse
<1>. QED  BY <1>1, <1>2

(* The inductive invariant so far: until an object gets one holder more.   *)
THEOREM Holders == Spec => [](Shapes /\ (doubled \/ HoldersInv))
BY InitShapes, InitHolders, NextShapes, NextHolders, DoubledStays, PTL DEF Spec

(* No object is ever in two hands, and none of the pool's in any, unless   *)
(* nf_rx was signalled by a process whose pid had lost its slot, or an     *)
(* allocation overran the pool: however many functions, workers and        *)
(* objects there are, whatever the tables, the routes and the limits, and  *)
(* whoever is killed (transfer_ownership hands over the address alone, and *)
(* no lock guards the transaction behind it).                              *)
THEOREM Exclusive == Spec => []OneHolder
<1>1. Shapes /\ (doubled \/ HoldersInv) => OneHolder
  BY OneHolderHolds DEF OneHolder
<1>. QED  BY <1>1, Holders, PTL
-----------------------------------------------------------------------------
(* The refinement: what a step does to the places is what a step of        *)
(* Exchange does to the owners.                                            *)

LEMMA Owners ==
    Shapes /\ HoldersInv =>
        \A o \in Object :
            /\ uses[o] = 0 => OwnerOf(o) = Free
            /\ uses[o] # 0 /\ ~Held(o) => OwnerOf(o) = Lost
            /\ \A k \in Kind, p \in Proc, w \in Nat : Holds(o, k, p, w) => OwnerOf(o) = p
<1>. SUFFICES ASSUME Shapes, HoldersInv, NEW o \in Object
              PROVE  /\ uses[o] = 0 => OwnerOf(o) = Free
                     /\ uses[o] # 0 /\ ~Held(o) => OwnerOf(o) = Lost
                     /\ \A k \in Kind, p \in Proc, w \in Nat :
                            Holds(o, k, p, w) => OwnerOf(o) = p
  OBVIOUS
<1>1. o \in Pool!InUse <=> uses[o] # 0
  BY DEF Pool!InUse, Shapes, TypeOK, GatewayTypeOK, Pool!TypeOK
<1>2. Places(o) # {} <=> Held(o)
  BY PlacesAreHolders
<1>3. ASSUME NEW k \in Kind, NEW p \in Proc, NEW w \in Nat, Holds(o, k, p, w)
      PROVE  OwnerOf(o) = p
  <2>1. Held(o) /\ uses[o] # 0
    BY <1>3 DEF Held, HoldersInv, HeldInUse
  <2>2. \A q \in Proc : PlacesIn(o, q) # {} <=> q = p
    BY <1>3, PlacesAreHolders DEF HoldersInv, HeldOnce
  <2>3. (CHOOSE q \in Proc : PlacesIn(o, q) # {}) = p
    BY <2>2
  <2>. QED  BY <1>1, <1>2, <2>1, <2>3 DEF OwnerOf
<1>. QED  BY <1>1, <1>2, <1>3 DEF OwnerOf

LEMMA OwnersNext ==
    ASSUME Shapes', HoldersInv'
    PROVE  \A o \in Object :
               /\ uses'[o] = 0 => OwnerOf(o)' = Free
               /\ uses'[o] # 0 /\ ~Held(o)' => OwnerOf(o)' = Lost
               /\ \A k \in Kind, p \in Proc, w \in Nat : Holds(o, k, p, w)' => OwnerOf(o)' = p
<1>1. (Shapes /\ HoldersInv =>
        \A o \in Object :
            /\ uses[o] = 0 => OwnerOf(o) = Free
            /\ uses[o] # 0 /\ ~Held(o) => OwnerOf(o) = Lost
            /\ \A k \in Kind, p \in Proc, w \in Nat : Holds(o, k, p, w) => OwnerOf(o) = p)'
  BY Owners, PTL
<1>. QED  BY <1>1

Good ==
    Shapes /\ HoldersInv /\ ~doubled /\ Shapes' /\ HoldersInv' /\ ~doubled'

LEMMA HeldCases ==
    ASSUME NEW o \in Object
    PROVE  /\ Held(o) <=> \E k \in Kind, p \in Proc, w \in Nat : Holds(o, k, p, w)
           /\ Held(o)' <=> \E k \in Kind, p \in Proc, w \in Nat : Holds(o, k, p, w)'
BY DEF Held

LEMMA SameOwners ==
    ASSUME Good, uses' = uses, Same
    PROVE  \A o \in Object : OwnerOf(o)' = OwnerOf(o)
<1>. SUFFICES ASSUME NEW o \in Object PROVE OwnerOf(o)' = OwnerOf(o)
  OBVIOUS
<1>1. Held(o)' <=> Held(o)
  BY HeldCases DEF Same
<1>2. CASE Held(o)
  <2>1. PICK k \in Kind, p \in Proc, w \in Nat : Holds(o, k, p, w) /\ Holds(o, k, p, w)'
    BY <1>2, HeldCases DEF Same
  <2>. QED  BY <2>1, Owners, OwnersNext DEF Good
<1>3. CASE ~Held(o)
  BY <1>1, <1>3, Owners, OwnersNext DEF Good
<1>. QED  BY <1>2, <1>3

LEMMA OtherOwners ==
    ASSUME Good, NEW x, \A o \in Object : o # x => uses'[o] = uses[o],
           Dropped(x) \/ \E c, q, v : Moved(x, c, q, v)
    PROVE  \A o \in Object : o # x => OwnerOf(o)' = OwnerOf(o)
<1>. SUFFICES ASSUME NEW o \in Object, o # x PROVE OwnerOf(o)' = OwnerOf(o)
  OBVIOUS
<1>0. \A k \in Kind, p \in Proc, w \in Nat : Holds(o, k, p, w)' <=> Holds(o, k, p, w)
  BY DEF Dropped, Moved
<1>1. Held(o)' <=> Held(o)
  BY <1>0, HeldCases
<1>2. CASE Held(o)
  <2>1. PICK k \in Kind, p \in Proc, w \in Nat : Holds(o, k, p, w) /\ Holds(o, k, p, w)'
    BY <1>0, <1>2, HeldCases
  <2>. QED  BY <2>1, Owners, OwnersNext DEF Good
<1>3. CASE ~Held(o)
  BY <1>1, <1>3, Owners, OwnersNext DEF Good
<1>. QED  BY <1>2, <1>3

LEMMA EndedOwners ==
    ASSUME Good, uses' = uses, NEW q \in Proc, Ended(q)
    PROVE  \A o \in Object : OwnerOf(o)' = IF OwnerOf(o) = q THEN Lost ELSE OwnerOf(o)
<1>. SUFFICES ASSUME NEW o \in Object
              PROVE  OwnerOf(o)' = IF OwnerOf(o) = q THEN Lost ELSE OwnerOf(o)
  OBVIOUS
<1>1. CASE ~Held(o)
  <2>1. ~Held(o)'
    BY <1>1, HeldCases DEF Ended
  <2>. QED  BY <1>1, <2>1, Owners, OwnersNext, OwnersAssumption DEF Good
<1>2. CASE Held(o)
  <2>1. PICK k \in Kind, p \in Proc, w \in Nat : Holds(o, k, p, w)
    BY <1>2, HeldCases
  <2>2. OwnerOf(o) = p /\ uses[o] # 0
    BY <1>2, <2>1, Owners DEF Good, HoldersInv, HeldInUse
  <2>3. CASE p = q
    <3>1. ~Held(o)'
      BY <2>1, <2>3, HeldCases DEF Ended, Good, HoldersInv, HeldOnce
    <3>. QED  BY <2>2, <2>3, <3>1, OwnersNext DEF Good
  <2>4. CASE p # q
    BY <2>1, <2>2, <2>4, OwnersNext DEF Ended, Good
  <2>. QED  BY <2>3, <2>4
<1>. QED  BY <1>1, <1>2

(* The steps of Exchange. *)
LEMMA Stutters ==
    ASSUME Good, uses' = uses, Same, txn' = txn
    PROVE  [Ownership!Exchanged]_<<[o \in Object |-> OwnerOf(o)], txn>>
<1>1. [o \in Object |-> OwnerOf(o)]' = [o \in Object |-> OwnerOf(o)]
  BY SameOwners
<1>. QED  BY <1>1

LEMMA Passes ==
    ASSUME Good, uses' = uses, NEW x \in Object, Held(x),
           \A o \in Object : o # x => txn'[o] = txn[o],
           \/ Dropped(x)
           \/ \E c \in Kind, q \in Proc, v \in Nat : Moved(x, c, q, v)
    PROVE  Ownership!Exchanged
<1>1. OwnerOf(x) \in Proc /\ uses[x] # 0
  BY HeldCases, Owners DEF Good, HoldersInv, HeldInUse
<1>2. \A o \in Object : o # x => OwnerOf(o)' = OwnerOf(o)
  BY OtherOwners
<1>3. OwnerOf(x)' \in Proc \union {Lost}
  <2>1. CASE Dropped(x)
    <3>1. ~Held(x)'
      BY <2>1, HeldCases DEF Dropped
    <3>. QED  BY <1>1, <3>1, OwnersNext DEF Good
  <2>2. ASSUME NEW c \in Kind, NEW q \in Proc, NEW v \in Nat, Moved(x, c, q, v)
        PROVE  OwnerOf(x)' = q
    BY <2>2, OwnersNext DEF Moved, Good
  <2>. QED  BY <2>1, <2>2
<1>. DEFINE owner == [o \in Object |-> OwnerOf(o)]
<1>4. PICK q \in Proc \union {Lost} : q = OwnerOf(x)'
  BY <1>3
<1>5. owner' = [owner EXCEPT ![x] = q]
  BY <1>2, <1>4
<1>6. owner[x] \in Proc
  BY <1>1
<1>7. Ownership!Pass(x, q)
  BY <1>5, <1>6 DEF Ownership!Pass
<1>. QED  BY <1>7 DEF Ownership!Exchanged

LEMMA Ends ==
    ASSUME Good, uses' = uses, NEW q \in Proc, Ended(q),
           \A o \in Object : OwnerOf(o) # q => txn'[o] = txn[o]
    PROVE  Ownership!Exchanged
<1>1. Ownership!End(q)
  BY EndedOwners DEF Ownership!End
<1>. QED  BY <1>1 DEF Ownership!Exchanged

ExchangeStep == [Ownership!Exchanged]_<<[o \in Object |-> OwnerOf(o)], txn>>

LEMMA RxExchange ==
    ASSUME Good, RxStep, UNCHANGED nfVars
    PROVE  ExchangeStep
<1>. USE DEF ExchangeStep
<1>0. Shapes /\ HoldersInv /\ HeldOnce /\ HeldInUse /\ 0 \in Proc /\ 0 \in Nat
      /\ "rx" \in Kind /\ "signal" \in Kind
  BY DEF Good, HoldersInv, Proc, Kind
<1>1. CASE RxPoll \/ RxAccept \/ RxStops
  <2>1. Same
    BY <1>0, <1>1, RxStillEffect
  <2>2. uses' = uses /\ txn' = txn
    <3>1. CASE RxStops
      BY <1>0, <3>1, RxStopsEffect DEF sharedVars
    <3>. QED  BY <1>1, <3>1 DEF RxPoll, RxAccept, sharedVars
  <2>. QED  BY <2>1, <2>2, Stutters
<1>2. ASSUME NEW fd \in Fd, RxAllocate(fd) PROVE ExchangeStep
  <2>. DEFINE owner == [o \in Object |-> OwnerOf(o)]
  <2>1. PICK x \in Object : x = rx'.obj /\ uses[x] = 0 /\ Moved(x, "rx", 0, 0)
    BY <1>0, <1>2, RxAllocateEffect DEF Good
  <2>2. txn' = txn /\ uses' = [uses EXCEPT ![x] = 1]
    BY <1>2, <2>1 DEF RxAllocate, Allocated, Reads, sharedVars, Pool!Take, Good
  <2>3. \A o \in Object : o # x => OwnerOf(o)' = OwnerOf(o)
    <3>1. \A o \in Object : o # x => uses'[o] = uses[o]
      BY <2>2 DEF Good, Shapes, TypeOK, GatewayTypeOK, Pool!TypeOK
    <3>. QED  BY <2>1, <3>1, OtherOwners
  <2>4. Holds(x, "rx", 0, 0)'
    BY <1>0, <2>1 DEF Moved
  <2>5. OwnerOf(x)' = 0 /\ OwnerOf(x) = Free
    BY <1>0, <2>1, <2>4, Owners, OwnersNext DEF Good
  <2>6. owner' = [owner EXCEPT ![x] = 0] /\ owner[x] = Free
    BY <2>1, <2>3, <2>5
  <2>7. Ownership!Take(x, 0)
    BY <2>2, <2>6 DEF Ownership!Take
  <2>. QED  BY <1>0, <2>1, <2>7 DEF Ownership!Exchanged
<1>3. CASE RxReceive
  <2>. DEFINE x == rx.obj
  <2>1. x \in Object /\ Holds(x, "rx", 0, 0) /\ uses' = uses
    BY <1>0, <1>3, RxHolds DEF RxReceive, Shapes, Threads
  <2>2. \A o \in Object : o # x => txn'[o] = txn[o]
    BY <1>0, <1>3 DEF RxReceive, Shapes, TypeOK, SharedTypeOK
  <2>3. Same
    BY <1>0, <1>3, RxStillEffect
  <2>. HIDE DEF x
  <2>4. Held(x) /\ Moved(x, "rx", 0, 0)
    BY <1>0, <2>1, <2>3, HeldOnly DEF Held, Moved, Same
  <2>. QED  BY <1>0, <2>1, <2>2, <2>4, Passes
<1>4. CASE RxReceiveError
  <2>1. rx.obj \in Object /\ Held(rx.obj) /\ Dropped(rx.obj)
    BY <1>0, <1>4, RxReceiveErrorEffect
  <2>2. uses' = uses /\ txn' = txn
    BY <1>4 DEF RxReceiveError, sharedVars
  <2>. QED  BY <2>1, <2>2, Passes
<1>5. CASE RxDispatch
  <2>. DEFINE q == HopAt(txn[rx.obj].route, 0)
  <2>1. /\ rx.obj \in Object /\ Held(rx.obj)
        /\ Moved(rx.obj, "signal", q, 0) \/ Dropped(rx.obj) \/ Ended(0)
    BY <1>0, <1>5, RxDispatchEffect
  <2>2. uses' = uses /\ txn' = txn /\ q \in Proc
    BY <1>0, <1>5, <2>1, Hops DEF RxDispatch, Shapes, TypeOK, SharedTypeOK, Transaction
  <2>. HIDE DEF q
  <2>. QED  BY <1>0, <2>1, <2>2, Passes, Ends
<1>. QED  BY <1>1, <1>2, <1>3, <1>4, <1>5 DEF RxStep, RxStops, RxOverrun, Good

LEMMA TxExchange ==
    ASSUME Good, TxStep, UNCHANGED nfVars
    PROVE  ExchangeStep
<1>. USE DEF ExchangeStep
<1>0. Shapes /\ HoldersInv /\ 0 \in Proc /\ 0 \in Nat /\ "tx" \in Kind /\ "signal" \in Kind
  BY DEF Good, Proc, Kind
<1>1. CASE TxWait
  <2>1. CASE Accepted(0)
    <3>. DEFINE x == tx'.obj
    <3>1. x = Awaited(0, None) /\ x \in Object /\ Held(x) /\ Moved(x, "tx", 0, 0)
      BY <1>0, <1>1, <2>1, TxWaitEffect
    <3>2. uses' = uses /\ \A o \in Object : o # x => txn'[o] = txn[o]
      BY <1>0, <1>1, <3>1, SharedRegionAssumption DEF TxWait, Shapes, TypeOK, SharedTypeOK
    <3>. HIDE DEF x
    <3>. QED  BY <1>0, <3>1, <3>2, Passes
  <2>2. CASE ~Accepted(0)
    <3>1. Oldest(0) \in Object /\ Held(Oldest(0)) /\ Dropped(Oldest(0)) /\ txn' = txn
      BY <1>0, <1>1, <2>2, TxRejectEffect
    <3>2. uses' = uses
      BY <1>1 DEF TxWait
    <3>. QED  BY <3>1, <3>2, Passes
  <2>. QED  BY <2>1, <2>2
<1>2. CASE TxForward
  <2>. DEFINE q == HopAt(txn[tx.obj].route, txn[tx.obj].hop)
  <2>1. /\ tx.obj \in Object /\ Held(tx.obj)
        /\ Moved(tx.obj, "signal", q, 0) \/ Dropped(tx.obj) \/ Ended(0)
    BY <1>0, <1>2, TxForwardEffect
  <2>2. uses' = uses /\ txn' = txn /\ q \in Proc
    BY <1>0, <1>2, <2>1, Hops DEF TxForward, Shapes, TypeOK, SharedTypeOK, Transaction
  <2>. HIDE DEF q
  <2>. QED  BY <1>0, <2>1, <2>2, Passes, Ends
<1>3. CASE TxRespond
  <2>1. tx.obj \in Object /\ uses' = uses /\ txn' = txn
    BY <1>0, <1>3 DEF TxRespond, Shapes, Threads, sharedVars
  <2>2. Same \/ (Held(tx.obj) /\ Dropped(tx.obj))
    BY <1>0, <1>3, TxRespondEffect
  <2>. QED  BY <2>1, <2>2, Stutters, Passes
<1>4. CASE TxRespondError
  <2>1. tx.obj \in Object /\ Held(tx.obj) /\ Dropped(tx.obj)
    BY <1>0, <1>4, TxRespondErrorEffect
  <2>2. uses' = uses /\ txn' = txn
    BY <1>4 DEF TxRespondError, sharedVars
  <2>. QED  BY <2>1, <2>2, Passes
<1>5. CASE TxClose
  <2>1. Same \/ Ended(0)
    BY <1>0, <1>5, TxCloseEffect
  <2>2. uses' = uses /\ txn' = txn
    BY <1>5 DEF TxClose
  <2>. QED  BY <1>0, <2>1, <2>2, Stutters, Ends
<1>6. CASE TxRelease
  <2>. DEFINE owner == [o \in Object |-> OwnerOf(o)]
  <2>1. PICK x \in Object : x = tx.obj /\ Held(x) /\ Dropped(x)
    BY <1>0, <1>6, TxReleaseEffect
  <2>2. txn' = txn /\ uses' = [uses EXCEPT ![x] = 0]
    BY <1>6, <2>1 DEF TxRelease, Released, sharedVars, Pool!Give, Good
  <2>3. \A o \in Object : uses'[o] = IF o = x THEN 0 ELSE uses[o]
    BY <2>2 DEF Good, Shapes, TypeOK, GatewayTypeOK, Pool!TypeOK
  <2>4. \A o \in Object : o # x => OwnerOf(o)' = OwnerOf(o)
    BY <2>1, <2>3, OtherOwners
  <2>5. OwnerOf(x)' = Free /\ OwnerOf(x) \in Proc
    BY <2>1, <2>3, HeldCases, Owners, OwnersNext DEF Good
  <2>6. owner' = [owner EXCEPT ![x] = Free] /\ owner[x] \in Proc
    BY <2>1, <2>4, <2>5
  <2>7. Ownership!Give(x)
    BY <2>2, <2>6 DEF Ownership!Give
  <2>. QED  BY <2>1, <2>7 DEF Ownership!Exchanged
<1>. QED  BY <1>1, <1>2, <1>3, <1>4, <1>5, <1>6 DEF TxStep

LEMMA NfExchange ==
    ASSUME Good, NEW f \in Fn, NfStep(f) \/ NfKilled(f), UNCHANGED gatewayVars
    PROVE  ExchangeStep
<1>. USE DEF ExchangeStep
<1>0. Shapes /\ HoldersInv /\ uses' = uses /\ f \in Proc /\ 0 \in Nat
      /\ (\A w \in Worker(f) : w \in Nat)
      /\ "in" \in Kind /\ "work" \in Kind /\ "out" \in Kind /\ "signal" \in Kind
  BY Workers DEF Good, gatewayVars, Kind
<1>1. CASE NfRx(f)
  <2>1. CASE Accepted(f)
    <3>1. PICK o \in Object : /\ Holds(o, "signal", f, 0)
                              /\ Moved(o, "in", f, turn[f]) /\ turn[f] \in Worker(f)
      BY <1>0, <1>1, <2>1, NfRxEffect
    <3>2. Held(o) /\ txn' = txn
      BY <1>0, <1>1, <3>1 DEF Held, NfRx
    <3>. QED  BY <1>0, <3>1, <3>2, Passes
  <2>2. CASE ~Accepted(f)
    <3>1. Oldest(f) \in Object /\ Held(Oldest(f)) /\ Dropped(Oldest(f)) /\ txn' = txn
      BY <1>0, <1>1, <2>2, NfRejectEffect DEF Good
    <3>. QED  BY <1>0, <3>1, Passes
  <2>. QED  BY <2>1, <2>2
<1>2. ASSUME NEW w \in Worker(f), NfWorkerRead(f, w) PROVE ExchangeStep
  <2>1. PICK o \in Object : Holds(o, "in", f, w) /\ Moved(o, "work", f, w)
    BY <1>0, <1>2, NfWorkerReadEffect
  <2>2. Held(o) /\ txn' = txn
    BY <1>0, <1>2, <2>1 DEF Held, NfWorkerRead, sharedVars
  <2>. QED  BY <1>0, <2>1, <2>2, Passes
<1>3. ASSUME NEW w \in Worker(f), NfWorkerWrite(f, w) PROVE ExchangeStep
  <2>1. PICK o \in Object : Holds(o, "work", f, w) /\ Moved(o, "out", f, w)
    BY <1>0, <1>3, NfWorkerWriteEffect
  <2>2. Held(o) /\ txn' = txn
    BY <1>0, <1>3, <2>1 DEF Held, NfWorkerWrite, sharedVars
  <2>. QED  BY <1>0, <2>1, <2>2, Passes
<1>4. ASSUME NEW w \in Worker(f), NfTx(f, w) PROVE ExchangeStep
  <2>1. PICK o \in Object :
            /\ Holds(o, "out", f, w)
            /\ \/ Moved(o, "signal", NextHop(txn[o].route, txn[o].hop), 0)
               \/ Dropped(o) \/ Ended(f)
            /\ txn' = [txn EXCEPT ![o].hop = @ + 1]
    BY <1>0, <1>4, NfTxEffect
  <2>2. Held(o) /\ OwnerOf(o) = f
    BY <1>0, <2>1, Owners DEF Held
  <2>3. \A x \in Object : x # o => txn'[x] = txn[x]
    BY <1>0, <2>1 DEF Shapes, TypeOK, SharedTypeOK
  <2>4. NextHop(txn[o].route, txn[o].hop) \in Proc
    BY <1>0, Hops DEF NextHop, Shapes, TypeOK, SharedTypeOK, Transaction
  <2>5. CASE Ended(f)
    BY <1>0, <2>2, <2>3, <2>5, Ends
  <2>. QED  BY <1>0, <2>1, <2>2, <2>3, <2>4, <2>5, Passes
<1>5. CASE NfKilled(f)
  BY <1>0, <1>5, NfKilledEffect, Ends DEF NfKilled
<1>. QED  BY <1>1, <1>2, <1>3, <1>4, <1>5 DEF NfStep

LEMMA NextExchange ==
    ASSUME Good, [Next]_vars
    PROVE  ExchangeStep
<1>1. ASSUME NEW r \in Request, ClientStep(r), UNCHANGED nfVars PROVE ExchangeStep
  <2>1. Same /\ uses' = uses /\ txn' = txn
    BY <1>1, ClientEffect DEF ClientStep, Connect, Send, Leave, sharedVars
  <2>. QED  BY <2>1, Stutters DEF ExchangeStep
<1>2. CASE UNCHANGED vars
  <2>1. Same /\ uses' = uses /\ txn' = txn
    BY <1>2, Still DEF vars, sharedVars, gatewayVars, nfVars
  <2>. QED  BY <2>1, Stutters DEF ExchangeStep
<1>. QED  BY <1>1, <1>2, RxExchange, TxExchange, NfExchange DEF Next, GatewayNext, NfNext

LEMMA InitExchange == Init => Ownership!Init
<1>. SUFFICES ASSUME Init PROVE Ownership!Init
  OBVIOUS
<1>1. \A o \in Object : uses[o] = 0
  BY DEF Init, GatewayInit, Pool!Init
<1>2. \A o \in Object : OwnerOf(o) = Free
  BY <1>1, InitShapes, InitHolders, Owners
<1>3. ~doubled
  BY DEF Init, SharedInit
<1>. QED  BY <1>2, <1>3 DEF Ownership!Init

(* Every node of functions and workers, with every way of failing, passes  *)
(* its objects as Exchange says: what io_sigbpf.c, nf.c and the gateway do *)
(* with addresses in signals, pipes and variables is one owner per object, *)
(* and only the owner writes the transaction, up to the first signal that  *)
(* nf_rx rejects but for its first, or the first allocation that overruns. *)
THEOREM Refinement == Spec => ExchangeSpec
<1>1. Init => Ownership!Init
  BY InitExchange
<1>2. Shapes /\ (doubled \/ HoldersInv) /\ (Shapes /\ (doubled \/ HoldersInv))' /\ [Next]_vars
      => [Ownership!Next]_<<[o \in Object |-> OwnerOf(o)], txn, doubled>>
  <2>. SUFFICES ASSUME Shapes, doubled \/ HoldersInv, (Shapes /\ (doubled \/ HoldersInv))',
                       [Next]_vars
                PROVE  [Ownership!Next]_<<[o \in Object |-> OwnerOf(o)], txn, doubled>>
    OBVIOUS
  <2>1. CASE doubled'
    BY <2>1 DEF Ownership!Next
  <2>2. CASE ~doubled'
    <3>1. ~doubled
      BY <2>2, DoubledStays
    <3>2. ExchangeStep
      BY <2>2, <3>1, NextExchange DEF Good
    <3>3. doubled' = doubled
      BY <2>2, <3>1 DEF Shapes, TypeOK, SharedTypeOK
    <3>. QED  BY <3>2, <3>3 DEF ExchangeStep, Ownership!Next
  <2>. QED  BY <2>1, <2>2
<1>. QED  BY <1>1, <1>2, Holders, PTL DEF Spec, ExchangeSpec, Ownership!Spec

-----------------------------------------------------------------------------
(***************************************************************************)
(* The connections of the gateway and the transactions that carry their    *)
(* descriptors.  EPOLLONESHOT makes an open descriptor belong to epoll, to *)
(* the events RX still has to process, to the read in progress or to one   *)
(* transaction (Connections), and only the transaction that has it, held   *)
(* by TX alone (Holders), can lead to its close.  The rest follows the     *)
(* descriptor: whose request was read from it (Requests), whose client it  *)
(* is (Clients), whether that client was answered (Answers), and the hop   *)
(* counter beside it (Progress).                                           *)
(***************************************************************************)

Open == {fd \in Fd : conn[fd] # None}
Pending == rx.batch \ {Listener}
Receiving == rx.obj # None /\ rx.pc \in {"receive", "ended"}

(* The objects whose transaction has the descriptor of its client.         *)
Tied == {o \in Object : /\ uses[o] = 1
                        /\ ~(Receiving /\ rx.obj = o)
                        /\ ~(tx.pc = "release" /\ tx.obj = o)}

(* A connection is armed, or reported to RX, or being read, or tied to one *)
(* object, never two of these.                                             *)
Connections ==
    /\ armed \subseteq Open /\ Pending \subseteq Open \ armed
    /\ Receiving => rx.fd \in Open \ (armed \union rx.batch)
    /\ \A o \in Tied :
           /\ txn[o].sockfd \in Open \ (armed \union rx.batch)
           /\ Receiving => txn[o].sockfd # rx.fd
    /\ \A o, x \in Tied : txn[o].sockfd = txn[x].sockfd => o = x

(* What RX reads, and what it has read: the request of the connection, or  *)
(* nothing that the client will ever send.                                 *)
Readable(r) == client[r] = "sent" \/ r \in gone
ReadFrom(q, r) ==
    \/ client[r] = "sent" /\ q = r
    \/ client[r] # "sent" /\ r \in gone

Requests ==
    /\ \A fd \in Pending : Readable(conn[fd])
    /\ Receiving => Readable(conn[rx.fd])
    /\ \A o \in Tied : ReadFrom(txn[o].request, conn[txn[o].sockfd])

Ties == Connections /\ Requests

(* The descriptor that TX is to close is still the one in the transaction. *)
Closes == tx.pc = "close" => tx.fd = txn[tx.obj].sockfd

-----------------------------------------------------------------------------
LEMMA InitTies == Init => Ties
<1>. SUFFICES ASSUME Init PROVE Ties
  OBVIOUS
<1>1. rx.batch = {} /\ rx.obj = None /\ armed = {} /\ Tied = {}
  BY DEF Init, GatewayInit, Pool!Init, Tied
<1>. QED  BY <1>1 DEF Ties, Connections, Requests, Pending, Receiving

(* Most steps move no descriptor.                                          *)
LEMMA KeepsTies ==
    ASSUME Ties, UNCHANGED <<conn, armed, clientVars>>, rx'.batch = rx.batch,
           Receiving' => Receiving /\ rx'.fd = rx.fd,
           \A o \in Tied' : /\ o \in Tied
                            /\ txn'[o].sockfd = txn[o].sockfd
                            /\ txn'[o].request = txn[o].request
    PROVE  Ties'
<1>. USE DEF clientVars
<1>1. Open' = Open /\ Pending' = Pending
  BY DEF Open, Pending
<1>2. Connections'
  BY <1>1 DEF Ties, Connections
<1>3. Requests'
  BY <1>1 DEF Ties, Requests, Readable, ReadFrom
<1>. QED  BY <1>2, <1>3 DEF Ties

LEMMA ClientTies ==
    ASSUME Shapes, Ties, NEW r \in Request, ClientStep(r), UNCHANGED nfVars
    PROVE  Ties'
<1>1. UNCHANGED <<conn, armed, uses, txn, rx, tx>>
  BY DEF ClientStep, Connect, Send, Leave, sharedVars
<1>2. Open' = Open /\ Pending' = Pending /\ (Receiving' <=> Receiving) /\ Tied' = Tied
  BY <1>1 DEF Open, Pending, Receiving, Tied
<1>3. Connections'
  BY <1>1, <1>2 DEF Ties, Connections
<1>4. ASSUME NEW x \in Request
      PROVE  /\ Readable(x) => Readable(x)'
             /\ \A q : ReadFrom(q, x) => ReadFrom(q, x)'
  BY DEF Readable, ReadFrom, ClientStep, Connect, Send, Leave, Shapes, TypeOK, GatewayTypeOK
<1>5. \A fd \in Open : conn[fd] \in Request
  BY DEF Open, Shapes, TypeOK, GatewayTypeOK
<1>6. \A fd \in Pending : conn[fd] \in Request /\ conn'[fd] = conn[fd] /\ Readable(conn[fd])'
  BY <1>1, <1>4, <1>5 DEF Ties, Requests, Connections, Readable
<1>7. Receiving => Readable(conn[rx.fd])'
  BY <1>1, <1>4, <1>5 DEF Ties, Requests, Connections, Readable
<1>8. \A o \in Tied : ReadFrom(txn[o].request, conn[txn[o].sockfd])'
  BY <1>1, <1>4, <1>5 DEF Ties, Requests, Connections, ReadFrom
<1>9. Requests'
  BY <1>1, <1>2, <1>6, <1>7, <1>8 DEF Requests, Readable, ReadFrom
<1>. QED  BY <1>3, <1>9 DEF Ties

LEMMA RxTies ==
    ASSUME Shapes, HoldersInv, Ties, ~doubled, ~doubled', RxStep, UNCHANGED nfVars
    PROVE  Ties'
<1>. USE DEF Receiving
<1>0. \A fd \in Open : fd \in Fd /\ conn[fd] \in Request
  BY DEF Open, Shapes, TypeOK, GatewayTypeOK
<1>1. CASE RxPoll
  <2>1. /\ UNCHANGED <<txn, clientVars, conn, uses, tx>>
        /\ rx' = [rx EXCEPT !.batch = Ready] /\ armed' = armed \ Ready
        /\ rx.pc = "poll" /\ rx.batch = {}
    BY <1>1 DEF RxPoll, StillArmed, sharedVars
  <2>2. rx'.batch = Ready /\ rx'.pc = "poll" /\ rx'.obj = rx.obj
    BY <2>1 DEF Shapes, TypeOK, GatewayTypeOK
  <2>3. Open' = Open /\ Tied' = Tied /\ ~Receiving /\ ~Receiving'
    BY <2>1, <2>2 DEF Open, Tied
  <2>4. Pending' = Ready \ {Listener} /\ Ready \ {Listener} \subseteq armed
    BY <2>2 DEF Pending, Ready
  <2>8. Ready \subseteq armed \union {Listener} /\ Listener \notin Fd
    BY GatewayAssumption DEF Ready, Listener
  <2>5. Connections'
    BY <1>0, <2>1, <2>2, <2>3, <2>4, <2>8 DEF Ties, Connections
  <2>6. \A fd \in Ready \ {Listener} : Readable(conn[fd])
    BY DEF Ready, Readable
  <2>7. Requests'
    BY <2>1, <2>2, <2>3, <2>4, <2>6 DEF Ties, Requests, Readable, ReadFrom, clientVars
  <2>. QED  BY <2>5, <2>7 DEF Ties
<1>2. CASE RxAccept
  <2>. DEFINE x == CHOOSE x \in FreeFd : \A y \in FreeFd : x <= y
  <2>1. x \in Fd /\ x \notin Open
    BY <1>2, FreeFdLeast DEF RxAccept, FreeFd, Open
  <2>2. /\ UNCHANGED <<txn, clientVars, uses, tx>>
        /\ conn' = [conn EXCEPT ![x] = Head(backlog)]
        /\ armed' = armed \union {x}
        /\ rx' = [rx EXCEPT !.batch = @ \ {Listener}]
        /\ rx.pc = "poll" /\ Head(backlog) \in Request
    BY <1>2 DEF RxAccept, Shapes, TypeOK, GatewayTypeOK, Threads, sharedVars
  <2>. HIDE DEF x
  <2>3. rx'.batch = rx.batch \ {Listener} /\ rx'.pc = "poll" /\ rx'.obj = rx.obj
    BY <2>2 DEF Shapes, TypeOK, GatewayTypeOK
  <2>4. Tied' = Tied /\ ~Receiving /\ ~Receiving' /\ Pending' = Pending
    BY <2>2, <2>3 DEF Tied, Pending
  <2>5. Open' = Open \union {x} /\ \A fd \in Open : conn'[fd] = conn[fd]
    BY <2>1, <2>2, SharedRegionAssumption DEF Open, Shapes, TypeOK, GatewayTypeOK
  <2>6. Connections'
    BY <2>1, <2>2, <2>3, <2>4, <2>5 DEF Ties, Connections, Pending
  <2>7. Requests'
    BY <2>2, <2>3, <2>4, <2>5 DEF Ties, Connections, Requests, Readable, ReadFrom, clientVars
  <2>. QED  BY <2>6, <2>7 DEF Ties
<1>3. CASE RxStops
  <2>1. /\ UNCHANGED <<txn, uses, tx, conn, armed, clientVars>> /\ rx'.batch = rx.batch
        /\ rx'.obj = rx.obj /\ rx.obj = None
    BY <1>3, RxStopsEffect DEF sharedVars, Shapes, TypeOK, GatewayTypeOK
  <2>. QED  BY <2>1, KeepsTies DEF Tied
<1>4. ASSUME NEW fd \in Fd, RxAllocate(fd) PROVE Ties'
  <2>1. PICK o \in Object :
            /\ uses[o] = 0 /\ uses' = [uses EXCEPT ![o] = 1]
            /\ rx' = [pc |-> "receive", batch |-> rx.batch \ {fd}, fd |-> fd, obj |-> o]
    BY <1>4 DEF RxAllocate, Allocated, Reads, Pool!Take
  <2>2. UNCHANGED <<txn, clientVars, conn, armed, tx>> /\ fd \in rx.batch /\ rx.obj = None
    BY <1>4 DEF RxAllocate, sharedVars, Shapes, Threads
  <2>3. Receiving' /\ Tied' = Tied
    BY <2>1, <2>2, SharedRegionAssumption DEF Tied, Shapes, TypeOK, GatewayTypeOK, Pool!TypeOK
  <2>4. Open' = Open /\ Pending' = Pending \ {fd} /\ fd \in Pending
    BY <2>1, <2>2, GatewayAssumption DEF Open, Pending, Listener
  <2>5. rx'.batch = rx.batch \ {fd} /\ rx'.fd = fd
    BY <2>1
  <2>6. Connections'
    BY <2>2, <2>3, <2>4, <2>5 DEF Ties, Connections
  <2>7. Requests'
    BY <2>2, <2>3, <2>4, <2>5 DEF Ties, Requests, Readable, ReadFrom, clientVars
  <2>. QED  BY <2>6, <2>7 DEF Ties

<1>5. CASE RxReceive
  <2>. DEFINE q == Received(conn[rx.fd], txn[rx.obj].request)
  <2>1. rx.fd \in Fd /\ rx.obj \in Object /\ rx.pc = "receive" /\ Receiving
    BY <1>5, SharedRegionAssumption DEF RxReceive, Shapes, Threads
  <2>2. UNCHANGED <<clientVars, conn, armed, uses, tx>>
        /\ rx'.pc = "dispatch" /\ rx'.batch = rx.batch /\ rx'.obj = rx.obj
    BY <1>5 DEF RxReceive, Shapes, TypeOK, GatewayTypeOK
  <2>3. txn' = [txn EXCEPT ![rx.obj] =
                   [request |-> q, sockfd |-> rx.fd, route |-> ParsedRoute(q), hop |-> 0]]
    BY <1>5 DEF RxReceive
  <2>4. ReadFrom(q, conn[rx.fd])
    BY <2>1 DEF Received, Ties, Requests, Readable, ReadFrom
  <2>. HIDE DEF q
  <2>5. \A o \in Object :
            /\ txn'[o].sockfd = IF o = rx.obj THEN rx.fd ELSE txn[o].sockfd
            /\ txn'[o].request = IF o = rx.obj THEN q ELSE txn[o].request
    BY <2>1, <2>3 DEF Shapes, TypeOK, SharedTypeOK
  <2>6. Tied' \subseteq Tied \union {rx.obj} /\ rx.obj \notin Tied /\ Tied \subseteq Object
    BY <2>1, <2>2 DEF Tied
  <2>7. ~Receiving' /\ Open' = Open /\ Pending' = Pending
    BY <2>2 DEF Open, Pending
  <2>8. Connections'
    BY <2>1, <2>2, <2>5, <2>6, <2>7 DEF Ties, Connections
  <2>9. ASSUME NEW o \in Tied' PROVE ReadFrom(txn[o].request, conn[txn[o].sockfd])'
    <3>1. o \in Object /\ (o = rx.obj \/ o \in Tied)
      BY <2>1, <2>6
    <3>2. conn' = conn /\ client' = client /\ gone' = gone
      BY <2>2 DEF clientVars
    <3>3. CASE o = rx.obj
      BY <2>4, <2>5, <3>1, <3>2, <3>3 DEF ReadFrom
    <3>4. CASE o # rx.obj
      BY <2>5, <3>1, <3>2, <3>4 DEF ReadFrom, Ties, Requests
    <3>. QED  BY <3>3, <3>4
  <2>10. Requests'
    BY <2>2, <2>7, <2>9 DEF Ties, Requests, Readable, clientVars
  <2>. QED  BY <2>8, <2>10 DEF Ties
<1>6. CASE RxReceiveError
  <2>1. /\ UNCHANGED <<txn, uses, tx, conn, armed, clientVars>> /\ rx'.batch = rx.batch
        /\ rx'.obj = rx.obj /\ rx.pc = "receive" /\ rx'.pc = "ended" /\ rx'.fd = rx.fd
    BY <1>6 DEF RxReceiveError, sharedVars, Shapes, TypeOK, GatewayTypeOK, Threads
  <2>. QED  BY <2>1, KeepsTies DEF Tied
<1>7. CASE RxDispatch
  <2>1. /\ UNCHANGED <<txn, uses, tx, conn, armed, clientVars>> /\ rx'.batch = rx.batch
        /\ rx'.obj = None /\ rx.pc = "dispatch"
    BY <1>7 DEF RxDispatch, sharedVars, Shapes, TypeOK, GatewayTypeOK, Threads
  <2>. QED  BY <2>1, KeepsTies DEF Tied
<1>8. ~(\E fd \in Fd : RxOverrun(fd))
  BY DEF RxOverrun
<1>. QED  BY <1>1, <1>2, <1>3, <1>4, <1>5, <1>6, <1>7, <1>8 DEF RxStep, RxStops

(* An object that a running process has is out of the pool.                *)
LEMMA HeldIsUsed ==
    ASSUME Shapes, HoldersInv, NEW o \in Object, Held(o)
    PROVE  uses[o] = 1
BY DEF HoldersInv, HeldInUse, Shapes, TypeOK, GatewayTypeOK, Pool!TypeOK

(* What TX has is tied until it is closed.                                 *)
LEMMA TxTied ==
    ASSUME Shapes, HoldersInv, alive[0], tx.pc \in {"forward", "respond", "close"}
    PROVE  tx.obj \in Tied /\ Held(tx.obj)
<1>1. tx.obj \in Object
  BY DEF Shapes, Threads
<1>2. Holds(tx.obj, "tx", 0, 0) /\ "tx" \in Kind /\ 0 \in Proc /\ 0 \in Nat
  BY TxHolds DEF Kind, Proc
<1>3. Held(tx.obj) /\ uses[tx.obj] = 1
  BY <1>1, <1>2, HoldsHeld, HeldIsUsed
<1>4. ~(rx.obj = tx.obj /\ rx.pc = "ended")
  BY <1>1, <1>3 DEF HoldersInv, Abandoned
<1>5. ~(rx.obj = tx.obj /\ rx.pc = "receive")
  <2>1. SUFFICES ASSUME rx.obj = tx.obj, rx.pc = "receive" PROVE FALSE
    OBVIOUS
  <2>2. Holds(tx.obj, "rx", 0, 0) /\ "rx" \in Kind
    BY <2>1, RxHolds DEF Kind
  <2>. QED  BY <1>1, <1>2, <2>2 DEF HoldersInv, HeldOnce
<1>. QED  BY <1>1, <1>3, <1>4, <1>5 DEF Tied, Receiving

(* conn_write moves the counter of what it accepts, and nothing else.      *)
LEMMA TxWaitKeeps ==
    ASSUME Shapes, HoldersInv, TxWait, UNCHANGED nfVars
    PROVE  \A o \in Object : txn'[o].sockfd = txn[o].sockfd /\ txn'[o].request = txn[o].request
<1>1. CASE Accepted(0)
  <2>1. PICK x \in Object : x = Awaited(0, None)
    BY <1>1, TxWaitEffect
  <2>2. x # None /\ txn' = [txn EXCEPT ![x].hop = NextHopCount(txn[x].hop)]
    BY <2>1, SharedRegionAssumption DEF TxWait
  <2>. QED  BY <2>2 DEF Shapes, TypeOK, SharedTypeOK, Transaction
<1>2. CASE ~Accepted(0)
  BY <1>2, TxRejectEffect
<1>. QED  BY <1>1, <1>2

LEMMA TxTies ==
    ASSUME Shapes, HoldersInv, Ties, Closes, ~doubled, TxStep, UNCHANGED nfVars
    PROVE  Ties'
<1>. USE DEF Receiving
<1>1. CASE TxWait
  <2>1. /\ UNCHANGED <<uses, rx, conn, armed, clientVars>> /\ tx.pc = "wait" /\ tx'.pc # "release"
    BY <1>1 DEF TxWait, Shapes, TypeOK, GatewayTypeOK
  <2>2. \A o \in Object : txn'[o].sockfd = txn[o].sockfd /\ txn'[o].request = txn[o].request
    BY <1>1, TxWaitKeeps
  <2>. QED  BY <2>1, <2>2, KeepsTies DEF Tied
<1>2. CASE TxForward \/ TxRespond \/ TxRespondError
  <2>0. tx \in TxType
    BY DEF Shapes, TypeOK, GatewayTypeOK, TxType
  <2>1. /\ UNCHANGED <<txn, uses, rx, conn, armed, clientVars>>
        /\ tx.pc # "release" /\ tx'.pc # "release"
    <3>1. CASE TxForward
      BY <3>1 DEF TxForward
    <3>2. CASE TxRespond
      BY <2>0, <3>2 DEF TxRespond, sharedVars, TxType
    <3>3. CASE TxRespondError
      BY <2>0, <3>3 DEF TxRespondError, sharedVars, TxType
    <3>. QED  BY <1>2, <3>1, <3>2, <3>3
  <2>. QED  BY <2>1, KeepsTies DEF Tied
<1>3. CASE TxClose
  <2>. DEFINE fd == tx.fd
  <2>1. /\ tx.obj \in Tied /\ fd = txn[tx.obj].sockfd
        /\ fd \in Open \ (armed \union rx.batch) /\ (Receiving => fd # rx.fd)
    BY <1>3, TxTied DEF TxClose, Closes, Ties, Connections
  <2>0. tx \in TxType
    BY DEF Shapes, TypeOK, GatewayTypeOK, TxType
  <2>2. /\ conn' = [conn EXCEPT ![fd] = None] /\ armed' = armed \ {fd}
        /\ UNCHANGED <<txn, uses, rx, clientVars>> /\ tx'.pc = "release" /\ tx'.obj = tx.obj
    <3>1. conn[tx.fd] # None
      BY <2>1 DEF Open
    <3>. QED  BY <1>3, <2>0, <3>1 DEF TxClose, TxType
  <2>. HIDE DEF fd
  <2>3. Tied' = Tied \ {tx.obj} /\ Pending' = Pending
    BY <1>3, <2>2 DEF Tied, Pending, TxClose
  <2>4. Open' = Open \ {fd} /\ \A x \in Open \ {fd} : conn'[x] = conn[x]
    BY <2>2 DEF Open, Shapes, TypeOK, GatewayTypeOK
  <2>5. \A o \in Tied \ {tx.obj} : txn[o].sockfd # fd
    BY <2>1 DEF Ties, Connections
  <2>6. Connections'
    BY <2>1, <2>2, <2>3, <2>4, <2>5 DEF Ties, Connections, Pending
  <2>7. \A x \in Pending : x # fd /\ x \in Open
    BY <2>1 DEF Ties, Connections, Pending
  <2>8. Requests'
    BY <2>1, <2>2, <2>3, <2>4, <2>5, <2>7
    DEF Ties, Connections, Requests, Readable, ReadFrom, clientVars
  <2>. QED  BY <2>6, <2>8 DEF Ties
<1>4. CASE TxRelease
  <2>1. /\ UNCHANGED <<txn, rx, conn, armed, clientVars>>
        /\ tx.pc = "release" /\ tx'.pc = "wait" /\ uses' = [uses EXCEPT ![tx.obj] = 0]
    BY <1>4 DEF TxRelease, Released, Pool!Give, sharedVars
  <2>. QED  BY <2>1, KeepsTies DEF Tied, Shapes, TypeOK, GatewayTypeOK, Pool!TypeOK
<1>. QED  BY <1>1, <1>2, <1>3, <1>4 DEF TxStep

LEMMA NfTies ==
    ASSUME Shapes, Ties, NEW f \in Fn, NfStep(f) \/ NfKilled(f), UNCHANGED gatewayVars
    PROVE  Ties'
<1>1. UNCHANGED <<uses, rx, tx, conn, armed, clientVars>>
  BY DEF gatewayVars, clientVars
<1>2. \A o \in Object : txn'[o].sockfd = txn[o].sockfd /\ txn'[o].request = txn[o].request
  <2>1. CASE txn' = txn
    BY <2>1
  <2>2. ASSUME NEW w \in Worker(f), NfTx(f, w)
        PROVE  \A o \in Object : txn'[o].sockfd = txn[o].sockfd /\ txn'[o].request = txn[o].request
    BY <2>2 DEF NfTx, Shapes, TypeOK, SharedTypeOK, Transaction
  <2>. QED  BY <2>1, <2>2
       DEF NfStep, NfRx, NfWorkerRead, NfWorkerWrite, NfKilled, sharedVars
<1>. QED  BY <1>1, <1>2, KeepsTies DEF Tied, Receiving

LEMMA NextTies ==
    Shapes /\ HoldersInv /\ Ties /\ Closes /\ ~doubled /\ ~doubled' /\ [Next]_vars => Ties'
<1>1. CASE Shapes /\ HoldersInv /\ Ties /\ UNCHANGED vars
  BY <1>1, KeepsTies DEF vars, sharedVars, gatewayVars, clientVars, Tied, Receiving
<1>. QED  BY <1>1, ClientTies, RxTies, TxTies, NfTies DEF Next, GatewayNext, NfNext

(* RX and the functions write no transaction that TX is answering.         *)
LEMMA NextCloses == Shapes /\ HoldersInv /\ Closes /\ [Next]_vars => Closes'
<1>. SUFFICES ASSUME Shapes, HoldersInv, Closes, [Next]_vars PROVE Closes'
  OBVIOUS
<1>1. ASSUME tx' = tx, tx.pc = "close" => txn'[tx.obj].sockfd = txn[tx.obj].sockfd
      PROVE  Closes'
  BY <1>1 DEF Closes
<1>2. CASE txn' = txn /\ tx' = tx
  BY <1>1, <1>2
<1>3. ASSUME RxReceive PROVE Closes'
  <2>1. tx' = tx /\ rx.obj \in Object /\ alive[0] /\ rx.pc = "receive"
    BY <1>3 DEF RxReceive, Shapes, Threads
  <2>2. \A o \in Object : o # rx.obj => txn'[o] = txn[o]
    BY <1>3, <2>1 DEF RxReceive, Shapes, TypeOK, SharedTypeOK
  <2>3. ASSUME tx.pc = "close" PROVE tx.obj \in Object /\ tx.obj # rx.obj
    <3>1. tx.obj \in Object /\ Holds(tx.obj, "tx", 0, 0) /\ Holds(rx.obj, "rx", 0, 0)
      BY <2>1, <2>3, RxHolds, TxHolds DEF Shapes, Threads
    <3>2. {"rx", "tx"} \subseteq Kind /\ 0 \in Proc /\ 0 \in Nat
      BY DEF Kind, Proc
    <3>. QED  BY <3>1, <3>2 DEF HoldersInv, HeldOnce
  <2>. QED  BY <1>1, <2>1, <2>2, <2>3
<1>4. CASE RxStep /\ ~RxReceive
  <2>1. txn' = txn /\ tx' = tx
    BY <1>4 DEF RxStep, RxPoll, RxAccept, RxAcceptError, RxAcceptRefused, RxAllocate, RxRefused,
       RxOverrun, RxReceiveError, RxDispatch, sharedVars
  <2>. QED  BY <1>2, <2>1
<1>5. CASE TxRespond
  <2>1. tx \in TxType /\ txn' = txn /\ tx.obj \in Object
    BY <1>5 DEF TxRespond, sharedVars, Shapes, TypeOK, GatewayTypeOK, Threads, TxType
  <2>2. tx'.pc = "close" => tx'.obj = tx.obj /\ tx'.fd = txn[tx.obj].sockfd
    BY <1>5, <2>1 DEF TxRespond, TxType
  <2>. QED  BY <2>1, <2>2 DEF Closes
<1>6. CASE TxClose
  <2>1. CASE conn[tx.fd] = None
    BY <1>2, <1>6, <2>1 DEF TxClose
  <2>2. CASE conn[tx.fd] # None
    BY <1>6, <2>2 DEF TxClose, Closes, Shapes, TypeOK, GatewayTypeOK
  <2>. QED  BY <2>1, <2>2
<1>7. CASE TxWait \/ TxForward \/ TxRespondError \/ TxRelease
  BY <1>7 DEF TxWait, TxForward, TxRespondError, TxRelease, Closes, Shapes, TypeOK, GatewayTypeOK
<1>8. CASE NfNext
  <2>1. PICK f \in Fn : NfStep(f) \/ NfKilled(f)
    BY <1>8 DEF NfNext
  <2>2. tx' = tx
    BY <1>8 DEF NfNext, gatewayVars
  <2>3. CASE txn' = txn
    BY <1>2, <2>2, <2>3
  <2>4. ASSUME NEW w \in Worker(f), NfTx(f, w) PROVE Closes'
    <3>1. \A o \in Object : txn'[o].sockfd = txn[o].sockfd
      BY <2>4 DEF NfTx, Shapes, TypeOK, SharedTypeOK, Transaction
    <3>. QED  BY <1>1, <2>2, <3>1 DEF Shapes, Threads
  <2>. QED  BY <2>1, <2>3, <2>4
       DEF NfStep, NfRx, NfWorkerRead, NfWorkerWrite, NfKilled, sharedVars
<1>9. CASE UNCHANGED vars
  BY <1>2, <1>9 DEF vars, sharedVars, gatewayVars
<1>10. ASSUME NEW r \in Request, ClientStep(r) PROVE Closes'
  BY <1>2, <1>10 DEF ClientStep, Connect, Send, Leave, sharedVars
<1>. QED  BY <1>3, <1>4, <1>5, <1>6, <1>7, <1>8, <1>9, <1>10 DEF Next, GatewayNext, TxStep

(* The inductive invariant, with the descriptors.                          *)
THEOREM Tying == Spec => [](doubled \/ (Ties /\ Closes))
<1>1. Init => Closes
  BY DEF Init, GatewayInit, Closes
<1>. QED  BY <1>1, InitTies, NextTies, NextCloses, DoubledStays, Holders, PTL DEF Spec

-----------------------------------------------------------------------------
(* What follows from it.                                                   *)

LEMMA InFlightTied ==
    ASSUME Shapes, HoldersInv
    PROVE  InFlight \subseteq Tied
<1>1. ASSUME NEW o \in InFlight PROVE o \in Tied
  <2>1. o \in Object /\ uses[o] = 1 /\ Held(o)
        /\ ~(rx.obj = o /\ rx.pc = "receive") /\ ~(tx.obj = o /\ tx.pc = "release")
    BY PlacesAreHolders, HeldIsUsed DEF InFlight, Pool!InUse
  <2>2. ~(rx.obj = o /\ rx.pc = "ended")
    BY <2>1 DEF HoldersInv, Abandoned
  <2>. QED  BY <2>1, <2>2 DEF Tied, Receiving
<1>. QED  BY <1>1

(* The transaction has the open connection of its own request all along    *)
(* the chain, and is the only one that has: conn_close, at the end of it,  *)
(* never frees the descriptor of a client that still waits.                *)
THEOREM ConnectionIsOwn == Spec => []OwnConnection
<1>1. Shapes /\ HoldersInv /\ Ties => OwnConnection
  BY InFlightTied DEF OwnConnection, Ties, Connections, Requests, ReadFrom, Open
<1>2. doubled => OwnConnection
  BY DEF OwnConnection
<1>. QED  BY <1>1, <1>2, Holders, Tying, PTL

(* No event that epoll_wait reported is stale by the time RX processes it: *)
(* its descriptor is open, and no transaction has it, so that nothing TX   *)
(* does in the meantime can close it or hand it to another client.         *)
THEOREM EventsAreFresh == Spec => []BatchIsFresh
<1>1. Shapes /\ HoldersInv /\ Ties => BatchIsFresh
  BY InFlightTied DEF BatchIsFresh, Ties, Connections, Pending, Open
<1>2. doubled => BatchIsFresh
  BY DEF BatchIsFresh
<1>. QED  BY <1>1, <1>2, Holders, Tying, PTL

(* Objects go to descriptors one to one, but for the one to be released.   *)
LEMMA OneEach ==
    ASSUME Shapes, Ties
    PROVE  Cardinality(Pool!InUse) <= Cardinality(Open) + 1
<1>. DEFINE S == Pool!InUse \ {o \in Object : tx.pc = "release" /\ tx.obj = o}
            g == [o \in S |-> IF Receiving /\ rx.obj = o THEN rx.fd ELSE txn[o].sockfd]
<1>1. IsFiniteSet(Open) /\ Cardinality(Open) \in Nat
  BY GatewayAssumption, FS_Subset, FS_CardinalityType DEF Open
<1>2. \A o \in S : o \in Tied \/ (Receiving /\ rx.obj = o)
  BY DEF Tied, Pool!InUse, Shapes, TypeOK, GatewayTypeOK, Pool!TypeOK
<1>3. g \in [S -> Open]
  BY <1>2 DEF Ties, Connections
<1>4. \A o, x \in S : g[o] = g[x] => o = x
  BY <1>2 DEF Ties, Connections
<1>5. g \in Injection(S, Open)
  <2>. HIDE DEF g, S
  <2>. QED  BY <1>3, <1>4 DEF Injection, IsInjective
<1>. HIDE DEF g
<1>6. IsFiniteSet(S) /\ Cardinality(S) <= Cardinality(Open) /\ Cardinality(S) \in Nat
  BY <1>1, <1>5, FS_Injection, FS_CardinalityType
<1>7. Pool!InUse = S \/ Pool!InUse = S \union {tx.obj}
  BY DEF Pool!InUse
<1>. HIDE DEF S
<1>8. Cardinality(Pool!InUse) <= Cardinality(S) + 1
  BY <1>6, <1>7, FS_AddElement
<1>9. Cardinality(Pool!InUse) \in Nat
  BY <1>6, <1>7, FS_AddElement, FS_CardinalityType
<1>. QED  BY <1>1, <1>6, <1>8, <1>9

(* Between allocate_object, of RX, and release_object, of TX, there is at  *)
(* most one object per open connection and one more.                       *)
THEOREM Bounded == Spec => []ObjectsBounded
<1>1. Shapes /\ Ties => ObjectsBounded
  BY OneEach DEF ObjectsBounded, Open
<1>2. doubled => ObjectsBounded
  BY DEF ObjectsBounded
<1>. QED  BY <1>1, <1>2, Holders, Tying, PTL

(* conn_close never meets a descriptor that is not open, which would be    *)
(* fatal to the gateway, while no object has been handed out twice.        *)
THEOREM NeverFatal ==
    Spec => [](~doubled /\ alive[0] /\ tx.pc = "close" => conn[tx.fd] # None)
<1>1. Shapes /\ HoldersInv /\ Ties /\ Closes =>
          (~doubled /\ alive[0] /\ tx.pc = "close" => conn[tx.fd] # None)
  BY TxTied DEF Ties, Connections, Closes, Open
<1>. QED  BY <1>1, Holders, Tying, PTL

-----------------------------------------------------------------------------
(* When no object is handed out twice.  Neither premise is the code's own: *)
(* hash_t has one pid for a slot, so whom p has in its table may have lost *)
(* p to another pid, and run.sh allows a user more descriptors than the    *)
(* region has objects.                                                     *)

(* Who signals a process is in its table. *)
Mutual == \A p, q \in Proc : q \in Known[p] => p \in Known[q]

(* More objects than descriptors, by two. *)
Enough == Cardinality(Object) > Cardinality(Fd) + 1

SendersKnown == \A p \in Proc : \A i \in DOMAIN signals[p] : signals[p][i].from \in Known[p]

LEMMA TransferSenders ==
    ASSUME Mutual, SharedTypeOK, SendersKnown, NEW p \in Proc, NEW q \in Proc,
           NEW o \in Object, TransferOwnership(p, o, q)
    PROVE  SendersKnown'
<1>. DEFINE m == [addr |-> o, from |-> p]
<1>1. CASE q \in Known[p] /\ signals' = [signals EXCEPT ![q] = Append(@, m)]
  <2>1. signals[q] \in Seq(Signal) /\ m.from \in Known[q]
    BY <1>1 DEF SharedTypeOK, Mutual
  <2>2. \A i \in DOMAIN Append(signals[q], m) : Append(signals[q], m)[i].from \in Known[q]
    BY <2>1 DEF SendersKnown
  <2>. HIDE DEF m
  <2>3. \A r \in Proc : signals'[r] = IF r = q THEN Append(signals[q], m) ELSE signals[r]
    BY <1>1 DEF SharedTypeOK
  <2>. QED  BY <2>2, <2>3 DEF SendersKnown
<1>2. CASE Exit(p)
  BY <1>2 DEF Exit, SendersKnown, SharedTypeOK
<1>3. CASE UNCHANGED signals
  BY <1>3 DEF SendersKnown
<1>. QED  BY <1>1, <1>2, <1>3 DEF TransferOwnership

LEMMA ConsumeSenders ==
    ASSUME SharedTypeOK, SendersKnown, NEW p \in Proc, CanWait(p), Consume(p)
    PROVE  SendersKnown' /\ Accepted(p)
<1>1. signals[p] \in Seq(Signal) /\ signals[p] # <<>> /\ signals' = [signals EXCEPT ![p] = Tail(@)]
  BY DEF CanWait, Consume, SharedTypeOK
<1>2. \A i \in DOMAIN Tail(signals[p]) : Tail(signals[p])[i].from \in Known[p]
  BY <1>1 DEF SendersKnown
<1>3. \A r \in Proc : signals'[r] = IF r = p THEN Tail(signals[p]) ELSE signals[r]
  BY <1>1 DEF SharedTypeOK
<1>. QED  BY <1>1, <1>2, <1>3 DEF SendersKnown, Accepted

LEMMA NextSenders ==
    ASSUME Mutual
    PROVE  Shapes /\ SendersKnown /\ [Next]_vars => SendersKnown'
<1>. SUFFICES ASSUME Shapes, SendersKnown, [Next]_vars PROVE SendersKnown'
  OBVIOUS
<1>0. SharedTypeOK /\ 0 \in Proc /\ Fn \subseteq Proc
      /\ \A o \in Object : txn[o].route \in DOMAIN Route /\ txn[o].hop \in Nat
  BY DEF Shapes, TypeOK, SharedTypeOK, Proc, Transaction
<1>1. CASE signals' = signals
  BY <1>1 DEF SendersKnown
<1>2. CASE RxDispatch
  <2>1. rx.obj \in Object /\ HopAt(txn[rx.obj].route, 0) \in Proc
    BY <1>0, <1>2, Hops DEF RxDispatch, Shapes, Threads
  <2>. QED  BY <1>0, <1>2, <2>1, TransferSenders DEF RxDispatch
<1>3. CASE RxStep /\ ~RxDispatch
  BY <1>1, <1>3 DEF RxStep, RxPoll, RxAccept, RxAcceptError, RxAcceptRefused, RxAllocate,
     RxRefused, RxOverrun, RxReceive, RxReceiveError, sharedVars
<1>4. CASE TxWait
  BY <1>0, <1>4, ConsumeSenders DEF TxWait
<1>5. CASE TxForward
  <2>1. tx.obj \in Object /\ HopAt(txn[tx.obj].route, txn[tx.obj].hop) \in Proc
    BY <1>0, <1>5, Hops DEF TxForward, Shapes, Threads
  <2>. QED  BY <1>0, <1>5, <2>1, TransferSenders DEF TxForward
<1>6. CASE TxClose
  <2>1. signals' = signals \/ Exit(0)
    BY <1>6 DEF TxClose
  <2>2. CASE Exit(0)
    BY <1>0, <2>2 DEF Exit, SendersKnown, SharedTypeOK
  <2>. QED  BY <1>1, <2>1, <2>2
<1>7. CASE TxRespond \/ TxRespondError \/ TxRelease
  BY <1>1, <1>7 DEF TxRespond, TxRespondError, TxRelease, sharedVars
<1>8. ASSUME NEW f \in Fn, NfStep(f) \/ NfKilled(f) PROVE SendersKnown'
  <2>1. CASE NfRx(f)
    BY <1>0, <2>1, ConsumeSenders DEF NfRx
  <2>2. ASSUME NEW w \in Worker(f), NfTx(f, w) PROVE SendersKnown'
    <3>1. Head(outPipe[f][w]) \in Object
      BY <2>2 DEF NfTx, Shapes, TypeOK, NfTypeOK
    <3>2. PICK o \in Object : TransferOwnership(f, o, NextHop(txn[o].route, txn[o].hop))
      BY <2>2, <3>1 DEF NfTx
    <3>3. NextHop(txn[o].route, txn[o].hop) \in Proc
      BY <1>0, Hops DEF NextHop
    <3>. QED  BY <1>0, <3>2, <3>3, TransferSenders
  <2>3. CASE NfKilled(f)
    BY <1>0, <2>3 DEF NfKilled, Exit, SendersKnown, SharedTypeOK
  <2>4. ASSUME NEW w \in Worker(f), NfWorkerRead(f, w) \/ NfWorkerWrite(f, w) PROVE SendersKnown'
    BY <1>1, <2>4 DEF NfWorkerRead, NfWorkerWrite, sharedVars
  <2>. QED  BY <1>8, <2>1, <2>2, <2>3, <2>4 DEF NfStep
<1>9. CASE UNCHANGED vars
  BY <1>1, <1>9 DEF vars, sharedVars
<1>10. ASSUME NEW r \in Request, ClientStep(r) PROVE SendersKnown'
  BY <1>1, <1>10 DEF ClientStep, Connect, Send, Leave, sharedVars
<1>. QED  BY <1>2, <1>3, <1>4, <1>5, <1>6, <1>7, <1>8, <1>9, <1>10
     DEF Next, GatewayNext, NfNext, TxStep

(* The pool is not found empty by an allocation.                           *)
LEMMA PoolIsLeft ==
    ASSUME Enough, Shapes, Ties
    PROVE  Pool!InUse # Object
<1>1. SUFFICES ASSUME Pool!InUse = Object PROVE FALSE
  OBVIOUS
<1>2. Cardinality(Object) <= Cardinality(Open) + 1
  BY <1>1, OneEach
<1>3. /\ Cardinality(Open) <= Cardinality(Fd)
      /\ Cardinality(Open) \in Nat /\ Cardinality(Fd) \in Nat /\ Cardinality(Object) \in Nat
  BY GatewayAssumption, FS_Subset, FS_CardinalityType DEF Open
<1>. QED  BY <1>2, <1>3 DEF Enough

LEMMA StaysSingle ==
    ASSUME Enough
    PROVE  Shapes /\ Ties /\ SendersKnown /\ ~doubled /\ [Next]_vars => ~doubled'
<1>. SUFFICES ASSUME Shapes, Ties, SendersKnown, ~doubled, [Next]_vars PROVE ~doubled'
  OBVIOUS
<1>1. CASE doubled' = doubled
  BY <1>1
<1>2. ~(\E fd \in Fd : RxOverrun(fd))
  BY PoolIsLeft DEF RxOverrun
<1>3. ASSUME NEW f \in Fn, NfRx(f) PROVE ~doubled'
  <2>1. Accepted(f)
    BY <1>3, ConsumeSenders DEF NfRx, Proc, Shapes, TypeOK
  <2>. QED  BY <1>3, <2>1 DEF NfRx
<1>4. ASSUME NEW f \in Fn, NfStep(f) \/ NfKilled(f) PROVE ~doubled'
  BY <1>1, <1>3, <1>4 DEF NfStep, NfWorkerRead, NfWorkerWrite, NfTx, NfKilled, sharedVars
<1>5. CASE RxStep
  BY <1>1, <1>2, <1>5 DEF RxStep, RxPoll, RxAccept, RxAcceptError, RxAcceptRefused, RxAllocate,
     RxRefused, RxReceive, RxReceiveError, RxDispatch, sharedVars
<1>6. CASE TxStep
  BY <1>1, <1>6 DEF TxStep, TxWait, TxForward, TxRespond, TxRespondError, TxClose, TxRelease,
     sharedVars
<1>7. CASE UNCHANGED vars
  BY <1>1, <1>7 DEF vars, sharedVars
<1>8. ASSUME NEW r \in Request, ClientStep(r) PROVE ~doubled'
  BY <1>1, <1>8 DEF ClientStep, Connect, Send, Leave, sharedVars
<1>. QED  BY <1>4, <1>5, <1>6, <1>7, <1>8 DEF Next, GatewayNext, NfNext

(* Where the processes know each other both ways, and the pool has two     *)
(* objects more than the gateway may have descriptors, no object is ever   *)
(* handed out twice, and what is proved of a node "until then" holds for   *)
(* good.  Neither premise is idle: a pid that has lost its slot in the     *)
(* table is not Mutual (wait_for_ownership), and the limits that run.sh    *)
(* sets are not Enough (allocate_object).                                  *)
THEOREM NeverDoubled ==
    ASSUME Mutual, Enough
    PROVE  Spec => []~doubled
<1>1. Init => SendersKnown /\ ~doubled
  BY DEF Init, SharedInit, SendersKnown
<1>2. Shapes /\ SendersKnown /\ [Next]_vars => SendersKnown'
  BY NextSenders
<1>3. Shapes /\ Ties /\ SendersKnown /\ ~doubled /\ [Next]_vars => ~doubled'
  BY StaysSingle
<1>. QED  BY <1>1, <1>2, <1>3, Holders, Tying, PTL DEF Spec

-----------------------------------------------------------------------------
(* The clients and their answers.                                          *)

(* A client has one connection, and none before it connects.               *)
Clients ==
    /\ \A r \in Request : Piped(r, backlog) => client[r] # "idle"
    /\ PipedOnce(backlog)
    /\ \A fd \in Open : client[conn[fd]] # "idle" /\ ~Piped(conn[fd], backlog)
    /\ \A fd, x \in Open : conn[fd] = conn[x] => fd = x

(* Nothing more will be read from fd, and if its transaction is held, it   *)
(* is held for the close.                                                  *)
Closing(fd) ==
    /\ fd \notin armed \union rx.batch
    /\ Receiving => fd # rx.fd
    /\ \A o \in Tied :
           txn[o].sockfd = fd /\ Held(o) => tx.obj = o /\ tx.pc = "close"

(* A client that was answered has a connection only until it is closed, or *)
(* for ever when its object is the one at address Forwarded.               *)
Answers ==
    \A r \in Request :
        /\ answers[r] <= 1
        /\ answers[r] = 1 =>
               /\ client[r] # "idle" /\ ~Piped(r, backlog)
               /\ \A fd \in Open : conn[fd] = r => Closing(fd)

LEMMA InitAnswers == Init => Clients /\ Answers
<1>. SUFFICES ASSUME Init PROVE Clients /\ Answers
  OBVIOUS
<1>1. backlog = <<>> /\ Open = {} /\ \A r \in Request : answers[r] = 0
  BY DEF Init, GatewayInit, Open
<1>. QED  BY <1>1 DEF Clients, Answers, Piped, PipedOnce

LEMMA NextClients == Shapes /\ Clients /\ [Next]_vars => Clients'
<1>. SUFFICES ASSUME Shapes, Clients, [Next]_vars PROVE Clients'
  OBVIOUS
<1>0. /\ backlog \in Seq(Request) /\ client \in [Request -> {"idle", "connected", "sent"}]
      /\ conn \in [Fd -> Request \union {None}]
  BY DEF Shapes, TypeOK, GatewayTypeOK
<1>1. CASE UNCHANGED <<backlog, conn>> /\ \A r \in Request : client[r] # "idle" => client'[r] # "idle"
  <2>1. Open' = Open /\ \A r : Piped(r, backlog)' <=> Piped(r, backlog)
    BY <1>1 DEF Open, Piped
  <2>2. \A fd \in Open : conn[fd] \in Request
    BY <1>0 DEF Open
  <2>. QED  BY <1>1, <2>1, <2>2 DEF Clients, PipedOnce
<1>2. ASSUME NEW r \in Request, Connect(r) PROVE Clients'
  <2>1. backlog' = Append(backlog, r) /\ client[r] = "idle" /\ conn' = conn
        /\ client' = [client EXCEPT ![r] = "connected"]
    BY <1>2 DEF Connect
  <2>2. /\ \A x : Piped(x, backlog)' <=> Piped(x, backlog) \/ x = r
        /\ PipedOnce(backlog)'
    <3>1. ~Piped(r, backlog)
      BY <2>1 DEF Clients
    <3>2. /\ \A x : Piped(x, Append(backlog, r)) <=> Piped(x, backlog) \/ x = r
          /\ PipedOnce(Append(backlog, r))
      BY <1>0, <3>1, AppendPiped DEF Clients
    <3>. QED  BY <2>1, <3>2 DEF Piped, PipedOnce
  <2>3. Open' = Open /\ \A fd \in Open : conn[fd] \in Request /\ conn[fd] # r
    BY <1>0, <2>1 DEF Open, Clients
  <2>. QED  BY <1>0, <2>1, <2>2, <2>3 DEF Clients
<1>3. CASE RxAccept
  <2>. DEFINE x == CHOOSE x \in FreeFd : \A y \in FreeFd : x <= y
              r == Head(backlog)
  <2>1. x \in Fd /\ x \notin Open
    BY <1>3, FreeFdLeast DEF RxAccept, FreeFd, Open
  <2>2. /\ client' = client /\ conn' = [conn EXCEPT ![x] = r] /\ backlog' = Tail(backlog)
        /\ backlog # <<>>
    BY <1>3 DEF RxAccept, clientVars, Shapes, Threads
  <2>3. /\ \A y : Piped(y, backlog)' <=> Piped(y, backlog) /\ y # r
        /\ PipedOnce(backlog)' /\ Piped(r, backlog) /\ r \in Request
    <3>1. /\ \A y : Piped(y, Tail(backlog)) <=> Piped(y, backlog) /\ y # Head(backlog)
          /\ PipedOnce(Tail(backlog))
          /\ Piped(Head(backlog), backlog) /\ Head(backlog) \in Request
      BY <1>0, <2>2, TailPiped DEF Clients
    <3>. QED  BY <2>2, <3>1 DEF Piped, PipedOnce
  <2>. HIDE DEF x, r
  <2>4. /\ Open' = Open \union {x} /\ \A fd \in Open : conn'[fd] = conn[fd] /\ conn[fd] # r
        /\ conn'[x] = r
    BY <1>0, <2>1, <2>2, <2>3, SharedRegionAssumption DEF Open, Clients
  <2>. QED  BY <2>1, <2>2, <2>3, <2>4 DEF Clients
<1>4. ASSUME UNCHANGED <<backlog, client>>,
             NEW fd, conn' = [conn EXCEPT ![fd] = None]
      PROVE  Clients'
  <2>1. Open' \subseteq Open /\ \A x \in Open' : conn'[x] = conn[x]
    BY <1>0, <1>4 DEF Open
  <2>2. \A r : Piped(r, backlog)' <=> Piped(r, backlog)
    BY <1>4 DEF Piped
  <2>. QED  BY <1>4, <2>1, <2>2 DEF Clients, PipedOnce
<1>5. ASSUME NEW r \in Request, Send(r) \/ Leave(r) PROVE Clients'
  BY <1>0, <1>1, <1>5 DEF Send, Leave
<1>6. CASE RxStep /\ ~RxAccept /\ ~RxAcceptRefused
  BY <1>1, <1>6
  DEF RxStep, RxPoll, RxAcceptError, RxAllocate, RxRefused, RxOverrun, RxReceive, RxReceiveError,
      RxDispatch, clientVars
<1>10. CASE RxAcceptRefused
  <2>1. UNCHANGED <<client, conn>> /\ backlog' = Tail(backlog) /\ backlog # <<>>
    BY <1>10 DEF RxAcceptRefused, clientVars, Shapes, Threads
  <2>2. (\A y : Piped(y, backlog)' => Piped(y, backlog)) /\ PipedOnce(backlog)'
    <3>1. /\ \A y : Piped(y, Tail(backlog)) => Piped(y, backlog)
          /\ PipedOnce(Tail(backlog))
      BY <1>0, <2>1, TailPiped DEF Clients
    <3>. QED  BY <2>1, <3>1 DEF Piped, PipedOnce
  <2>3. Open' = Open
    BY <2>1 DEF Open
  <2>. QED  BY <2>1, <2>2, <2>3 DEF Clients
<1>7. CASE TxClose
  <2>1. CASE conn[tx.fd] = None
    BY <1>1, <1>7, <2>1 DEF TxClose, clientVars
  <2>2. CASE conn[tx.fd] # None
    BY <1>4, <1>7, <2>2 DEF TxClose, clientVars
  <2>. QED  BY <2>1, <2>2
<1>8. CASE TxStep /\ ~TxClose
  BY <1>1, <1>8 DEF TxStep, TxWait, TxForward, TxRespond, TxRespondError, TxRelease, clientVars
<1>9. CASE UNCHANGED vars \/ NfNext
  BY <1>1, <1>9 DEF vars, gatewayVars, NfNext
<1>. QED  BY <1>2, <1>3, <1>5, <1>6, <1>7, <1>8, <1>9, <1>10 DEF Next, GatewayNext, ClientStep

LEMMA KeepsClosing ==
    ASSUME NEW fd, Closing(fd),
           fd \in armed' \union rx'.batch => fd \in armed \union rx.batch,
           Receiving' /\ rx'.fd = fd => fd \in rx.batch \/ (Receiving /\ rx.fd = fd),
           \A o \in Tied' : txn'[o].sockfd = fd /\ Held(o)' =>
               \/ /\ o \in Tied /\ txn[o].sockfd = fd /\ Held(o)
                  /\ tx.obj = o /\ tx.pc = "close" => tx'.obj = o /\ tx'.pc = "close"
               \/ Receiving /\ rx.fd = fd
    PROVE  Closing(fd)'
BY DEF Closing

(* Where no answer is written: what is closing stays so.                   *)
LEMMA KeepsAnswers ==
    ASSUME Answers, answers' = answers,
           \A r \in Request :
               /\ client[r] # "idle" => client'[r] # "idle"
               /\ client[r] # "idle" /\ ~Piped(r, backlog) => ~Piped(r, backlog)',
           \A fd \in Open' :
               \/ fd \in Open /\ conn'[fd] = conn[fd] /\ (Closing(fd) => Closing(fd)')
               \/ Piped(conn'[fd], backlog)
    PROVE  Answers'
<1>. SUFFICES ASSUME NEW r \in Request
              PROVE  /\ answers'[r] <= 1
                     /\ answers'[r] = 1 =>
                            /\ client'[r] # "idle" /\ ~Piped(r, backlog)'
                            /\ \A fd \in Open' : conn'[fd] = r => Closing(fd)'
  BY DEF Answers
<1>1. answers[r] <= 1 /\ answers'[r] = answers[r]
  BY DEF Answers
<1>2. CASE answers[r] = 1
  <2>1. client[r] # "idle" /\ ~Piped(r, backlog) /\ \A fd \in Open : conn[fd] = r => Closing(fd)
    BY <1>2 DEF Answers
  <2>. QED  BY <1>1, <2>1
<1>. QED  BY <1>1, <1>2

(* A step gives nobody an object that is tied.                             *)
LEMMA NoNewHolders ==
    ASSUME \/ Same
           \/ \E x \in Object : Dropped(x)
           \/ \E q : Ended(q)
           \/ \E x \in Object : (Held(x) \/ x \notin Tied) /\ \E c, q, v : Moved(x, c, q, v)
    PROVE  \A o \in Tied : Held(o)' => Held(o)
<1>. SUFFICES ASSUME NEW o \in Tied, Held(o)' PROVE Held(o)
  OBVIOUS
<1>1. o \in Object
  BY DEF Tied
<1>2. PICK k \in Kind, p \in Proc, w \in Nat : Holds(o, k, p, w)'
  BY DEF Held
<1>3. Holds(o, k, p, w) \/ Held(o)
  BY <1>1, <1>2 DEF Same, Dropped, Ended, Moved
<1>. QED  BY <1>1, <1>3 DEF Held

LEMMA ClientAnswers ==
    ASSUME Shapes, Answers, NEW r \in Request, ClientStep(r), UNCHANGED nfVars
    PROVE  Answers'
<1>1. /\ UNCHANGED <<answers, conn, armed, uses, txn, rx, tx, signals, alive, inPipe, work, outPipe>>
      /\ backlog' = backlog \/ (backlog' = Append(backlog, r) /\ client[r] = "idle")
      /\ \A x \in Request : client[x] # "idle" => client'[x] # "idle"
  BY DEF ClientStep, Connect, Send, Leave, sharedVars, nfVars, Shapes, TypeOK, GatewayTypeOK
<1>2. Open' = Open /\ Tied' = Tied /\ (Receiving' <=> Receiving) /\ \A o : Held(o)' <=> Held(o)
  BY <1>1 DEF Open, Tied, Receiving, Held, Holds, Named, Signalled, Piped
<1>3. \A fd : Closing(fd) => Closing(fd)'
  BY <1>1, <1>2, KeepsClosing
<1>4. \A x \in Request : client[x] # "idle" /\ ~Piped(x, backlog) => ~Piped(x, backlog)'
  <2>1. CASE backlog' = backlog
    BY <2>1 DEF Piped
  <2>2. CASE backlog' = Append(backlog, r) /\ client[r] = "idle"
    <3>1. \A x : Piped(x, Append(backlog, r)) <=> Piped(x, backlog) \/ x = r
      BY AppendPiped DEF Shapes, TypeOK, GatewayTypeOK
    <3>. QED  BY <2>2, <3>1 DEF Piped
  <2>. QED  BY <1>1, <2>1, <2>2
<1>. QED  BY <1>1, <1>2, <1>3, <1>4, KeepsAnswers

LEMMA RxAnswers ==
    ASSUME Shapes, HoldersInv, Ties, Clients, Answers, ~doubled, ~doubled', RxStep, UNCHANGED nfVars
    PROVE  Answers'
<1>. USE DEF Receiving
<1>0. tx' = tx /\ answers' = answers /\ client' = client
  BY DEF RxStep, RxPoll, RxAccept, RxAcceptError, RxAcceptRefused, RxAllocate, RxRefused, RxOverrun,
         RxReceive, RxReceiveError, RxDispatch, clientVars
<1>10. ~(\E fd \in Fd : RxOverrun(fd))
  BY DEF RxOverrun
<1>1. \A o \in Tied : Held(o)' => Held(o)
  <2>1. CASE RxPoll \/ RxAccept \/ RxStops \/ RxReceive
    BY <2>1, RxStillEffect, NoNewHolders
  <2>2. ASSUME NEW fd \in Fd, RxAllocate(fd) PROVE \A o \in Tied : Held(o)' => Held(o)
    <3>1. PICK x \in Object : x = rx'.obj /\ uses[x] = 0 /\ Moved(x, "rx", 0, 0)
      BY <2>2, RxAllocateEffect DEF HoldersInv
    <3>2. x \notin Tied
      BY <3>1 DEF Tied
    <3>. QED  BY <3>1, <3>2, NoNewHolders
  <2>3. CASE RxReceiveError
    BY <2>3, RxReceiveErrorEffect, NoNewHolders DEF HoldersInv
  <2>4. CASE RxDispatch
    BY <2>4, RxDispatchEffect, NoNewHolders
  <2>. QED  BY <1>10, <2>1, <2>2, <2>3, <2>4 DEF RxStep, RxStops
<1>2. CASE RxAccept
  <2>. DEFINE x == CHOOSE x \in FreeFd : \A y \in FreeFd : x <= y
  <2>1. x \in Fd /\ x \notin Open
    BY <1>2, FreeFdLeast DEF RxAccept, FreeFd, Open
  <2>2. /\ UNCHANGED <<txn, uses>> /\ armed' = armed \union {x}
        /\ conn' = [conn EXCEPT ![x] = Head(backlog)] /\ backlog' = Tail(backlog)
        /\ rx' = [rx EXCEPT !.batch = @ \ {Listener}] /\ rx.pc = "poll"
        /\ backlog # <<>>
    BY <1>2 DEF RxAccept, Shapes, Threads, sharedVars
  <2>. HIDE DEF x
  <2>3. rx'.batch = rx.batch \ {Listener} /\ rx'.pc = "poll"
    BY <2>2 DEF Shapes, TypeOK, GatewayTypeOK
  <2>4. Tied' = Tied
    BY <1>0, <2>2, <2>3 DEF Tied
  <2>5. ASSUME NEW fd \in Open, Closing(fd) PROVE Closing(fd)'
    BY <1>0, <1>1, <2>1, <2>2, <2>3, <2>4, <2>5, KeepsClosing
  <2>6. /\ \A r : Piped(r, backlog)' => Piped(r, backlog)
        /\ Piped(Head(backlog), backlog)
    <3>1. /\ \A y : Piped(y, Tail(backlog)) <=> Piped(y, backlog) /\ y # Head(backlog)
          /\ Piped(Head(backlog), backlog)
      BY <2>2, TailPiped DEF Clients, Shapes, TypeOK, GatewayTypeOK
    <3>. QED  BY <2>2, <3>1 DEF Piped
  <2>7. \A fd \in Open' : (fd \in Open /\ conn'[fd] = conn[fd]) \/ conn'[fd] = Head(backlog)
    BY <2>1, <2>2 DEF Open, Shapes, TypeOK, GatewayTypeOK
  <2>. QED  BY <1>0, <2>5, <2>6, <2>7, KeepsAnswers
<1>3. CASE RxStep /\ ~RxAccept
  <2>1. conn' = conn /\ Open' = Open /\ (backlog' = backlog \/ RxAcceptRefused)
    BY <1>3, <1>10 DEF RxStep, RxPoll, RxAcceptError, RxAcceptRefused, RxAllocate, RxRefused,
       RxReceive, RxReceiveError, RxDispatch, Open
  <2>3. \A r : Piped(r, backlog)' => Piped(r, backlog)
    <3>1. CASE backlog' = backlog
      BY <3>1 DEF Piped
    <3>2. CASE RxAcceptRefused
      <4>1. backlog' = Tail(backlog) /\ backlog # <<>>
        BY <3>2 DEF RxAcceptRefused, Shapes, Threads
      <4>2. \A r : Piped(r, Tail(backlog)) => Piped(r, backlog)
        BY <4>1, TailPiped DEF Clients, Shapes, TypeOK, GatewayTypeOK
      <4>. QED  BY <4>1, <4>2 DEF Piped
    <3>. QED  BY <2>1, <3>1, <3>2
  <2>2. \A fd \in Open : Closing(fd) => Closing(fd)'
    <3>. SUFFICES ASSUME NEW fd \in Open, Closing(fd) PROVE Closing(fd)'
      OBVIOUS
    <3>0. fd \in Fd /\ fd # Listener
      BY GatewayAssumption DEF Open, Listener
    <3>1. CASE RxPoll
      <4>1. /\ UNCHANGED <<txn, uses>> /\ rx' = [rx EXCEPT !.batch = Ready]
            /\ armed' = armed \ Ready /\ rx.pc = "poll"
        BY <3>1 DEF RxPoll, StillArmed, sharedVars
      <4>2. rx'.batch = Ready /\ rx'.pc = "poll"
        BY <4>1 DEF Shapes, TypeOK, GatewayTypeOK
      <4>3. Tied' = Tied
        BY <1>0, <4>1, <4>2 DEF Tied
      <4>4. fd \in Ready => fd \in armed
        BY <3>0 DEF Ready
      <4>. QED  BY <1>0, <1>1, <4>1, <4>2, <4>3, <4>4, KeepsClosing
    <3>2. CASE RxStops
      <4>1. /\ UNCHANGED <<txn, uses, armed>> /\ rx'.batch = rx.batch
            /\ rx'.obj = None /\ rx.obj = None
        BY <3>2, RxStopsEffect DEF sharedVars, Shapes, TypeOK, GatewayTypeOK
      <4>2. Tied' = Tied
        BY <1>0, <4>1 DEF Tied
      <4>. QED  BY <1>0, <1>1, <4>1, <4>2, KeepsClosing
    <3>3. ASSUME NEW x \in Fd, RxAllocate(x) PROVE Closing(fd)'
      <4>1. PICK o \in Object :
                /\ uses[o] = 0 /\ uses' = [uses EXCEPT ![o] = 1]
                /\ rx' = [pc |-> "receive", batch |-> rx.batch \ {x}, fd |-> x, obj |-> o]
        BY <3>3 DEF RxAllocate, Allocated, Reads, Pool!Take
      <4>2. UNCHANGED <<txn, armed>> /\ x \in rx.batch /\ rx.obj = None
        BY <3>3 DEF RxAllocate, sharedVars, Shapes, Threads
      <4>3. Tied' \subseteq Tied
        BY <1>0, <4>1, <4>2, SharedRegionAssumption
        DEF Tied, Shapes, TypeOK, GatewayTypeOK, Pool!TypeOK
      <4>. QED  BY <1>0, <1>1, <4>1, <4>2, <4>3, KeepsClosing
    <3>4. CASE RxReceive
      <4>1. rx.fd \in Fd /\ rx.obj \in Object /\ rx.pc = "receive" /\ Receiving
        BY <3>4, SharedRegionAssumption DEF RxReceive, Shapes, Threads
      <4>2. UNCHANGED <<armed, uses>>
            /\ rx'.pc = "dispatch" /\ rx'.batch = rx.batch /\ rx'.obj = rx.obj
        BY <3>4 DEF RxReceive, Shapes, TypeOK, GatewayTypeOK
      <4>3. \A o \in Object : txn'[o].sockfd = IF o = rx.obj THEN rx.fd ELSE txn[o].sockfd
        BY <3>4, <4>1 DEF RxReceive, Shapes, TypeOK, SharedTypeOK
      <4>4. Tied' \subseteq Tied \union {rx.obj} /\ Tied \subseteq Object
        BY <1>0, <4>1, <4>2 DEF Tied
      <4>. QED  BY <1>0, <1>1, <4>1, <4>2, <4>3, <4>4, KeepsClosing
    <3>5. CASE RxReceiveError
      <4>1. /\ UNCHANGED <<txn, uses, armed>> /\ rx'.batch = rx.batch
            /\ rx'.obj = rx.obj /\ rx.pc = "receive" /\ rx'.pc = "ended" /\ rx'.fd = rx.fd
        BY <3>5 DEF RxReceiveError, sharedVars, Shapes, TypeOK, GatewayTypeOK, Threads
      <4>2. Tied' = Tied
        BY <1>0, <4>1 DEF Tied
      <4>. QED  BY <1>0, <1>1, <4>1, <4>2, KeepsClosing
    <3>6. CASE RxDispatch
      <4>1. /\ UNCHANGED <<txn, uses, armed>> /\ rx'.batch = rx.batch
            /\ rx'.obj = None /\ rx.pc = "dispatch"
        BY <3>6 DEF RxDispatch, sharedVars, Shapes, TypeOK, GatewayTypeOK, Threads
      <4>2. Tied' = Tied
        BY <1>0, <4>1 DEF Tied
      <4>. QED  BY <1>0, <1>1, <4>1, <4>2, KeepsClosing
    <3>. QED  BY <1>3, <1>10, <3>1, <3>2, <3>3, <3>4, <3>5, <3>6 DEF RxStep, RxStops
  <2>. QED  BY <1>0, <2>1, <2>2, <2>3, KeepsAnswers
<1>. QED  BY <1>2, <1>3

LEMMA TxAnswers ==
    ASSUME Shapes, HoldersInv, Ties, Closes, Clients, Answers, ~doubled, TxStep, UNCHANGED nfVars
    PROVE  Answers'
<1>. USE DEF Receiving
<1>0. UNCHANGED <<client, backlog, rx>>
  BY DEF TxStep, TxWait, TxForward, TxRespond, TxRespondError, TxClose, TxRelease, clientVars
<1>1. \A o \in Tied : Held(o)' => Held(o)
  <2>1. CASE TxWait
    <3>1. CASE Accepted(0)
      <4>1. PICK x \in Object : x = tx'.obj /\ Held(x) /\ Moved(x, "tx", 0, 0)
        BY <2>1, <3>1, TxWaitEffect
      <4>. QED  BY <4>1, NoNewHolders
    <3>2. CASE ~Accepted(0)
      BY <2>1, <3>2, TxRejectEffect, NoNewHolders
    <3>. QED  BY <3>1, <3>2
  <2>2. CASE TxForward
    BY <2>2, TxForwardEffect, NoNewHolders
  <2>3. CASE TxRespond
    BY <2>3, TxRespondEffect, NoNewHolders DEF TxRespond, Shapes, Threads
  <2>4. CASE TxRespondError
    BY <2>4, TxRespondErrorEffect, NoNewHolders
  <2>5. CASE TxClose
    BY <2>5, TxCloseEffect, NoNewHolders
  <2>6. CASE TxRelease
    BY <2>6, TxReleaseEffect, NoNewHolders
  <2>. QED  BY <2>1, <2>2, <2>3, <2>4, <2>5, <2>6 DEF TxStep
<1>2. CASE TxWait \/ TxForward \/ TxRespondError
  <2>1. /\ UNCHANGED <<conn, armed, uses, answers>>
        /\ tx.pc \notin {"close", "release"} /\ tx'.pc # "release"
    BY <1>2 DEF TxWait, TxForward, TxRespondError, Shapes, TypeOK, GatewayTypeOK
  <2>2. \A o \in Object : txn'[o].sockfd = txn[o].sockfd
    BY <1>2, TxWaitKeeps DEF TxForward, TxRespondError, sharedVars
  <2>3. Tied' = Tied /\ Open' = Open /\ Tied \subseteq Object
    BY <1>0, <2>1 DEF Tied, Open
  <2>4. \A fd : Closing(fd) => Closing(fd)'
    BY <1>0, <1>1, <2>1, <2>2, <2>3, KeepsClosing
  <2>. QED  BY <1>0, <2>1, <2>3, <2>4, KeepsAnswers DEF Piped
<1>3. CASE TxRespond
  <2>0. /\ tx.obj \in Tied /\ Held(tx.obj)
        /\ txn[tx.obj].sockfd \in Open \ (armed \union rx.batch)
        /\ Receiving => txn[tx.obj].sockfd # rx.fd
        /\ \A o \in Tied : txn[o].sockfd = txn[tx.obj].sockfd => o = tx.obj
    BY <1>3, TxTied DEF TxRespond, Ties, Connections
  <2>1. PICK a \in Tied : a = tx.obj
    BY <2>0
  <2>2. PICK fd \in Open \ (armed \union rx.batch) : fd = txn[a].sockfd
    BY <2>0, <2>1
  <2>3. PICK r \in Request : r = conn[fd]
    BY DEF Open, Shapes, TypeOK, GatewayTypeOK
  <2>4. /\ UNCHANGED <<txn, conn, armed, uses>> /\ tx.pc = "respond"
        /\ answers' = [answers EXCEPT ![r] = @ + 1] /\ tx'.pc # "release"
        /\ a # Forwarded => tx'.obj = a /\ tx'.pc = "close"
    BY <1>3, <2>1, <2>2, <2>3 DEF TxRespond, sharedVars, Shapes, TypeOK, GatewayTypeOK
  <2>5. client[r] # "idle" /\ ~Piped(r, backlog) /\ \A x \in Open : conn[x] = r => x = fd
    BY <2>2, <2>3 DEF Clients
  <2>6. \A x \in Request : answers'[x] = IF x = r THEN 1 ELSE answers[x]
    <3>1. answers \in [Request -> Nat] /\ answers[r] <= 1
      BY DEF Answers, Shapes, TypeOK, GatewayTypeOK
    <3>2. answers[r] # 1
      BY <2>0, <2>1, <2>2, <2>3, <2>4 DEF Answers, Closing
    <3>. QED  BY <2>4, <3>1, <3>2
  <2>7. Tied' = Tied /\ Open' = Open
    BY <1>0, <2>4 DEF Tied, Open
  <2>8. ASSUME NEW x, Closing(x) PROVE Closing(x)'
    BY <1>0, <1>1, <2>4, <2>7, <2>8, KeepsClosing
  <2>9. Closing(fd)'
    <3>1. ASSUME a = Forwarded PROVE ~Held(a)'
      <4>1. Dropped(a) /\ a \in Object
        BY <1>3, <2>1, <3>1, TxRespondEffect DEF Tied
      <4>. QED  BY <4>1 DEF Dropped, Held
    <3>. QED  BY <1>0, <2>0, <2>1, <2>2, <2>4, <2>7, <3>1 DEF Closing
  <2>10. ASSUME NEW x \in Request
         PROVE  /\ answers'[x] <= 1
                /\ answers'[x] = 1 =>
                       /\ client'[x] # "idle" /\ ~Piped(x, backlog)'
                       /\ \A y \in Open' : conn'[y] = x => Closing(y)'
    <3>1. CASE x = r
      BY <1>0, <2>4, <2>5, <2>6, <2>7, <2>9, <3>1 DEF Piped
    <3>2. CASE x # r
      BY <1>0, <2>4, <2>6, <2>7, <2>8, <3>2 DEF Piped, Answers
    <3>. QED  BY <3>1, <3>2
  <2>. QED  BY <2>10 DEF Answers
<1>4. CASE TxClose
  <2>. DEFINE fd == tx.fd
  <2>1. fd \in Open
    BY <1>4, TxTied DEF TxClose, Closes, Ties, Connections
  <2>2. /\ conn' = [conn EXCEPT ![fd] = None] /\ armed' = armed \ {fd} /\ tx.pc = "close"
        /\ UNCHANGED <<txn, uses, answers>> /\ tx'.pc = "release" /\ tx'.obj = tx.obj
    <3>1. conn[tx.fd] # None /\ tx \in TxType
      BY <2>1 DEF Open, Shapes, TypeOK, GatewayTypeOK, TxType
    <3>. QED  BY <1>4, <3>1 DEF TxClose, TxType
  <2>. HIDE DEF fd
  <2>3. Tied' = Tied \ {tx.obj} /\ Open' \subseteq Open /\ \A x \in Open' : conn'[x] = conn[x]
    BY <1>0, <2>2 DEF Tied, Open, Shapes, TypeOK, GatewayTypeOK
  <2>4. \A x : Closing(x) => Closing(x)'
    BY <1>0, <1>1, <2>2, <2>3, KeepsClosing
  <2>. QED  BY <1>0, <2>2, <2>3, <2>4, KeepsAnswers DEF Piped
<1>5. CASE TxRelease
  <2>1. /\ UNCHANGED <<txn, conn, armed, answers>> /\ tx.pc = "release" /\ tx'.pc = "wait"
        /\ uses' = [uses EXCEPT ![tx.obj] = 0]
    BY <1>5 DEF TxRelease, Released, Pool!Give, sharedVars
  <2>2. Tied' \subseteq Tied /\ Open' = Open
    BY <1>0, <2>1 DEF Tied, Open, Shapes, TypeOK, GatewayTypeOK, Pool!TypeOK
  <2>3. \A fd : Closing(fd) => Closing(fd)'
    BY <1>0, <1>1, <2>1, <2>2, KeepsClosing
  <2>. QED  BY <1>0, <2>1, <2>2, <2>3, KeepsAnswers DEF Piped
<1>. QED  BY <1>2, <1>3, <1>4, <1>5 DEF TxStep

LEMMA NfAnswers ==
    ASSUME Shapes, HoldersInv, Answers, ~doubled', NEW f \in Fn, NfStep(f) \/ NfKilled(f),
           UNCHANGED gatewayVars
    PROVE  Answers'
<1>1. UNCHANGED <<client, backlog, conn, answers, uses, rx, tx, armed>>
  BY DEF gatewayVars
<1>2. \A o \in Object : txn'[o].sockfd = txn[o].sockfd
  <2>1. CASE txn' = txn
    BY <2>1
  <2>2. ASSUME NEW w \in Worker(f), NfTx(f, w) PROVE \A o \in Object : txn'[o].sockfd = txn[o].sockfd
    BY <2>2 DEF NfTx, Shapes, TypeOK, SharedTypeOK, Transaction
  <2>. QED  BY <2>1, <2>2
       DEF NfStep, NfRx, NfWorkerRead, NfWorkerWrite, NfKilled, sharedVars
<1>3. Tied' = Tied /\ Open' = Open /\ (Receiving' <=> Receiving) /\ Tied \subseteq Object
  BY <1>1 DEF Tied, Open, Receiving
<1>4. \A o \in Tied : Held(o)' => Held(o)
  <2>0. f \in Proc /\ Worker(f) \subseteq Nat /\ {"in", "work", "out"} \subseteq Kind
    BY Workers DEF Kind
  <2>1. CASE NfKilled(f)
    BY <2>1, NfKilledEffect, NoNewHolders
  <2>2. CASE NfRx(f)
    <3>1. CASE Accepted(f)
      BY <2>2, <3>1, NfRxEffect, HoldsHeld, Workers, NoNewHolders DEF Kind
    <3>2. CASE ~Accepted(f)
      BY <2>2, <3>2, NfRejectEffect, NoNewHolders
    <3>. QED  BY <3>1, <3>2
  <2>3. ASSUME NEW w \in Worker(f), NfWorkerRead(f, w) PROVE \A o \in Tied : Held(o)' => Held(o)
    <3>1. PICK o \in Object : Holds(o, "in", f, w) /\ \E k : Moved(o, k, f, w)
      BY <2>3, NfWorkerReadEffect
    <3>. QED  BY <2>0, <3>1, HoldsHeld, NoNewHolders
  <2>4. ASSUME NEW w \in Worker(f), NfWorkerWrite(f, w) PROVE \A o \in Tied : Held(o)' => Held(o)
    <3>1. PICK o \in Object : Holds(o, "work", f, w) /\ \E k : Moved(o, k, f, w)
      BY <2>4, NfWorkerWriteEffect
    <3>. QED  BY <2>0, <3>1, HoldsHeld, NoNewHolders
  <2>5. ASSUME NEW w \in Worker(f), NfTx(f, w) PROVE \A o \in Tied : Held(o)' => Held(o)
    <3>1. PICK o \in Object :
              /\ Holds(o, "out", f, w)
              /\ (\E q : Moved(o, "signal", q, 0)) \/ Dropped(o) \/ Ended(f)
      BY <2>5, NfTxEffect
    <3>. QED  BY <2>0, <3>1, HoldsHeld, NoNewHolders
  <2>. QED  BY <2>1, <2>2, <2>3, <2>4, <2>5 DEF NfStep
<1>5. \A fd : Closing(fd) => Closing(fd)'
  BY <1>1, <1>2, <1>3, <1>4, KeepsClosing
<1>. QED  BY <1>1, <1>3, <1>5, KeepsAnswers DEF Piped

LEMMA NextAnswers ==
    /\ Shapes /\ HoldersInv /\ Ties /\ Closes /\ Clients /\ Answers
    /\ ~doubled /\ ~doubled' /\ [Next]_vars
    => Answers'
<1>1. CASE UNCHANGED vars /\ Answers
  <2>1. Same
    BY <1>1, Still DEF vars, sharedVars, gatewayVars, nfVars
  <2>2. \A o \in Tied : Held(o)' => Held(o)
    BY <2>1, NoNewHolders
  <2>3. /\ UNCHANGED <<client, backlog, conn, answers, uses, rx, tx, armed, txn>>
        /\ Tied' = Tied /\ Open' = Open /\ (Receiving' <=> Receiving)
    BY <1>1 DEF vars, sharedVars, gatewayVars, Tied, Open, Receiving
  <2>4. \A fd : Closing(fd) => Closing(fd)'
    BY <2>2, <2>3, KeepsClosing
  <2>. QED  BY <1>1, <2>3, <2>4, KeepsAnswers DEF Piped
<1>. QED  BY <1>1, ClientAnswers, RxAnswers, TxAnswers, NfAnswers DEF Next, GatewayNext, NfNext

(* Nobody is answered twice, however requests, closes and new connections  *)
(* on the same descriptor interleave (conn_read's and conn_write's one     *)
(* transaction per readable event).                                        *)
THEOREM NoSecondAnswer == Spec => []AnsweredOnce
<1>1. Answers => AnsweredOnce
  BY DEF Answers, AnsweredOnce
<1>2. doubled => AnsweredOnce
  BY DEF AnsweredOnce
<1>3. Spec => []Clients
  BY InitAnswers, NextClients, Holders, PTL DEF Spec
<1>4. Spec => [](doubled \/ Answers)
  BY <1>3, InitAnswers, NextAnswers, DoubledStays, Holders, Tying, PTL DEF Spec
<1>. QED  BY <1>1, <1>2, <1>4, PTL

-----------------------------------------------------------------------------
(* The hop counters.                                                       *)

(* A transaction in a queue, a pipe or at a worker is at the hop that its  *)
(* counter names.                                                          *)
Hopping ==
    \A o \in Object, k \in Kind \ {"rx", "tx"}, p \in Proc, w \in Nat :
        Holds(o, k, p, w) => HopAt(txn[o].route, txn[o].hop) = p

(* The counter of what RX sends is new, and that of what TX answers has    *)
(* passed the route, unless the gateway ended meanwhile.                   *)
Dispatching ==
    \A o \in Object : alive[0] /\ rx.pc = "dispatch" /\ rx.obj = o => txn[o].hop = 0
Responding ==
    \A o \in Object :
        tx.pc = "respond" /\ tx.obj = o =>
            IF alive[0] THEN txn[o].hop >= Len(Route[txn[o].route]) ELSE ~Held(o)

Progress == Hopping /\ Dispatching /\ Responding

LEMMA InitProgress == Init => Progress
<1>. SUFFICES ASSUME Init PROVE Progress
  OBVIOUS
<1>1. /\ rx.pc = "poll" /\ tx.pc = "wait" /\ \A p \in Proc : signals[p] = <<>>
      /\ \A f \in Fn : \A w \in Worker(f) :
             inPipe[f][w] = <<>> /\ work[f][w] = None /\ outPipe[f][w] = <<>>
  BY DEF Init, SharedInit, GatewayInit, NfInit
<1>2. ASSUME NEW o \in Object, NEW k \in Kind \ {"rx", "tx"}, NEW p \in Proc, NEW w \in Nat
      PROVE  ~Holds(o, k, p, w)
  <2>1. ~Signalled(o, signals[p])
    BY <1>1 DEF Signalled
  <2>2. ASSUME p \in Fn, w \in Worker(p)
        PROVE  ~Piped(o, inPipe[p][w]) /\ work[p][w] # o /\ ~Piped(o, outPipe[p][w])
    BY <1>1, <2>2, SharedRegionAssumption DEF Piped
  <2>. QED  BY <2>1, <2>2 DEF Holds, Named, Kind
<1>. QED  BY <1>1, <1>2 DEF Progress, Hopping, Dispatching, Responding

SameHop(o) == txn'[o].route = txn[o].route /\ txn'[o].hop = txn[o].hop

(* Only the hop of the object that moves matters.                          *)
LEMMA KeepsHopping ==
    ASSUME Hopping, NEW x, \A o \in Object \ {x} : SameHop(o),
           \/ \E c, q, v : /\ Moved(x, c, q, v)
                           /\ c \in {"rx", "tx"} \/ HopAt(txn'[x].route, txn'[x].hop) = q
           \/ /\ Same \/ Dropped(x) \/ \E q : Ended(q)
              /\ \/ SameHop(x)
                 \/ \A k \in Kind \ {"rx", "tx"}, p \in Proc, w \in Nat : ~Holds(x, k, p, w)'
    PROVE  Hopping'
<1>. SUFFICES ASSUME NEW o \in Object, NEW k \in Kind \ {"rx", "tx"}, NEW p \in Proc, NEW w \in Nat,
                     Holds(o, k, p, w)'
              PROVE  HopAt(txn'[o].route, txn'[o].hop) = p
  BY DEF Hopping, HopAt
<1>1. CASE Holds(o, k, p, w) /\ SameHop(o)
  BY <1>1 DEF Hopping, SameHop
<1>2. CASE /\ Same \/ Dropped(x) \/ \E q : Ended(q)
           /\ \/ SameHop(x)
              \/ \A k1 \in Kind \ {"rx", "tx"}, p1 \in Proc, w1 \in Nat : ~Holds(x, k1, p1, w1)'
  BY <1>1, <1>2 DEF Same, Dropped, Ended
<1>3. ASSUME NEW c, NEW q, NEW v, Moved(x, c, q, v),
             c \in {"rx", "tx"} \/ HopAt(txn'[x].route, txn'[x].hop) = q
      PROVE  HopAt(txn'[o].route, txn'[o].hop) = p
  BY <1>1, <1>3 DEF Moved
<1>. QED  BY <1>2, <1>3

(* What the two threads have stays what it was while others move.          *)
LEMMA KeepsThreads ==
    ASSUME HoldersInv, Dispatching, Responding, rx' = rx, tx' = tx, alive'[0] => alive[0],
           \A o \in Object : Holds(o, "rx", 0, 0) \/ Holds(o, "tx", 0, 0) => SameHop(o),
           \A o \in Object : Holds(o, "tx", 0, 0) => Holds(o, "tx", 0, 0)' \/ ~Held(o)',
           ~alive[0] => \A o \in Object : Held(o)' => Held(o)
    PROVE  Dispatching' /\ Responding'
<1>1. ASSUME NEW o \in Object, alive'[0], rx.pc = "dispatch", rx.obj = o PROVE txn'[o].hop = 0
  BY <1>1, RxHolds DEF Dispatching, SameHop
<1>2. ASSUME NEW o \in Object, tx.pc = "respond", tx.obj = o, alive'[0]
      PROVE  txn'[o].hop >= Len(Route[txn'[o].route])
  BY <1>2, TxHolds DEF Responding, SameHop
<1>3. ASSUME NEW o \in Object, tx.pc = "respond", tx.obj = o, ~alive'[0]
      PROVE  ~Held(o)'
  <2>1. CASE alive[0]
    BY <1>3, <2>1, TxHolds DEF Holds
  <2>2. CASE ~alive[0]
    BY <1>3, <2>2 DEF Responding
  <2>. QED  BY <2>1, <2>2
<1>. QED  BY <1>1, <1>2, <1>3 DEF Dispatching, Responding

LEMMA ClientProgress ==
    ASSUME HoldersInv, Progress, NEW r \in Request, ClientStep(r), UNCHANGED nfVars
    PROVE  Progress'
<1>1. Same /\ UNCHANGED <<rx, tx, alive, txn>>
  BY ClientEffect DEF ClientStep, Connect, Send, Leave, sharedVars
<1>2. Hopping'
  BY <1>1, KeepsHopping DEF Progress, SameHop
<1>3. Dispatching' /\ Responding'
  BY <1>1, KeepsThreads DEF Progress, SameHop, Same, Held, Kind, Proc
<1>. QED  BY <1>2, <1>3 DEF Progress

LEMMA RxProgress ==
    ASSUME Shapes, HoldersInv, Progress, ~doubled, ~doubled', RxStep, UNCHANGED nfVars
    PROVE  Progress'
<1>0. tx' = tx /\ alive[0] /\ 0 \in Proc /\ {"rx", "tx", "signal"} \subseteq Kind
  BY DEF RxStep, RxPoll, RxAccept, RxAcceptError, RxAcceptRefused, RxAllocate, RxRefused, RxOverrun,
         RxReceive, RxReceiveError, RxDispatch, Proc, Kind
<1>1. CASE RxPoll \/ RxAccept \/ RxStops
  <2>1. Same /\ UNCHANGED <<alive, txn>> /\ rx'.pc # "dispatch"
    BY <1>1, RxStillEffect, RxStopsEffect
    DEF RxPoll, RxAccept, sharedVars, Shapes, TypeOK, GatewayTypeOK
  <2>2. Hopping'
    BY <2>1, KeepsHopping DEF Progress, SameHop
  <2>3. Dispatching' /\ Responding'
    BY <1>0, <2>1 DEF Progress, Dispatching, Responding
  <2>. QED  BY <2>2, <2>3 DEF Progress
<1>2. ASSUME NEW fd \in Fd, RxAllocate(fd) PROVE Progress'
  <2>1. PICK x \in Object : Moved(x, "rx", 0, 0)
    BY <1>2, RxAllocateEffect DEF HoldersInv
  <2>2. UNCHANGED <<alive, txn>> /\ rx'.pc = "receive"
    BY <1>2 DEF RxAllocate, Reads, sharedVars
  <2>3. Hopping'
    BY <2>1, <2>2, KeepsHopping DEF Progress, SameHop
  <2>4. Dispatching' /\ Responding'
    BY <1>0, <2>2 DEF Progress, Dispatching, Responding
  <2>. QED  BY <2>3, <2>4 DEF Progress
<1>3. CASE RxReceive
  <2>. DEFINE q == Received(conn[rx.fd], txn[rx.obj].request)
  <2>1. PICK x \in Object : x = rx.obj
    BY <1>3 DEF RxReceive, Shapes, Threads
  <2>2. /\ alive' = alive /\ rx'.pc = "dispatch" /\ rx'.obj = x /\ rx.pc = "receive"
        /\ txn' = [txn EXCEPT ![x] =
                      [request |-> q, sockfd |-> rx.fd, route |-> ParsedRoute(q), hop |-> 0]]
    BY <1>3, <2>1 DEF RxReceive, Shapes, TypeOK, GatewayTypeOK
  <2>. HIDE DEF q
  <2>3. txn'[x].hop = 0 /\ \A o \in Object \ {x} : txn'[o] = txn[o]
    BY <2>2 DEF Shapes, TypeOK, SharedTypeOK
  <2>4. Same
    BY <1>3, RxStillEffect
  <2>5. \A k \in Kind, p \in Proc, w \in Nat : Holds(x, k, p, w) => k = "rx"
    BY <1>0, <2>1, <2>2, RxHolds, 0 \in Nat DEF HoldersInv, HeldOnce
  <2>6. Hopping'
    <3>1. \A k \in Kind \ {"rx", "tx"}, p \in Proc, w \in Nat : ~Holds(x, k, p, w)'
      BY <2>4, <2>5 DEF Same
    <3>. QED  BY <2>3, <2>4, <3>1, KeepsHopping DEF Progress, SameHop
  <2>7. Dispatching'
    BY <2>2, <2>3 DEF Dispatching
  <2>8. \A o \in Object : tx.pc = "respond" /\ tx.obj = o => o # x
    BY <1>0, <2>5, TxHolds, 0 \in Nat
  <2>9. Responding'
    BY <1>0, <2>2, <2>3, <2>8 DEF Progress, Responding
  <2>. QED  BY <2>6, <2>7, <2>9 DEF Progress
<1>4. CASE RxReceiveError
  <2>1. PICK x \in Object : Dropped(x)
    BY <1>4, RxReceiveErrorEffect DEF HoldersInv
  <2>2. UNCHANGED <<alive, txn>> /\ rx'.pc = "ended"
    BY <1>4 DEF RxReceiveError, sharedVars, Shapes, TypeOK, GatewayTypeOK
  <2>3. Hopping'
    BY <2>1, <2>2, KeepsHopping DEF Progress, SameHop
  <2>4. Dispatching' /\ Responding'
    BY <1>0, <2>2 DEF Progress, Dispatching, Responding
  <2>. QED  BY <2>3, <2>4 DEF Progress
<1>5. CASE RxDispatch
  <2>1. PICK x \in Object : x = rx.obj
    BY <1>5 DEF RxDispatch, Shapes, Threads
  <2>2. /\ txn' = txn /\ rx.pc = "dispatch" /\ rx'.pc = "poll"
        /\ HopAt(txn[x].route, txn[x].hop) = HopAt(txn[rx.obj].route, 0)
    BY <1>0, <1>5, <2>1 DEF RxDispatch, Shapes, TypeOK, GatewayTypeOK, Progress, Dispatching
  <2>3. Moved(x, "signal", HopAt(txn[x].route, txn[x].hop), 0) \/ Dropped(x) \/ Ended(0)
    BY <1>5, <2>1, <2>2, RxDispatchEffect
  <2>4. Hopping'
    BY <2>2, <2>3, KeepsHopping DEF Progress, SameHop
  <2>5. Dispatching'
    BY <2>2 DEF Dispatching
  <2>6. ASSUME NEW o \in Object, tx.pc = "respond", tx.obj = o
        PROVE  IF alive'[0] THEN txn'[o].hop >= Len(Route[txn'[o].route]) ELSE ~Held(o)'
    <3>1. Holds(o, "tx", 0, 0) /\ Holds(x, "rx", 0, 0)
      BY <1>0, <2>1, <2>2, <2>6, RxHolds, TxHolds
    <3>2. o # x /\ \A k \in Kind, p \in Proc, w \in Nat : Holds(o, k, p, w) => p = 0
      BY <1>0, <3>1, 0 \in Nat DEF HoldersInv, HeldOnce
    <3>3. Holds(o, "tx", 0, 0)' \/ ~Held(o)'
      BY <1>0, <2>3, <3>1, <3>2, 0 \in Nat DEF Moved, Dropped, Ended, Held
    <3>. QED  BY <1>0, <2>2, <2>6, <3>3 DEF Progress, Responding, Holds
  <2>7. Responding'
    BY <1>0, <2>6 DEF Responding
  <2>. QED  BY <2>4, <2>5, <2>7 DEF Progress
<1>6. ~(\E fd \in Fd : RxOverrun(fd))
  BY DEF RxOverrun
<1>. QED  BY <1>1, <1>2, <1>3, <1>4, <1>5, <1>6 DEF RxStep, RxStops

LEMMA TxProgress ==
    ASSUME Shapes, HoldersInv, Progress, ~doubled, TxStep, UNCHANGED nfVars
    PROVE  Progress'
<1>0. rx' = rx /\ alive[0] /\ 0 \in Proc /\ {"rx", "tx", "signal"} \subseteq Kind
  BY DEF TxStep, TxWait, TxForward, TxRespond, TxRespondError, TxClose, TxRelease, CanWait, Proc, Kind
<1>1. CASE TxWait /\ Accepted(0)
  <2>1. PICK x \in Object : /\ x = Awaited(0, None) /\ x = tx'.obj /\ Moved(x, "tx", 0, 0)
                            /\ Holds(x, "signal", 0, 0)
    BY <1>1, TxWaitEffect
  <2>2. /\ alive' = alive /\ txn' = [txn EXCEPT ![x].hop = NextHopCount(txn[x].hop)]
        /\ tx'.pc = IF NextHopCount(txn[x].hop) < Len(Route[txn[x].route])
                    THEN "forward" ELSE "respond"
    BY <1>1, <2>1, SharedRegionAssumption DEF TxWait, Consume
  <2>3. /\ txn'[x].route = txn[x].route /\ txn'[x].hop = NextHopCount(txn[x].hop)
        /\ \A o \in Object \ {x} : txn'[o] = txn[o]
    BY <2>2 DEF Shapes, TypeOK, SharedTypeOK, Transaction
  <2>4. Hopping'
    BY <2>1, <2>3, KeepsHopping DEF Progress, SameHop
  <2>5. ASSUME rx.pc = "dispatch" PROVE rx.obj # x
    BY <1>0, <2>1, <2>5, RxHolds, 0 \in Nat DEF HoldersInv, HeldOnce
  <2>6. Dispatching'
    BY <1>0, <2>3, <2>5 DEF Progress, Dispatching
  <2>7. NextHopCount(txn[x].hop) \in Nat /\ Len(Route[txn[x].route]) \in Nat
    BY SharedRegionAssumption DEF NextHopCount, Shapes, TypeOK, SharedTypeOK, Transaction
  <2>8. Responding'
    BY <1>0, <2>1, <2>2, <2>3, <2>7 DEF Responding
  <2>. QED  BY <2>4, <2>6, <2>8 DEF Progress
<1>2. CASE TxForward
  <2>1. PICK x \in Object : x = tx.obj
    BY <1>2 DEF TxForward, Shapes, Threads
  <2>2. txn' = txn /\ tx'.pc = "wait" /\ tx.pc = "forward"
    BY <1>2 DEF TxForward
  <2>3. Moved(x, "signal", HopAt(txn[x].route, txn[x].hop), 0) \/ Dropped(x) \/ Ended(0)
    BY <1>2, <2>1, TxForwardEffect
  <2>4. Hopping'
    BY <2>2, <2>3, KeepsHopping DEF Progress, SameHop
  <2>5. Dispatching' /\ Responding'
    BY <1>0, <2>2 DEF Progress, Dispatching, Responding
  <2>. QED  BY <2>4, <2>5 DEF Progress
<1>3. CASE TxRespond \/ TxRespondError \/ TxRelease
  <2>0. tx \in TxType
    BY DEF Shapes, TypeOK, GatewayTypeOK, TxType
  <2>1. txn' = txn /\ alive' = alive /\ tx'.pc # "respond"
    <3>1. CASE TxRespond
      BY <2>0, <3>1 DEF TxRespond, sharedVars, TxType
    <3>2. CASE TxRespondError \/ TxRelease
      BY <2>0, <3>2 DEF TxRespondError, TxRelease, sharedVars, TxType
    <3>. QED  BY <1>3, <3>1, <3>2
  <2>2. PICK x \in Object : Same \/ Dropped(x)
    <3>1. tx.obj \in Object
      BY <1>3 DEF TxRespond, TxRespondError, TxRelease, Shapes, Threads
    <3>. QED  BY <1>3, <3>1, TxRespondEffect, TxRespondErrorEffect, TxReleaseEffect
  <2>3. Hopping'
    BY <2>1, <2>2, KeepsHopping DEF Progress, SameHop
  <2>4. Dispatching' /\ Responding'
    BY <1>0, <2>1 DEF Progress, Dispatching, Responding
  <2>. QED  BY <2>3, <2>4 DEF Progress
<1>4. CASE TxClose
  <2>1. /\ txn' = txn /\ tx'.pc # "respond"
        /\ alive'[0] => alive[0]
    BY <1>0, <1>4 DEF TxClose, Shapes, TypeOK, GatewayTypeOK
  <2>2. Same \/ Ended(0)
    BY <1>4, TxCloseEffect
  <2>3. Hopping'
    BY <2>1, <2>2, KeepsHopping DEF Progress, SameHop
  <2>4. Dispatching' /\ Responding'
    BY <1>0, <2>1 DEF Progress, Dispatching, Responding
  <2>. QED  BY <2>3, <2>4 DEF Progress
<1>5. CASE TxWait /\ ~Accepted(0)
  <2>1. /\ Dropped(Oldest(0)) /\ tx'.pc = "ended" /\ txn' = txn /\ alive' = alive
        /\ Oldest(0) \in Object
    BY <1>5, TxRejectEffect DEF TxWait, Consume
  <2>2. Hopping'
    BY <2>1, KeepsHopping DEF Progress, SameHop
  <2>3. Dispatching' /\ Responding'
    BY <1>0, <2>1 DEF Progress, Dispatching, Responding
  <2>. QED  BY <2>2, <2>3 DEF Progress
<1>. QED  BY <1>1, <1>2, <1>3, <1>4, <1>5 DEF TxStep

LEMMA NfProgress ==
    ASSUME Shapes, HoldersInv, Progress, ~doubled', NEW f \in Fn, NfStep(f) \/ NfKilled(f),
           UNCHANGED gatewayVars
    PROVE  Progress'
<1>0. /\ rx' = rx /\ tx' = tx /\ f \in Proc /\ f # 0 /\ 0 \in Proc /\ 0 \in Nat
      /\ Worker(f) \subseteq Nat /\ {"rx", "tx", "signal", "in", "work", "out"} = Kind
  BY Workers DEF gatewayVars, Kind
<1>1. alive'[0] => alive[0]
  BY <1>0 DEF NfStep, NfKilled, NfRx, NfWorkerRead, NfWorkerWrite, NfTx, Consume, TransferOwnership,
         Exit, sharedVars, Shapes, TypeOK, SharedTypeOK
<1>. DEFINE Hop(x) == HopAt(txn[x].route, txn[x].hop)
(* What one step does: x leaves a place of f, and nothing else moves. *)
<1>2. ASSUME NEW x \in Object, NEW k \in Kind \ {"rx", "tx"}, NEW w \in Nat, Holds(x, k, f, w),
             \A o \in Object \ {x} : SameHop(o),
             \/ \E c, q, v : Moved(x, c, q, v) /\ HopAt(txn'[x].route, txn'[x].hop) = q
             \/ Dropped(x) \/ Ended(f)
      PROVE  Progress'
  <2>1. \A c \in Kind, p \in Proc, v \in Nat : Holds(x, c, p, v) => c = k /\ p = f /\ v = w
    BY <1>0, <1>2 DEF HoldersInv, HeldOnce
  <2>2. Hopping'
    <3>1. Dropped(x) \/ Ended(f) =>
              \A c \in Kind \ {"rx", "tx"}, p \in Proc, v \in Nat : ~Holds(x, c, p, v)'
      BY <2>1 DEF Dropped, Ended
    <3>. QED  BY <1>2, <3>1, KeepsHopping DEF Progress
  <2>3. \A o \in Object : Holds(o, "rx", 0, 0) \/ Holds(o, "tx", 0, 0) => o # x
    BY <1>0, <2>1
  <2>4. \A o \in Object : Holds(o, "tx", 0, 0) => Holds(o, "tx", 0, 0)'
    BY <1>0, <1>2, <2>3 DEF Moved, Dropped, Ended
  <2>5. \A o \in Object : Held(o)' => Held(o)
    <3>. SUFFICES ASSUME NEW o \in Object, Held(o)', o # x PROVE Held(o)
      BY <1>0, <1>2, HoldsHeld
    <3>. QED  BY <1>2 DEF Held, Moved, Dropped, Ended
  <2>6. Dispatching' /\ Responding'
    BY <1>0, <1>1, <1>2, <2>3, <2>4, <2>5, KeepsThreads DEF Progress
  <2>. QED  BY <2>2, <2>6 DEF Progress
<1>3. CASE NfRx(f) /\ Accepted(f)
  <2>1. PICK x \in Object : Holds(x, "signal", f, 0) /\ Moved(x, "in", f, turn[f])
    BY <1>3, NfRxEffect
  <2>2. txn' = txn
    BY <1>3 DEF NfRx
  <2>3. HopAt(txn'[x].route, txn'[x].hop) = f
    BY <1>0, <2>1, <2>2 DEF Progress, Hopping
  <2>. QED  BY <1>0, <1>2, <2>1, <2>2, <2>3 DEF SameHop
<1>4. ASSUME NEW w \in Worker(f), NfWorkerRead(f, w) PROVE Progress'
  <2>1. PICK x \in Object : Holds(x, "in", f, w) /\ Moved(x, "work", f, w)
    BY <1>4, NfWorkerReadEffect
  <2>2. txn' = txn
    BY <1>4 DEF NfWorkerRead, sharedVars
  <2>3. HopAt(txn'[x].route, txn'[x].hop) = f
    BY <1>0, <2>1, <2>2 DEF Progress, Hopping
  <2>. QED  BY <1>0, <1>2, <2>1, <2>2, <2>3 DEF SameHop
<1>5. ASSUME NEW w \in Worker(f), NfWorkerWrite(f, w) PROVE Progress'
  <2>1. PICK x \in Object : Holds(x, "work", f, w) /\ Moved(x, "out", f, w)
    BY <1>5, NfWorkerWriteEffect
  <2>2. txn' = txn
    BY <1>5 DEF NfWorkerWrite, sharedVars
  <2>3. HopAt(txn'[x].route, txn'[x].hop) = f
    BY <1>0, <2>1, <2>2 DEF Progress, Hopping
  <2>. QED  BY <1>0, <1>2, <2>1, <2>2, <2>3 DEF SameHop
<1>6. ASSUME NEW w \in Worker(f), NfTx(f, w) PROVE Progress'
  <2>1. PICK x \in Object :
            /\ Holds(x, "out", f, w)
            /\ Moved(x, "signal", NextHop(txn[x].route, txn[x].hop), 0) \/ Dropped(x) \/ Ended(f)
            /\ txn' = [txn EXCEPT ![x].hop = @ + 1]
    BY <1>6, NfTxEffect
  <2>2. /\ txn'[x].route = txn[x].route /\ txn'[x].hop = txn[x].hop + 1
        /\ \A o \in Object \ {x} : txn'[o] = txn[o]
    BY <2>1 DEF Shapes, TypeOK, SharedTypeOK, Transaction
  <2>3. HopAt(txn'[x].route, txn'[x].hop) = NextHop(txn[x].route, txn[x].hop)
    BY <2>2 DEF NextHop
  <2>. QED  BY <1>0, <1>2, <2>1, <2>2, <2>3 DEF SameHop
<1>7. CASE NfKilled(f)
  <2>1. Ended(f) /\ txn' = txn
    BY <1>7, NfKilledEffect DEF NfKilled
  <2>2. Hopping'
    BY <2>1, KeepsHopping DEF Progress, SameHop
  <2>3. Dispatching' /\ Responding'
    BY <1>0, <1>1, <2>1, KeepsThreads DEF Progress, SameHop, Ended, Held
  <2>. QED  BY <2>2, <2>3 DEF Progress
<1>8. CASE NfRx(f) /\ ~Accepted(f)
  <2>1. /\ Oldest(f) \in Object /\ Dropped(Oldest(f)) /\ txn' = txn
        /\ Holds(Oldest(f), "signal", f, 0)
    BY <1>0, <1>8, NfRejectEffect, ConsumeEffect DEF NfRx, Shapes, TypeOK, HoldersInv
  <2>. QED  BY <1>0, <1>2, <2>1 DEF SameHop
<1>. QED  BY <1>3, <1>4, <1>5, <1>6, <1>7, <1>8 DEF NfStep

LEMMA NextProgress ==
    Shapes /\ HoldersInv /\ Progress /\ ~doubled /\ ~doubled' /\ [Next]_vars => Progress'
<1>1. CASE HoldersInv /\ Progress /\ UNCHANGED vars
  <2>1. Same /\ UNCHANGED <<rx, tx, alive, txn>>
    BY <1>1, Still DEF vars, sharedVars, gatewayVars, nfVars
  <2>2. Hopping'
    BY <1>1, <2>1, KeepsHopping DEF Progress, SameHop
  <2>3. Dispatching' /\ Responding'
    BY <1>1, <2>1, KeepsThreads DEF Progress, SameHop, Same, Held, Kind, Proc
  <2>. QED  BY <2>2, <2>3 DEF Progress
<1>. QED  BY <1>1, ClientProgress, RxProgress, TxProgress, NfProgress DEF Next, GatewayNext, NfNext

(* A transaction is where its hop counter says, and the gateway answers    *)
(* only what has passed its whole route: for any routes, of any length and *)
(* with the gateway or one function in them as often as one likes          *)
(* (conn_read, conn_write and nf_tx each move the counter on their own).   *)
THEOREM WhereItsHopSays == Spec => []AtItsHop
<1>1. ASSUME Shapes, HoldersInv, Progress PROVE AtItsHop
  <2>. SUFFICES ASSUME NEW o \in InFlight
                PROVE  /\ \A p \in Proc : PlacesIn(o, p) # {} =>
                              \/ HopAt(txn[o].route, txn[o].hop) = p
                              \/ p = 0 /\ o \in {rx.obj, tx.obj}
                       /\ tx.obj = o /\ tx.pc = "respond" => txn[o].hop >= Len(Route[txn[o].route])
    BY DEF AtItsHop
  <2>1. o \in Object /\ Held(o)
    BY <1>1, PlacesAreHolders DEF InFlight, Pool!InUse
  <2>2. ASSUME NEW p \in Proc, PlacesIn(o, p) # {}
        PROVE  HopAt(txn[o].route, txn[o].hop) = p \/ (p = 0 /\ o \in {rx.obj, tx.obj})
    <3>1. PICK k \in Kind, w \in Nat : Holds(o, k, p, w)
      BY <1>1, <2>1, <2>2, PlacesAreHolders
    <3>2. CASE k \in {"rx", "tx"}
      BY <3>1, <3>2, SharedRegionAssumption DEF Holds, Named
    <3>3. CASE k \notin {"rx", "tx"}
      BY <1>1, <2>1, <3>1, <3>3 DEF Progress, Hopping
    <3>. QED  BY <3>2, <3>3
  <2>3. tx.obj = o /\ tx.pc = "respond" => txn[o].hop >= Len(Route[txn[o].route])
    BY <1>1, <2>1 DEF Progress, Responding
  <2>. QED  BY <2>2, <2>3
<1>2. Shapes /\ HoldersInv /\ Progress => AtItsHop
  BY <1>1
<1>3. doubled => AtItsHop
  BY DEF AtItsHop
<1>. QED  BY <1>2, <1>3, InitProgress, NextProgress, DoubledStays, Holders, PTL DEF Spec

-----------------------------------------------------------------------------
(* Nothing is lost while nothing fails.                                    *)

(* No client resets its connection, no function is killed, everybody is in *)
(* everybody's table, and no limit of the kernel is met.                   *)
Faultless ==
    Flaky = {} /\ Mortal = {} /\ ~Limited /\ \A p \in Proc : Known[p] = Proc

InHand == \A o \in Object \ {Forwarded} : uses[o] # 0 => Held(o)

Kept ==
    /\ \A p \in Proc : alive[p]
    /\ tx.pc # "ended"
    /\ InHand

LEMMA InitKept == Init => Kept
BY DEF Init, SharedInit, GatewayInit, Pool!Init, Kept, InHand

LEMMA KeepsInHand ==
    ASSUME InHand, uses' = uses,
           \/ Same
           \/ \E x \in Object, c \in Kind, q \in Proc, v \in Nat : Moved(x, c, q, v)
    PROVE  InHand'
<1>. SUFFICES ASSUME NEW o \in Object, Held(o) PROVE Held(o)'
  BY DEF InHand
<1>1. PICK k \in Kind, p \in Proc, w \in Nat : Holds(o, k, p, w)
  BY DEF Held
<1>2. CASE Same
  BY <1>1, <1>2 DEF Same, Held
<1>3. ASSUME NEW x \in Object, NEW c \in Kind, NEW q \in Proc, NEW v \in Nat, Moved(x, c, q, v)
      PROVE  Held(o)'
  BY <1>1, <1>3 DEF Moved, Held
<1>. QED  BY <1>2, <1>3

LEMMA AllAccepted ==
    ASSUME Faultless, Shapes, NEW p \in Proc, CanWait(p)
    PROVE  Accepted(p)
<1>1. signals[p] \in Seq(Signal) /\ signals[p] # <<>>
  BY DEF CanWait, Shapes, TypeOK, SharedTypeOK
<1>2. Head(signals[p]) \in Signal
  BY <1>1
<1>. QED  BY <1>2 DEF Accepted, Faultless, Signal

(* transfer_ownership, when the receiver is known and alive.               *)
LEMMA Delivered ==
    ASSUME Faultless, Shapes, HoldersInv, Kept,
           NEW p \in Proc, NEW q \in Proc, NEW o \in Object,
           NEW c \in Kind \ {"signal"}, NEW v \in Nat,
           Holds(o, c, p, v), TransferOwnership(p, o, q),
           Moved(o, "signal", q, 0) \/ Dropped(o) \/ Ended(p)
    PROVE  Moved(o, "signal", q, 0) /\ alive' = alive
<1>. DEFINE m == [addr |-> o, from |-> p]
<1>1. /\ alive' = alive /\ signals' = [signals EXCEPT ![q] = Append(@, m)]
      /\ signals[q] \in Seq(Signal) /\ m \in Signal /\ m.addr = o
  BY DEF Faultless, Kept, TransferOwnership, Shapes, TypeOK, SharedTypeOK, Signal
<1>2. Signalled(o, signals'[q])
  <2>1. Signalled(o, Append(signals[q], m))
    BY <1>1, AppendSignalled
  <2>. QED  BY <1>1, <2>1 DEF Shapes, TypeOK, SharedTypeOK
<1>3. Holds(o, "signal", q, 0)' /\ "signal" \in Kind /\ 0 \in Nat
  BY <1>1, <1>2 DEF Holds, Named, Kind, Kept, Signalled
<1>4. ~Holds(o, "signal", q, 0)
  BY <1>3 DEF HoldersInv, HeldOnce
<1>. QED  BY <1>1, <1>3, <1>4 DEF Dropped, Ended

LEMMA RxKept ==
    ASSUME Faultless, Shapes, HoldersInv, Ties, Kept, ~doubled, ~doubled', RxStep, UNCHANGED nfVars
    PROVE  Kept'
<1>0. tx' = tx /\ 0 \in Proc /\ 0 \in Nat /\ {"rx", "tx", "signal"} \subseteq Kind
  BY DEF RxStep, RxPoll, RxAccept, RxAcceptError, RxAcceptRefused, RxAllocate, RxRefused, RxOverrun,
         RxReceive, RxReceiveError, RxDispatch, Proc, Kind
<1>1. CASE RxPoll \/ RxAccept \/ RxStops \/ RxReceive
  <2>1. Same /\ uses' = uses /\ alive' = alive
    BY <1>1, RxStillEffect, RxStopsEffect DEF RxPoll, RxAccept, RxReceive, sharedVars
  <2>. QED  BY <1>0, <2>1, KeepsInHand DEF Kept
<1>2. ASSUME NEW fd \in Fd, RxAllocate(fd) PROVE Kept'
  <2>0. PICK x \in Object :
            /\ uses' = [uses EXCEPT ![x] = 1]
            /\ rx' = [pc |-> "receive", batch |-> rx.batch \ {fd}, fd |-> fd, obj |-> x]
    BY <1>2 DEF RxAllocate, Allocated, Reads, Pool!Take
  <2>1. uses' = [uses EXCEPT ![x] = 1] /\ x = rx'.obj
    BY <2>0
  <2>2. Moved(x, "rx", 0, 0) /\ alive' = alive
    BY <1>2, <2>1, RxAllocateEffect DEF HoldersInv, RxAllocate, sharedVars
  <2>3. \A o \in Object : Held(o) \/ o = x => Held(o)'
    BY <1>0, <2>2 DEF Held, Moved
  <2>4. InHand'
    BY <2>1, <2>3 DEF InHand, Kept, Shapes, TypeOK, GatewayTypeOK, Pool!TypeOK
  <2>. QED  BY <1>0, <2>2, <2>4 DEF Kept
<1>3. ~RxReceiveError
  <2>1. SUFFICES ASSUME RxReceiveError PROVE FALSE
    OBVIOUS
  <2>2. Receiving
    BY <2>1, SharedRegionAssumption DEF RxReceiveError, Receiving, Shapes, Threads
  <2>. QED  BY <2>1, <2>2 DEF RxReceiveError, Receivable, Ties, Connections, Open, Faultless
<1>4. CASE RxDispatch
  <2>1. PICK x \in Object : x = rx.obj
    BY <1>4 DEF RxDispatch, Shapes, Threads
  <2>2. PICK q \in Proc : q = HopAt(txn[rx.obj].route, 0)
    BY <2>1, Hops DEF Shapes, TypeOK, SharedTypeOK, Transaction
  <2>3. /\ TransferOwnership(0, x, q) /\ uses' = uses /\ Holds(x, "rx", 0, 0)
    BY <1>0, <1>4, <2>1, <2>2, RxHolds DEF RxDispatch
  <2>4. Moved(x, "signal", q, 0) \/ Dropped(x) \/ Ended(0)
    BY <1>4, <2>1, <2>2, RxDispatchEffect
  <2>5. Moved(x, "signal", q, 0) /\ alive' = alive
    BY <1>0, <2>3, <2>4, Delivered
  <2>. QED  BY <1>0, <2>3, <2>5, KeepsInHand DEF Kept
<1>5. ~(\E fd \in Fd : RxOverrun(fd))
  BY DEF RxOverrun
<1>. QED  BY <1>1, <1>2, <1>3, <1>4, <1>5 DEF RxStep, RxStops

LEMMA TxKept ==
    ASSUME Faultless, Shapes, HoldersInv, Ties, Closes, Kept, ~doubled, TxStep, UNCHANGED nfVars
    PROVE  Kept'
<1>0. 0 \in Proc /\ 0 \in Nat /\ {"rx", "tx", "signal"} \subseteq Kind
  BY DEF Proc, Kind
<1>1. CASE TxWait
  <2>1. PICK x \in Object : x = tx'.obj /\ x = Awaited(0, None) /\ Moved(x, "tx", 0, 0)
    BY <1>0, <1>1, AllAccepted, TxWaitEffect DEF TxWait
  <2>2. tx'.pc # "ended" /\ uses' = uses /\ alive' = alive
    BY <1>1, <2>1, SharedRegionAssumption DEF TxWait, Consume
  <2>. QED  BY <1>0, <2>1, <2>2, KeepsInHand DEF Kept
<1>2. CASE TxForward
  <2>1. PICK x \in Object : x = tx.obj
    BY <1>2 DEF TxForward, Shapes, Threads
  <2>2. PICK q \in Proc : q = HopAt(txn[tx.obj].route, txn[tx.obj].hop)
    BY <2>1, Hops DEF Shapes, TypeOK, SharedTypeOK, Transaction
  <2>3. /\ TransferOwnership(0, x, q) /\ uses' = uses /\ Holds(x, "tx", 0, 0) /\ tx'.pc = "wait"
    BY <1>0, <1>2, <2>1, <2>2, TxHolds DEF TxForward
  <2>4. Moved(x, "signal", q, 0) \/ Dropped(x) \/ Ended(0)
    BY <1>2, <2>1, <2>2, TxForwardEffect
  <2>5. Moved(x, "signal", q, 0) /\ alive' = alive
    BY <1>0, <2>3, <2>4, Delivered
  <2>. QED  BY <1>0, <2>3, <2>5, KeepsInHand DEF Kept
<1>3. CASE TxRespond
  <2>1. uses' = uses /\ alive' = alive /\ tx'.pc # "ended"
    BY <1>3 DEF TxRespond, sharedVars, Shapes, TypeOK, GatewayTypeOK
  <2>2. CASE Same
    BY <2>1, <2>2, KeepsInHand DEF Kept
  <2>3. CASE tx.obj = Forwarded /\ Dropped(tx.obj)
    <3>1. Dropped(Forwarded)
      BY <2>3
    <3>2. InHand'
      BY <2>1, <3>1 DEF Kept, InHand, Dropped, Held
    <3>. QED  BY <2>1, <3>2 DEF Kept
  <2>. QED  BY <1>3, <2>2, <2>3, TxRespondEffect
<1>4. ~TxRespondError
  <2>1. SUFFICES ASSUME TxRespondError PROVE FALSE
    OBVIOUS
  <2>2. tx.obj \in Tied
    BY <2>1, TxTied DEF TxRespondError
  <2>. QED  BY <2>1, <2>2 DEF TxRespondError, Writable, Ties, Connections, Open, Faultless
<1>5. CASE TxClose
  <2>1. conn[tx.fd] # None
    BY <1>5, TxTied DEF TxClose, Closes, Ties, Connections, Open
  <2>2. Same /\ uses' = uses /\ alive' = alive /\ tx'.pc # "ended"
    BY <1>5, <2>1, TxCloseEffect DEF TxClose, Shapes, TypeOK, GatewayTypeOK
  <2>. QED  BY <2>2, KeepsInHand DEF Kept
<1>6. CASE TxRelease
  <2>1. PICK x \in Object : x = tx.obj /\ Dropped(x)
    BY <1>6, TxReleaseEffect
  <2>2. uses' = [uses EXCEPT ![x] = 0] /\ alive' = alive /\ tx'.pc = "wait"
    BY <1>6, <2>1 DEF TxRelease, Released, Pool!Give, sharedVars
  <2>3. \A o \in Object : Held(o) /\ o # x => Held(o)'
    BY <2>1 DEF Held, Dropped
  <2>4. InHand'
    BY <2>2, <2>3 DEF Kept, InHand, Shapes, TypeOK, GatewayTypeOK, Pool!TypeOK
  <2>. QED  BY <2>2, <2>4 DEF Kept
<1>. QED  BY <1>1, <1>2, <1>3, <1>4, <1>5, <1>6 DEF TxStep

LEMMA NfKeeps ==
    ASSUME Faultless, Shapes, HoldersInv, Kept, NEW f \in Fn, NfStep(f) \/ NfKilled(f),
           UNCHANGED gatewayVars
    PROVE  Kept'
<1>0. /\ uses' = uses /\ tx' = tx /\ f \in Proc /\ Worker(f) \subseteq Nat /\ 0 \in Nat
      /\ {"signal", "in", "work", "out"} \subseteq Kind
  BY Workers DEF gatewayVars, Kind
<1>1. ~NfKilled(f)
  BY DEF NfKilled, Faultless
<1>2. ASSUME alive' = alive, NEW x \in Object, NEW c \in Kind, NEW q \in Proc, NEW v \in Nat,
             Moved(x, c, q, v)
      PROVE  Kept'
  BY <1>0, <1>2, KeepsInHand DEF Kept
<1>3. CASE NfRx(f)
  <2>1. PICK x \in Object : Moved(x, "in", f, turn[f]) /\ turn[f] \in Worker(f)
    <3>1. Accepted(f)
      BY <1>0, <1>3, AllAccepted DEF NfRx
    <3>. QED  BY <1>3, <3>1, NfRxEffect
  <2>2. alive' = alive
    BY <1>3 DEF NfRx, Consume
  <2>. QED  BY <1>0, <1>2, <2>1, <2>2
<1>4. ASSUME NEW w \in Worker(f), NfWorkerRead(f, w) PROVE Kept'
  <2>1. PICK x \in Object : Moved(x, "work", f, w)
    BY <1>4, NfWorkerReadEffect
  <2>2. alive' = alive
    BY <1>4 DEF NfWorkerRead, sharedVars
  <2>. QED  BY <1>0, <1>2, <2>1, <2>2
<1>5. ASSUME NEW w \in Worker(f), NfWorkerWrite(f, w) PROVE Kept'
  <2>1. PICK x \in Object : Moved(x, "out", f, w)
    BY <1>5, NfWorkerWriteEffect
  <2>2. alive' = alive
    BY <1>5 DEF NfWorkerWrite, sharedVars
  <2>. QED  BY <1>0, <1>2, <2>1, <2>2
<1>6. ASSUME NEW w \in Worker(f), NfTx(f, w) PROVE Kept'
  <2>1. PICK x \in Object : x = Head(outPipe[f][w])
    BY <1>6 DEF NfTx, Shapes, TypeOK, NfTypeOK
  <2>2. PICK q \in Proc : q = NextHop(txn[x].route, txn[x].hop)
    BY Hops DEF NextHop, Shapes, TypeOK, SharedTypeOK, Transaction
  <2>3. TransferOwnership(f, x, q)
    BY <1>6, <2>1, <2>2 DEF NfTx
  <2>4. PICK y \in Object :
            /\ Holds(y, "out", f, w)
            /\ Moved(y, "signal", NextHop(txn[y].route, txn[y].hop), 0) \/ Dropped(y) \/ Ended(f)
            /\ txn' = [txn EXCEPT ![y].hop = @ + 1]
    BY <1>6, NfTxEffect
  <2>5. y = x
    BY <1>6, <2>1, <2>4 DEF NfTx, Shapes, TypeOK, SharedTypeOK, Transaction
  <2>6. Moved(x, "signal", q, 0) /\ alive' = alive
    BY <1>0, <2>2, <2>3, <2>4, <2>5, Delivered
  <2>. QED  BY <1>0, <1>2, <2>6
<1>. QED  BY <1>1, <1>3, <1>4, <1>5, <1>6 DEF NfStep

LEMMA NextKept ==
    /\ Faultless /\ Shapes /\ HoldersInv /\ Ties /\ Closes /\ Kept
    /\ ~doubled /\ ~doubled' /\ [Next]_vars
    => Kept'
<1>1. CASE Kept /\ UNCHANGED vars
  <2>1. Same /\ UNCHANGED <<tx, alive, uses>>
    BY <1>1, Still DEF vars, sharedVars, gatewayVars, nfVars
  <2>. QED  BY <1>1, <2>1, KeepsInHand DEF Kept
<1>2. ASSUME Kept, NEW r \in Request, ClientStep(r), UNCHANGED nfVars PROVE Kept'
  <2>1. Same /\ UNCHANGED <<tx, alive, uses>>
    BY <1>2, ClientEffect DEF ClientStep, Connect, Send, Leave, sharedVars
  <2>. QED  BY <1>2, <2>1, KeepsInHand DEF Kept
<1>. QED  BY <1>1, <1>2, RxKept, TxKept, NfKeeps DEF Next, GatewayNext, NfNext

(* While no client resets, no function is killed, no limit is met and      *)
(* everybody knows everybody, no object leaves circulation, whatever the   *)
(* routes: of those out of the pool each is in somebody's hands, but for   *)
(* the one at address Forwarded, which conn_write forgets (gateway.c:401   *)
(* says it returns it).                                                    *)
THEOREM NothingIsLost ==
    ASSUME Faultless
    PROVE  Spec => []NothingLost
<1>1. Shapes /\ HoldersInv /\ Kept => NothingLost
  BY PlacesAreHolders DEF Kept, InHand, NothingLost, Pool!InUse
<1>2. /\ Shapes /\ HoldersInv /\ Ties /\ Closes /\ Kept
      /\ ~doubled /\ ~doubled' /\ [Next]_vars
      => Kept'
  BY NextKept
<1>3. doubled => NothingLost
  BY DEF NothingLost
<1>. QED  BY <1>1, <1>2, <1>3, InitKept, DoubledStays, Holders, Tying, PTL DEF Spec
=============================================================================
