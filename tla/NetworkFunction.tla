--------------------------- MODULE NetworkFunction ---------------------------
(***************************************************************************)
(* A network function, src/nf.c, after its start-up: nf_rx takes the       *)
(* objects signalled to the process and deals them out to the worker       *)
(* threads, each behind a pipe; nf_worker processes and passes on through  *)
(* a second pipe; nf_tx moves the transaction one hop on along its route   *)
(* and transfers it.  The processing itself (autoscale_memory and the      *)
(* others) does not touch the transaction.                                 *)
(***************************************************************************)
EXTENDS SharedRegion

CONSTANTS
    NThreads,   \* NThreads[f]: n_threads of f, its worker threads.
    PipeSize,   \* The pointers a pipe holds.
    Mortal      \* The functions that may be killed.

ASSUME NetworkFunctionAssumption ==
    /\ NThreads \in [Fn -> Nat \ {0}]
    /\ PipeSize \in Nat \ {0}
    /\ Mortal \subseteq Fn

Worker(f) == 0 .. NThreads[f] - 1

VARIABLES
    turn,       \* turn[f]: i of nf_rx, the worker served next; None when ended.
    seen,       \* seen[f]: txn of nf_rx, the last object it received.
    inPipe,     \* inPipe[f][w]: pipefd_rx, the objects waiting for worker w.
    work,       \* work[f][w]: the object worker w is processing.
    outPipe     \* outPipe[f][w]: pipefd_tx, the objects processed by worker w.

nfVars == <<turn, seen, inPipe, work, outPipe>>

NfTypeOK ==
    /\ DOMAIN turn = Fn /\ DOMAIN inPipe = Fn
    /\ DOMAIN work = Fn /\ DOMAIN outPipe = Fn
    /\ seen \in [Fn -> Object \union {None}]
    /\ \A f \in Fn :
           /\ turn[f] \in Worker(f) \union {None}
           /\ inPipe[f] \in [Worker(f) -> Seq(Object)]
           /\ work[f] \in [Worker(f) -> Object \union {None}]
           /\ outPipe[f] \in [Worker(f) -> Seq(Object)]

NfInit ==
    /\ turn = [f \in Fn |-> 0]
    /\ seen = [f \in Fn |-> None]
    /\ inPipe = [f \in Fn |-> [w \in Worker(f) |-> <<>>]]
    /\ work = [f \in Fn |-> [w \in Worker(f) |-> None]]
    /\ outPipe = [f \in Fn |-> [w \in Worker(f) |-> <<>>]]

\* Mutant of NextWorker: one worker too many.
OneWorkerMore(f, w) == (w + 1) % (NThreads[f] + 1)

(* The i of nf_rx's loop. *)
NextWorker(f, w) == (w + 1) % NThreads[f]

(* nf_rx: the pointer it keeps between two signals is the one it writes to *)
(* the pipe, a new one or, after a signal it rejects, the previous one: an *)
(* object that it has dealt out before.                                    *)
NfRx(f) ==
    LET o == Awaited(f, seen[f])
    IN  /\ CanWait(f)
        /\ turn[f] # None
        /\ Len(inPipe[f][turn[f]]) < PipeSize
        /\ Consume(f)
        /\ seen' = [seen EXCEPT ![f] = o]
        /\ doubled' = (doubled \/ (~Accepted(f) /\ seen[f] # None))
        /\ IF o = None
           THEN /\ turn' = [turn EXCEPT ![f] = None]
                /\ UNCHANGED inPipe
           ELSE /\ turn' = [turn EXCEPT ![f] = NextWorker(f, @)]
                /\ inPipe' = [inPipe EXCEPT ![f][turn[f]] = Append(@, o)]
        /\ UNCHANGED <<txn, work, outPipe>>

(* nf_worker, up to the end of read. *)
NfWorkerRead(f, w) ==
    /\ alive[f]
    /\ work[f][w] = None
    /\ inPipe[f][w] # <<>>
    /\ work' = [work EXCEPT ![f][w] = Head(inPipe[f][w])]
    /\ inPipe' = [inPipe EXCEPT ![f][w] = Tail(@)]
    /\ UNCHANGED <<sharedVars, turn, seen, outPipe>>

(* nf_worker, the processing and the write. *)
NfWorkerWrite(f, w) ==
    /\ alive[f]
    /\ work[f][w] # None
    /\ Len(outPipe[f][w]) < PipeSize
    /\ outPipe' = [outPipe EXCEPT ![f][w] = Append(@, work[f][w])]
    /\ work' = [work EXCEPT ![f][w] = None]
    /\ UNCHANGED <<sharedVars, turn, seen, inPipe>>

\* Mutant of NextHop: the hop of the counter before it is moved.
HopBefore(i, k) == HopAt(i, k)

(* The hop after hop k of route i, 0 (the gateway) after the last one. *)
NextHop(i, k) == HopAt(i, k + 1)

(* nf_tx, for one pipe that epoll_wait reports. *)
NfTx(f, w) ==
    /\ alive[f]
    /\ outPipe[f][w] # <<>>
    /\ LET o == Head(outPipe[f][w])
       IN  /\ txn' = [txn EXCEPT ![o].hop = @ + 1]
           /\ TransferOwnership(f, o, NextHop(txn[o].route, txn[o].hop))
    /\ outPipe' = [outPipe EXCEPT ![f][w] = Tail(@)]
    /\ UNCHANGED <<doubled, turn, seen, inPipe, work>>

NfStep(f) ==
    \/ NfRx(f)
    \/ \E w \in Worker(f) : NfWorkerRead(f, w) \/ NfWorkerWrite(f, w) \/ NfTx(f, w)

(* The process of f is killed. *)
NfKilled(f) ==
    /\ f \in Mortal
    /\ alive[f]
    /\ Exit(f)
    /\ UNCHANGED <<txn, doubled, nfVars>>
=============================================================================
