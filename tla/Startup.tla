------------------------------- MODULE Startup -------------------------------
(***************************************************************************)
(* How the processes of a node find each other.  The BPF map pid_map, which*)
(* the gateway pins, gives the pid of a function; each process copies it   *)
(* into its table matriz, and the pids it may hear from into its hash      *)
(* table, direct-mapped and without chains.  A coordinator gathers one     *)
(* SIGRTMIN+2 of each member and then sends each one back, go.  For a      *)
(* chain of network functions the coordinator is the gateway (gateway_nf.c,*)
(* nf.c); for the Online Boutique it is the frontend, whose pid the gateway*)
(* looks up three seconds after its own start (gateway.c).  The threads    *)
(* that transfer objects start before all this is over, so objects are     *)
(* part of the model: what a function does with one it holds is no more    *)
(* than to hand it on.                                                     *)
(***************************************************************************)
EXTENDS Integers, Sequences, FiniteSetsExt

CONSTANTS
    Object,     \* The addresses of the objects.
    NFn,       \* The functions are 1 .. NFn.
    HashSize,   \* HASH_SIZE.
    PidsOf,     \* PidsOf[p]: the pids that process p may be given.
    None        \* A pointer that is NULL.

GATEWAY == 0
FRONTEND == 1
Fn == 1 .. NFn
Proc == {GATEWAY} \union Fn

\* Mutant of GoValue: a value that is no address.
GoZero == 0

GoValue == 1    \* What the coordinator sends with SIGRTMIN+2.

ASSUME StartupAssumption ==
    /\ NFn \in Nat /\ NFn > 2
    /\ HashSize \in Nat \ {0}
    /\ {0, 1} \subseteq Object /\ None \notin Object
    /\ PidsOf \in [Proc -> SUBSET (Nat \ {0})]
    /\ \A p, q \in Proc : p # q => PidsOf[p] \intersect PidsOf[q] = {}

VARIABLES
    coordinator,    \* GATEWAY or FRONTEND: which program the node runs.
    stage,          \* stage[p]: how far the start-up of p is.
    pid,            \* pid[p]: the pid of p, while it runs.
    used,           \* History: the pids that were given so far.
    pidMap,         \* The BPF map pid_map, an array of zeros at first.
    matriz,         \* matriz[p][q]: the pid that p has for q.
    hash,           \* hash[p][i]: hash_t[i].pid of p.
    ready,          \* ready[p]: the SIGRTMIN+2 signals queued for p.
    signals,        \* signals[p]: the SIGBPF signals queued for p.
    count,          \* The SIGRTMIN+2 signals the coordinator has taken ...
    sent,           \* ... and those it has sent.
    seen,           \* seen[p]: txn of the receiving thread of p.
    deaf,           \* The processes whose receiving thread has returned.
    held,           \* held[p]: the objects p is working on.
    inUse,          \* The objects that carry a request.
    hop,            \* hop[o]: how far the request in o has come, 0 if there was none.
    mishaps         \* History: what went out of order so far.

tables == <<pid, used, pidMap, matriz, hash>>
rendezvous == <<ready, count, sent>>
objects == <<seen, deaf, held, inUse, hop>>
vars == <<coordinator, stage, tables, rendezvous, signals, objects, mishaps>>

Members == Fn \ {coordinator}
Expected == Cardinality(Members)

(* The functions on the way of a request; after it comes the gateway. *)
Path == IF coordinator = GATEWAY THEN [i \in Fn |-> i]
        ELSE [i \in 1 .. 2 * NFn - 1 |-> IF i % 2 = 1 THEN FRONTEND ELSE i \div 2 + 1]
At(k) == IF k \in DOMAIN Path THEN Path[k] ELSE GATEWAY

Init ==
    /\ coordinator \in {GATEWAY, FRONTEND}
    /\ stage = [p \in Proc |-> "off"]
    /\ pid = [p \in Proc |-> 0]
    /\ used = {}
    /\ pidMap = [p \in Proc |-> 0]
    /\ matriz = [p \in Proc |-> [q \in Proc |-> 0]]
    /\ hash = [p \in Proc |-> [i \in 0 .. HashSize - 1 |-> 0]]
    /\ ready = [p \in Proc |-> <<>>] /\ count = 0 /\ sent = 0
    /\ signals = [p \in Proc |-> <<>>]
    /\ seen = [p \in Proc |-> None] /\ deaf = {} /\ held = [p \in Proc |-> <<>>]
    /\ inUse = {} /\ hop = [o \in Object |-> 0]
    /\ mishaps = {}

(* hash_t[(HASH_SIZE - 1) & pid].pid = pid. *)
Learn(h, x) == [h EXCEPT ![x % HashSize] = x]
Knows(h, x) == h[x % HashSize] = x

\* Mutant of LearnAll: the first pid only.
LearnFirst(h, pids) == Learn(h, pids[1])

(* One after the other: of the pids that fall on one index the last stays. *)
LearnAll(h, pids) ==
    [i \in DOMAIN h |->
        LET put == {j \in DOMAIN pids : pids[j] % HashSize = i}
        IN  IF put = {} THEN h[i] ELSE pids[Max(put)]]

(* The process a signal to x reaches, if there is one. *)
Running(x) == {p \in Proc : stage[p] \notin {"off", "ended"} /\ pid[p] = x}

Mishap(what, when) == mishaps' = IF when THEN mishaps \union {what} ELSE mishaps

(* A process ends, with what was queued for it and what it held.           *)
End(p) ==
    /\ stage' = [stage EXCEPT ![p] = "ended"]
    /\ signals' = [signals EXCEPT ![p] = <<>>]

Start(p, x) ==
    /\ stage[p] = "off" /\ x \in PidsOf[p] \ used
    /\ pid' = [pid EXCEPT ![p] = x]
    /\ used' = used \union {x}

-----------------------------------------------------------------------------
(* gateway: the maps are pinned, and the shop's gateway has put its pid at *)
(* the index of pid 0.                                                     *)
GatewayPins(x) ==
    /\ Start(GATEWAY, x)
    /\ stage' = [stage EXCEPT ![GATEWAY] = "pinned"]
    /\ hash' = IF coordinator = GATEWAY THEN hash
               ELSE [hash EXCEPT ![GATEWAY][0] = x]
    /\ UNCHANGED <<coordinator, pidMap, matriz, rendezvous, signals, objects, mishaps>>

(* gateway: its pid is published and the threads RX and TX start.          *)
GatewayOpens ==
    /\ stage[GATEWAY] = "pinned"
    /\ pidMap' = [pidMap EXCEPT ![GATEWAY] = pid[GATEWAY]]
    /\ stage' = [stage EXCEPT ![GATEWAY] = "open"]
    /\ UNCHANGED <<coordinator, pid, used, matriz, hash, rendezvous, signals,
                   objects, mishaps>>

(* gateway of gateway_nf.c, on its way to signal_rcv_config.               *)
GatewayGathers ==
    /\ coordinator = GATEWAY /\ stage[GATEWAY] = "open"
    /\ matriz' = [matriz EXCEPT ![GATEWAY][GATEWAY] = pid[GATEWAY]]
    /\ hash' = [hash EXCEPT ![GATEWAY] = Learn(@, pid[GATEWAY])]
    /\ stage' = [stage EXCEPT ![GATEWAY] = "gather"]
    /\ UNCHANGED <<coordinator, pid, used, pidMap, rendezvous, signals, objects, mishaps>>

(* gateway of gateway.c, after sleep(3): the pid that the frontend has     *)
(* published by then, at the index of its id and at its own.               *)
GatewayLooksUp ==
    /\ coordinator = FRONTEND /\ stage[GATEWAY] = "open"
    /\ LET x == pidMap[FRONTEND]
       IN  /\ matriz' = [matriz EXCEPT ![GATEWAY][FRONTEND] = x]
           /\ hash' = [hash EXCEPT ![GATEWAY] =
                          Learn([@ EXCEPT ![FRONTEND % HashSize] = x], x)]
           /\ Mishap("hasty", x = 0)
    /\ stage' = [stage EXCEPT ![GATEWAY] = "running"]
    /\ UNCHANGED <<coordinator, pid, used, pidMap, rendezvous, signals, objects>>

(* A function ends at once when there is no map to publish its pid in.     *)
NoMap(p, x) ==
    /\ Start(p, x)
    /\ p \in Fn /\ stage[GATEWAY] = "off"
    /\ stage' = [stage EXCEPT ![p] = "ended"]
    /\ Mishap("hasty", TRUE)
    /\ UNCHANGED <<coordinator, pidMap, matriz, hash, rendezvous, signals, objects>>

(* nf of frontendservice.c, up to the start of its threads.                *)
FrontendStarts(x) ==
    /\ coordinator = FRONTEND /\ stage[GATEWAY] # "off"
    /\ Start(FRONTEND, x)
    /\ stage' = [stage EXCEPT ![FRONTEND] = "gather"]
    /\ pidMap' = [pidMap EXCEPT ![FRONTEND] = x]
    /\ matriz' = [matriz EXCEPT ![FRONTEND] =
                     [@ EXCEPT ![FRONTEND] = x, ![GATEWAY] = pidMap[GATEWAY]]]
    /\ hash' = [hash EXCEPT ![FRONTEND] = LearnAll(@, <<x, pidMap[GATEWAY]>>)]
    /\ Mishap("hasty", pidMap[GATEWAY] = 0)
    /\ UNCHANGED <<coordinator, rendezvous, signals, objects>>

(* A member publishes its pid x, and tells the coordinator, at the pid the *)
(* map has for it; a failure is reported but not acted on.                 *)
Register(f, x) ==
    LET c == pidMap[coordinator] IN
    /\ f \in Members /\ stage[GATEWAY] # "off"
    /\ Start(f, x)
    /\ stage' = [stage EXCEPT ![f] = "waiting"]
    /\ pidMap' = [pidMap EXCEPT ![f] = x]
    /\ matriz' = [matriz EXCEPT ![f] = [@ EXCEPT ![f] = x, ![coordinator] = c]]
    /\ ready' = [p \in Proc |-> IF p \in Running(c)
                                THEN Append(ready[p], [from |-> x, value |-> f])
                                ELSE ready[p]]
    /\ Mishap("hasty", c = 0)
    /\ UNCHANGED <<coordinator, count, sent, signals, objects>>

(* nf of nf.c, up to the wait for go. *)
NfStarts(f, x) ==
    /\ coordinator = GATEWAY
    /\ Register(f, x)
    /\ hash' = [hash EXCEPT ![f] = LearnAll(@, <<x, pidMap[GATEWAY]>>)]

(* nf of the services. *)
ServiceStarts(f, x) ==
    /\ coordinator = FRONTEND
    /\ Register(f, x)
    /\ hash' = [hash EXCEPT ![f] = Learn(@, x)]

(* A member is killed while it waits, and may then start again.            *)
Restart(f) ==
    /\ f \in Members /\ stage[f] = "waiting"
    /\ PidsOf[f] \ used # {}
    /\ stage' = [stage EXCEPT ![f] = "off"]
    /\ matriz' = [matriz EXCEPT ![f] = [q \in Proc |-> 0]]
    /\ hash' = [hash EXCEPT ![f] = [i \in DOMAIN @ |-> 0]]
    /\ ready' = [ready EXCEPT ![f] = <<>>]
    /\ signals' = [signals EXCEPT ![f] = <<>>]
    /\ Mishap("restart", TRUE)
    /\ UNCHANGED <<coordinator, pid, used, pidMap, count, sent, objects>>

-----------------------------------------------------------------------------
\* Mutant of Enough: the loop ends one signal early.
OneEarly(n) == n >= Expected - 1

\* Mutant of Enough: the coordinator waits for a signal of its own.
ItselfToo(n) == n > Expected

(* The loop of signal_rcv_config is over: it counts signals, not members.  *)
Enough(n) == n >= Expected

(* signal_rcv_config, the first loop, with seek_elem_map.                  *)
Gather ==
    /\ stage[coordinator] = "gather" /\ ready[coordinator] # <<>>
    /\ LET m == Head(ready[coordinator])
       IN  /\ matriz' = [matriz EXCEPT ![coordinator][m.value] = m.from]
           /\ hash' = [hash EXCEPT ![coordinator] = Learn(@, m.from)]
    /\ ready' = [ready EXCEPT ![coordinator] = Tail(@)]
    /\ count' = count + 1
    /\ stage' = IF Enough(count') THEN [stage EXCEPT ![coordinator] = "send"] ELSE stage
    /\ UNCHANGED <<coordinator, pid, used, pidMap, sent, signals, objects, mishaps>>

(* signal_rcv_config, the second loop: a member that cannot be signalled   *)
(* ends the coordinator.                                                   *)
SendGo ==
    LET f == sent + IF coordinator = GATEWAY THEN 1 ELSE 2
        there == Running(matriz[coordinator][f])
    IN  /\ stage[coordinator] = "send"
        /\ IF there = {}
           THEN /\ End(coordinator)
                /\ UNCHANGED <<ready, sent>>
           ELSE /\ ready' = [p \in Proc |->
                       IF p \in there
                       THEN Append(ready[p], [from |-> pid[coordinator], value |-> GoValue])
                       ELSE ready[p]]
                /\ sent' = sent + 1
                /\ stage' = IF f = NFn THEN [stage EXCEPT ![coordinator] = "running"] ELSE stage
                /\ UNCHANGED signals
        /\ UNCHANGED <<coordinator, tables, count, objects, mishaps>>

(* The wait of a member for go takes a SIGBPF for it, and prefers one, as  *)
(* it has the lower number.  Then the tables are filled from the map.      *)
Waited(f) ==
    /\ f \in Members /\ stage[f] = "waiting"
    /\ signals[f] # <<>> \/ ready[f] # <<>>
    /\ Mishap("overtaken", signals[f] # <<>>)
    /\ IF signals[f] # <<>>
       THEN signals' = [signals EXCEPT ![f] = Tail(@)] /\ UNCHANGED ready
       ELSE ready' = [ready EXCEPT ![f] = Tail(@)] /\ UNCHANGED signals
    /\ matriz' = [matriz EXCEPT ![f] = [q \in Proc |-> IF q = GATEWAY THEN @[q] ELSE pidMap[q]]]
    /\ stage' = [stage EXCEPT ![f] = "running"]
    /\ UNCHANGED <<coordinator, pid, used, pidMap, count, sent, objects>>

(* nf of nf.c, from go on: lookup_map_nf. *)
NfGoes(f) ==
    /\ coordinator = GATEWAY
    /\ Waited(f)
    /\ hash' = [hash EXCEPT ![f] = LearnAll(@, [i \in Fn |-> pidMap[i]])]

(* nf of the services: lookup_map, and the frontend's pid as it was looked *)
(* up before.                                                              *)
ServiceGoes(f) ==
    /\ coordinator = FRONTEND
    /\ Waited(f)
    /\ hash' = [hash EXCEPT ![f] =
                   LearnAll(@, [i \in Fn |-> pidMap[i]] \o <<matriz[f][FRONTEND]>>)]

-----------------------------------------------------------------------------
(* transfer_ownership, after hop[o] was moved to where o goes.             *)
Transfer(p, o, q) ==
    LET x == matriz[p][q] IN
    IF ~Knows(hash[p], x) THEN UNCHANGED <<stage, signals>>
    ELSE IF Running(x) = {} THEN End(p)
    ELSE /\ signals' = [r \in Proc |->
                IF r \in Running(x) THEN Append(signals[r], [from |-> pid[p], value |-> o])
                ELSE signals[r]]
         /\ UNCHANGED stage

(* Everybody has what it needs. *)
AllRunning == \A p \in Proc : stage[p] = "running"

(* conn_read: thread RX reads a request, whether anybody is ready or not.  *)
Dispatch(o) ==
    /\ stage[GATEWAY] \in {"open", "gather", "send", "running"}
    /\ o \notin inUse
    /\ inUse' = inUse \union {o}
    /\ hop' = [hop EXCEPT ![o] = 1]
    /\ Transfer(GATEWAY, o, At(1))
    /\ Mishap("early", ~AllRunning)
    /\ UNCHANGED <<coordinator, tables, rendezvous, seen, deaf, held>>

(* The threads that wait_for_ownership; those of a member wait for         *)
(* SIGRTMIN+2 too, and take what it carries for an object.                 *)
Receives(p) ==
    IF p = GATEWAY THEN stage[p] \in {"open", "gather", "send", "running"}
    ELSE IF p = coordinator THEN stage[p] \in {"gather", "send", "running"}
    ELSE stage[p] = "running"

(* wait_for_ownership: a signal is accepted if the hash table has its      *)
(* sender; if not, txn stays as it is.                                     *)
Obtain(p, m) ==
    LET o == IF Knows(hash[p], m.from) THEN m.value
             ELSE IF p = GATEWAY THEN None ELSE seen[p]
    IN  /\ IF o = None
           THEN deaf' = deaf \union {p} /\ UNCHANGED <<seen, held>>
           ELSE /\ seen' = [seen EXCEPT ![p] = o]
                /\ held' = [held EXCEPT ![p] = Append(@, o)]
                /\ UNCHANGED deaf
        /\ UNCHANGED <<inUse, hop>>

ReceiveSignal(p) ==
    /\ Receives(p) /\ p \notin deaf /\ signals[p] # <<>>
    /\ Obtain(p, Head(signals[p]))
    /\ signals' = [signals EXCEPT ![p] = Tail(@)]
    /\ UNCHANGED <<coordinator, stage, tables, rendezvous, mishaps>>

ReceiveGo(f) ==
    /\ f \in Members /\ Receives(f) /\ f \notin deaf
    /\ signals[f] = <<>> /\ ready[f] # <<>>
    /\ Obtain(f, Head(ready[f]))
    /\ ready' = [ready EXCEPT ![f] = Tail(@)]
    /\ UNCHANGED <<coordinator, stage, tables, count, sent, signals, mishaps>>

(* txn->addr and where txn goes next: an object that was never dispatched  *)
(* is zero in both.                                                        *)
Addr(o) == IF hop[o] = 0 THEN 0 ELSE o
NextHop(o) == IF hop[o] = 0 THEN 0 ELSE hop[o] + 1

(* A worker and the sending thread of a function: on to the next hop.      *)
HandOn(f) ==
    /\ f \in Fn /\ Receives(f) /\ held[f] # <<>>
    /\ LET o == Head(held[f])
       IN  /\ hop' = [hop EXCEPT ![o] = NextHop(o)]
           /\ Transfer(f, Addr(o), At(NextHop(o)))
    /\ held' = [held EXCEPT ![f] = Tail(@)]
    /\ UNCHANGED <<coordinator, tables, rendezvous, seen, deaf, inUse, mishaps>>

(* conn_write: the response, after which the object is free.               *)
Answer ==
    /\ Receives(GATEWAY) /\ held[GATEWAY] # <<>>
    /\ inUse' = inUse \ {Head(held[GATEWAY])}
    /\ held' = [held EXCEPT ![GATEWAY] = Tail(@)]
    /\ UNCHANGED <<coordinator, stage, tables, rendezvous, signals, seen,
                   deaf, hop, mishaps>>

-----------------------------------------------------------------------------
StartStep(p) ==
    \E x \in PidsOf[p] :
        \/ p = GATEWAY /\ GatewayPins(x)
        \/ NoMap(p, x)
        \/ p = FRONTEND /\ FrontendStarts(x)
        \/ NfStarts(p, x)
        \/ ServiceStarts(p, x)

GatewayStep == GatewayOpens \/ GatewayGathers \/ GatewayLooksUp

CoordinatorStep == Gather \/ SendGo

GoStep(f) == NfGoes(f) \/ ServiceGoes(f)

ThreadStep(p) == ReceiveSignal(p) \/ ReceiveGo(p) \/ HandOn(p)

Next ==
    \/ \E p \in Proc : StartStep(p) \/ ThreadStep(p)
    \/ GatewayStep \/ CoordinatorStep \/ Answer
    \/ \E f \in Fn : GoStep(f) \/ Restart(f)
    \/ \E o \in Object : Dispatch(o)

(* Every process is started, and its threads run; nobody need send a       *)
(* request.  A thread that sends does so while another of its process      *)
(* receives.                                                               *)
Fairness ==
    /\ WF_vars(GatewayStep) /\ WF_vars(CoordinatorStep) /\ WF_vars(Answer)
    /\ \A p \in Proc :
           /\ WF_vars(StartStep(p)) /\ WF_vars(GoStep(p))
           /\ WF_vars(ReceiveSignal(p) \/ ReceiveGo(p)) /\ WF_vars(HandOn(p))

Spec == Init /\ [][Next]_vars /\ Fairness

-----------------------------------------------------------------------------
Pids == {0} \union UNION {PidsOf[p] : p \in Proc}
SignalOf(values) == [from : Pids, value : values]

(* The variables keep their types.                                         *)
TypeOK ==
    /\ coordinator \in {GATEWAY, FRONTEND}
    /\ stage \in [Proc -> {"off", "pinned", "open", "gather", "send", "waiting",
                          "running", "ended"}]
    /\ pid \in [Proc -> Pids] /\ used \subseteq Pids \ {0}
    /\ pidMap \in [Proc -> Pids]
    /\ matriz \in [Proc -> [Proc -> Pids]]
    /\ hash \in [Proc -> [0 .. HashSize - 1 -> Pids]]
    /\ ready \in [Proc -> Seq(SignalOf(Fn))]
    /\ signals \in [Proc -> Seq(SignalOf(Object))]
    /\ count \in 0 .. Expected /\ sent \in 0 .. Expected
    /\ seen \in [Proc -> Object \union {None}] /\ deaf \subseteq Proc
    /\ held \in [Proc -> Seq(Object)]
    /\ inUse \subseteq Object /\ hop \in [Object -> Nat]
    /\ mishaps \subseteq {"hasty", "restart", "overtaken", "early"}

(* No two pids fall on one index, nor does one fall on that of a function  *)
(* that is not there (pid 0).                                              *)
Apart == \A x, y \in used \union {0} : x # y => x % HashSize # y % HashSize

(* Go means that everybody is there: a member that runs because of it has  *)
(* the pid of every function, and so has the coordinator after the last    *)
(* one, in whatever order they started and whatever the clients sent       *)
(* meanwhile; and where no pids collide they are all in its hash table.    *)
(* (A restart is counted as another member, and a transfer taken for go.)  *)
HasAll(p) ==
    \A f \in Fn : matriz[p][f] = pid[f] /\ (Apart => Knows(hash[p], pid[f]))
TablesAgree ==
    mishaps \intersect {"restart", "overtaken"} = {} =>
        \A p \in Members \union {coordinator} : stage[p] = "running" => HasAll(p)

(* Where an object is: the signals and the threads of running processes.   *)
Places(o) ==
    UNION {{<<"signal", p, i>> : i \in {j \in DOMAIN signals[p] : signals[p][j].value = o}}
               \union {<<"held", p, i>> : i \in {j \in DOMAIN held[p] : held[p][j] = o}}
           : p \in {q \in Proc : stage[q] # "ended"}}

(* The go signal carries what might be an address, the hash table may not  *)
(* know a sender, and a thread that rejects a signal goes on with the last *)
(* object it had: still, an object is in two hands, or in anybody's without*)
(* a request, only after pids have collided or a transfer was taken for    *)
(* go; and when nothing went out of order none is lost and nobody ended.   *)
NothingAstray ==
    /\ Apart /\ mishaps \intersect {"restart", "overtaken"} = {} =>
           \A o \in Object :
               /\ \A x, y \in Places(o) : x = y
               /\ Places(o) # {} => o \in inUse
    /\ Apart /\ mishaps = {} =>
           /\ \A o \in inUse : Places(o) # {}
           /\ \A p \in Proc : stage[p] # "ended" /\ p \notin deaf

(* A node that nobody disturbs comes up, and then answers what it reads: a *)
(* rendezvous waits for ever only for a process that was started before    *)
(* the one it looks for, that was killed, or that took a transfer for go.  *)
Assembled ==
    /\ <>(AllRunning \/ mishaps # {})
    /\ \A o \in Object : o \in inUse ~> (o \notin inUse \/ mishaps # {} \/ ~Apart)
=============================================================================
