--------------------------- MODULE Startup_proofs ---------------------------
(***************************************************************************)
(* Proofs about the start of a node and about the objects it then hands    *)
(* on, for any number of functions, any pids, any size of the hash table,  *)
(* any objects and paths, and whatever starts out of order or is killed.   *)
(* The invariant has four parts, each on top of the one before it, and each*)
(* holds as long as less has gone wrong:                                   *)
(*   Shapes      always: the types, who can be in which stage, and that    *)
(*               what is known of a process is one of its own pids;        *)
(*   Rendezvous  while no member was killed or took a transfer for go: the *)
(*               coordinator counts distinct members, each of which is in  *)
(*               pid_map before it signals, so go means that all are there;*)
(*   Handing     when no pids collide either: a member has had its one go  *)
(*               when it runs (Goes), who sends is known to who receives   *)
(*               (Senders, FirstKnows), and the queues and hands hold each *)
(*               object once, where its hop counter says (OnTheWay);       *)
(*   Smooth      when nothing at all went out of order: nobody ended or is *)
(*               deaf, and every object in use is in a queue or a hand.    *)
(* The third part needs the go signals because a go carries an index that  *)
(* may be an address, and the fourth needs the order of the start, because *)
(* what a thread does with a signal it rejects is not to drop it.          *)
(***************************************************************************)
EXTENDS Startup, FiniteSetTheorems, SequenceTheorems, WellFoundedInduction, TLAPS

(* How far each process can be. *)
StagesOf(p) ==
    {"off", "running", "ended"} \union
        (IF p = GATEWAY THEN {"pinned", "open"} ELSE {}) \union
        (IF p = coordinator THEN {"gather", "send"}
         ELSE IF p = GATEWAY THEN {} ELSE {"waiting"})

Used0 == used \union {0}

(* Of the rendezvous: how far the coordinator has counted, where it is.    *)
Counted ==
    /\ stage[coordinator] \in {"off", "pinned", "open"} => count = 0
    /\ stage[coordinator] = "gather" => count < Expected
    /\ stage[coordinator] \in {"off", "pinned", "open", "gather"} => sent = 0
    /\ stage[coordinator] = "send" => sent < Expected

(* Of the pids: each process has one of its own, and what is known of a    *)
(* process is one of its pids.                                             *)
OwnPids ==
    /\ \A p \in Proc :
           /\ stage[p] \in StagesOf(p)
           /\ pid[p] \in (PidsOf[p] \intersect used) \union {0}
           /\ stage[p] # "off" => pid[p] # 0
           /\ pidMap[p] \in (PidsOf[p] \intersect used) \union {0}
           /\ stage[p] = "off" => signals[p] = <<>>
    /\ \A p, q \in Proc : matriz[p][q] \in (PidsOf[q] \intersect used) \union {0}
    /\ \A i \in DOMAIN ready[coordinator] :
           LET m == ready[coordinator][i]
           IN  m.value \in Members /\ m.from \in PidsOf[m.value] \intersect used
    /\ \A f \in Proc \ {coordinator} : \A i \in DOMAIN ready[f] : ready[f][i].value = GoValue

Shapes == TypeOK /\ Counted /\ OwnPids

-----------------------------------------------------------------------------
Quiet == mishaps \intersect {"restart", "overtaken"} = {}

There(p) == pid[p] # 0 /\ pidMap[p] = pid[p]
ThereNext(p) == pid'[p] # 0 /\ pidMap'[p] = pid'[p]
Taken == {f \in Members : matriz[coordinator][f] # 0}

Published ==
    \A p \in Proc :
        /\ stage[p] = "off" => pid[p] = 0
        /\ pidMap[p] \in {0, pid[p]}
        /\ stage[p] \in {"open", "waiting", "gather", "send", "running"} => There(p)

InReady ==
    /\ \A i \in DOMAIN ready[coordinator] :
           LET m == ready[coordinator][i]
           IN  There(m.value) /\ m.from = pid[m.value] /\ matriz[coordinator][m.value] = 0
    /\ \A i, j \in DOMAIN ready[coordinator] :
           ready[coordinator][i].value = ready[coordinator][j].value => i = j

Gathered ==
    /\ \A f \in Taken : There(f) /\ matriz[coordinator][f] = pid[f]
    /\ count = Cardinality(Taken)
    /\ count > 0 \/ ready[coordinator] # <<>> => There(coordinator)

(* Everybody is there when there is a go. *)
AllThere ==
    /\ stage[coordinator] \in {"send", "running"} => count = Expected
    /\ \A f \in Members : ready[f] # <<>> \/ stage[f] = "running" => count = Expected

Tables ==
    /\ \A f \in Members : stage[f] = "running" => HasAll(f)
    /\ stage[coordinator] \in {"gather", "send", "running"} =>
           /\ matriz[coordinator][coordinator] = pid[coordinator]
           /\ Apart => Knows(hash[coordinator], pid[coordinator])
    /\ Apart => \A f \in Taken : Knows(hash[coordinator], pid[f])

Rendezvous == Quiet => Published /\ InReady /\ Gathered /\ AllThere /\ Tables

-----------------------------------------------------------------------------
Keys == {"signal", "held"} \X Proc
Values(s) == [i \in DOMAIN s |-> s[i].value]
Queues == [a \in Keys |-> IF a[1] = "signal" THEN Values(signals[a[2]])
                          ELSE IF stage[a[2]] = "ended" THEN <<>> ELSE held[a[2]]]

Alone(F) == \A a, b \in Keys : \A i \in DOMAIN F[a], j \in DOMAIN F[b] :
                F[a][i] = F[b][j] => a = b /\ i = j
Objs(F) == {o \in Object : \E a \in Keys : \E i \in DOMAIN F[a] : F[a][i] = o}

GoesSent == IF coordinator = GATEWAY THEN 1 .. sent ELSE 2 .. sent + 1

Goes ==
    \A f \in Members :
        /\ ready[f] # <<>> => f \in GoesSent /\ Len(ready[f]) = 1
        /\ stage[f] = "running" => f \in GoesSent /\ ready[f] = <<>>

(* The frontend does not know the gateway. *)
Mute == /\ coordinator = FRONTEND
        /\ \/ stage[FRONTEND] = "off" \/ pid[GATEWAY] = 0
           \/ ~Knows(hash[FRONTEND], pid[GATEWAY])

(* The first of a path knows the gateway, or does not hand on anything.     *)
FirstKnows ==
    /\ coordinator = GATEWAY =>
           /\ \A f \in Taken : Knows(hash[f], pid[GATEWAY])
           /\ \A i \in DOMAIN ready[GATEWAY] : Knows(hash[ready[GATEWAY][i].value], pid[GATEWAY])
    /\ Mute =>
           /\ seen[FRONTEND] = None
           /\ \A p \in Proc : held[p] = <<>>
           /\ \A p \in Proc : signals[p] # <<>> => p = FRONTEND
           /\ \A i \in DOMAIN signals[FRONTEND] : signals[FRONTEND][i].from = pid[GATEWAY]

Senders ==
    \A p \in Proc : \A i \in DOMAIN signals[p] :
        \E q \in Proc :
            /\ signals[p][i].from = pid[q] /\ pid[q] # 0
            /\ q = GATEWAY => p = At(1)
            /\ q \in Members => count = Expected

OnTheWay ==
    /\ Alone(Queues)
    /\ Objs(Queues) \subseteq inUse
    /\ \A o \in inUse : hop[o] > 0
    /\ \A a \in Keys : \A i \in DOMAIN Queues[a] : At(hop[Queues[a][i]]) = a[2]

Handing == Quiet /\ Apart => Goes /\ FirstKnows /\ Senders /\ OnTheWay

-----------------------------------------------------------------------------
(* And when nothing went out of order: *)
Alive == \A p \in Proc : stage[p] # "ended" /\ p \notin deaf

Busy == (inUse # {} => AllRunning) /\ inUse \subseteq Objs(Queues)

InOrder == \A f \in Fn : stage[f] # "off" => There(coordinator) /\ stage[GATEWAY] # "off"

HasGateway(f) == matriz[f][GATEWAY] = pid[GATEWAY] /\ Knows(hash[f], pid[GATEWAY])
HasFrontend == matriz[GATEWAY][FRONTEND] = pid[FRONTEND] /\ Knows(hash[GATEWAY], pid[FRONTEND])

GatewayIsKnown ==
    /\ coordinator = GATEWAY => \A f \in Fn : stage[f] # "off" => HasGateway(f)
    /\ coordinator = FRONTEND =>
           /\ stage[FRONTEND] # "off" => There(GATEWAY) /\ HasGateway(FRONTEND)
           /\ stage[GATEWAY] = "running" => There(FRONTEND) /\ HasFrontend

FromLast == \A i \in DOMAIN signals[GATEWAY] : signals[GATEWAY][i].from = pid[At(Len(Path))]

Smooth == mishaps = {} /\ Apart => Alive /\ Busy /\ InOrder /\ GatewayIsKnown /\ FromLast

-----------------------------------------------------------------------------
(* The coordinator is the gateway or a function, and waits for the members. *)
LEMMA Coordinators ==
    ASSUME coordinator \in {GATEWAY, FRONTEND}
    PROVE  /\ IsFiniteSet(Fn) /\ IsFiniteSet(Members) /\ Members \subseteq Fn
           /\ Expected = IF coordinator = GATEWAY THEN NFn ELSE NFn - 1
           /\ Expected \in Nat /\ Expected > 1 /\ Expected <= NFn
           /\ GATEWAY \in Proc /\ FRONTEND \in Proc /\ coordinator \in Proc
           /\ GATEWAY \notin Fn /\ FRONTEND \in Fn /\ Fn \subseteq Proc
           /\ Proc \ {coordinator} = IF coordinator = GATEWAY THEN Members ELSE Members \union {GATEWAY}
<1>1. NFn \in Nat /\ NFn > 2
  BY StartupAssumption
<1>2. /\ GATEWAY \in Proc /\ FRONTEND \in Proc /\ coordinator \in Proc
      /\ GATEWAY \notin Fn /\ FRONTEND \in Fn /\ Fn \subseteq Proc /\ Members \subseteq Fn
  BY <1>1 DEF GATEWAY, FRONTEND, Proc, Fn, Members
<1>3. IsFiniteSet(Fn) /\ Cardinality(Fn) = NFn
  BY <1>1, FS_Interval DEF Fn
<1>4. IsFiniteSet(Members) /\ Expected = IF coordinator \in Fn THEN NFn - 1 ELSE NFn
  BY <1>3, FS_RemoveElement DEF Members, Expected
<1>5. GATEWAY # FRONTEND
  BY DEF GATEWAY, FRONTEND
<1>6. Proc \ {coordinator} = IF coordinator = GATEWAY THEN Members ELSE Members \union {GATEWAY}
  BY <1>2, <1>5 DEF Proc, Members
<1>. QED  BY <1>1, <1>2, <1>3, <1>4, <1>5, <1>6

LEMMA GatewayIsNotFrontend == GATEWAY # FRONTEND
  BY DEF GATEWAY, FRONTEND

(* An index of the hash table. *)
LEMMA Indices ==
    ASSUME NEW x \in Nat
    PROVE  x % HashSize \in 0 .. HashSize - 1
  BY StartupAssumption

LEMMA PidsAreNaturals ==
    /\ Pids \subseteq Nat /\ 0 \in Pids
    /\ \A p \in Proc : PidsOf[p] \subseteq Pids \ {0}
<1>1. \A p \in Proc : PidsOf[p] \subseteq Nat \ {0}
  BY StartupAssumption
<1>. QED  BY <1>1 DEF Pids

(* What a table holds after one pid and after a sequence of them.          *)
LEMMA LearnType ==
    ASSUME NEW h \in [0 .. HashSize - 1 -> Pids], NEW x \in Pids
    PROVE  Learn(h, x) \in [0 .. HashSize - 1 -> Pids]
  BY PidsAreNaturals, Indices DEF Learn

(* Of any set of naturals there is a least, and so of a bounded one there  *)
(* is a greatest.                                                          *)
LEMMA Least ==
    ASSUME NEW S \in SUBSET Nat, S # {}
    PROVE  \E x \in S : \A y \in S : x <= y
<1>. DEFINE Up(x) == 1 .. x
            T == {Up(x) : x \in S}
<1>1. T \subseteq FiniteSubsetsOf(Nat)
  <2>1. \A x \in S : IsFiniteSet(Up(x)) /\ Up(x) \in SUBSET Nat
    BY FS_Interval
  <2>. QED  BY <2>1 DEF FiniteSubsetsOf
<1>2. T # {}
  OBVIOUS
<1>3. PICK U \in T : \A V \in T : <<V, U>> \notin StrictSubsetOrdering(Nat)
  BY <1>1, <1>2, FS_StrictSubsetOrderingWellFounded, WFMin
<1>4. PICK x \in S : U = Up(x)
  OBVIOUS
<1>5. ASSUME NEW y \in S PROVE x <= y
  <2>1. <<Up(y), Up(x)>> \notin StrictSubsetOrdering(Nat)
    BY <1>3, <1>4
  <2>2. SUFFICES ASSUME y < x PROVE FALSE
    BY y \in Nat, x \in Nat
  <2>3. x \in Up(x) /\ x \notin Up(y) /\ Up(y) \subseteq Up(x) /\ Up(x) \subseteq Nat
    BY <2>2
  <2>. QED  BY <2>1, <2>3 DEF StrictSubsetOrdering
<1>. QED  BY <1>5

LEMMA Greatest ==
    ASSUME NEW n \in Nat, NEW S \in SUBSET (1 .. n), S # {}
    PROVE  Max(S) \in S /\ \A y \in S : Max(S) >= y
<1>. DEFINE T == {n - y : y \in S}
<1>1. T \subseteq Nat /\ T # {}
  <2>1. \A y \in S : n - y \in Nat
    OBVIOUS
  <2>. QED  BY <2>1
<1>2. PICK t \in T : \A u \in T : t <= u
  BY <1>1, Least
<1>3. PICK x \in S : t = n - x
  OBVIOUS
<1>4. \A y \in S : x >= y
  <2>1. SUFFICES ASSUME NEW y \in S PROVE x >= y
    OBVIOUS
  <2>2. n - x <= n - y
    BY <1>2, <1>3
  <2>. QED  BY <2>2
<1>. QED  BY <1>4 DEF Max

(* An index that pids of the sequence fall on holds one of these.          *)
LEMMA LearnAllWrites ==
    ASSUME NEW h \in [0 .. HashSize - 1 -> Pids], NEW pids \in Seq(Pids), NEW i \in 0 .. HashSize - 1
    PROVE  \/ /\ \A j \in DOMAIN pids : pids[j] % HashSize # i
              /\ LearnAll(h, pids)[i] = h[i]
           \/ \E j \in DOMAIN pids : pids[j] % HashSize = i /\ LearnAll(h, pids)[i] = pids[j]
<1>. DEFINE put == {j \in DOMAIN pids : pids[j] % HashSize = i}
<1>1. Len(pids) \in Nat /\ put \in SUBSET (1 .. Len(pids))
  OBVIOUS
<1>2. put # {} => Max(put) \in put
  BY <1>1, Greatest
<1>3. LearnAll(h, pids)[i] = IF put = {} THEN h[i] ELSE pids[Max(put)]
  BY DEF LearnAll
<1>. QED  BY <1>2, <1>3

LEMMA LearnAllType ==
    ASSUME NEW h \in [0 .. HashSize - 1 -> Pids], NEW pids \in Seq(Pids)
    PROVE  LearnAll(h, pids) \in [0 .. HashSize - 1 -> Pids]
<1>1. ASSUME NEW i \in 0 .. HashSize - 1 PROVE LearnAll(h, pids)[i] \in Pids
  <2>2. LearnAll(h, pids)[i] = h[i] \/ \E j \in DOMAIN pids : LearnAll(h, pids)[i] = pids[j]
    BY LearnAllWrites, Zenon
  <2>. QED  BY <2>2
<1>2. LearnAll(h, pids) = [i \in 0 .. HashSize - 1 |-> LearnAll(h, pids)[i]]
  BY DEF LearnAll
<1>. QED  BY <1>1, <1>2

(* Where no two pids of U fall on one index, a table that learns one of    *)
(* them keeps those it has.                                                *)
LEMMA LearnOne ==
    ASSUME NEW U \in SUBSET Nat, \A x, y \in U : x # y => x % HashSize # y % HashSize,
           NEW h \in [0 .. HashSize - 1 -> Pids], NEW y \in U
    PROVE  /\ Knows(Learn(h, y), y)
           /\ \A x \in U : Knows(h, x) => Knows(Learn(h, y), x)
<1>1. \A x \in U : x % HashSize \in 0 .. HashSize - 1
  BY Indices
<1>. QED  BY <1>1 DEF Knows, Learn

(* Without collisions, who is put into a table stays in it.                *)
LEMMA LearnMany ==
    ASSUME NEW U \in SUBSET Nat, \A x, y \in U : x # y => x % HashSize # y % HashSize,
           NEW h \in [0 .. HashSize - 1 -> Pids], NEW pids \in Seq(Pids),
           \A j \in DOMAIN pids : pids[j] \in U
    PROVE  /\ \A j \in DOMAIN pids : Knows(LearnAll(h, pids), pids[j])
           /\ \A x \in U : Knows(h, x) => Knows(LearnAll(h, pids), x)
<1>1. ASSUME NEW x \in U, Knows(h, x) \/ \E j \in DOMAIN pids : pids[j] = x
      PROVE  Knows(LearnAll(h, pids), x)
  <2>1. PICK i \in 0 .. HashSize - 1 : i = x % HashSize
    BY Indices
  <2>2. \A j \in DOMAIN pids : pids[j] % HashSize = i => pids[j] = x
    BY <2>1
  <2>3. \/ /\ \A j \in DOMAIN pids : pids[j] % HashSize # i
           /\ LearnAll(h, pids)[i] = h[i]
        \/ \E j \in DOMAIN pids : pids[j] % HashSize = i /\ LearnAll(h, pids)[i] = pids[j]
    BY LearnAllWrites, Zenon
  <2>4. CASE \E j \in DOMAIN pids : pids[j] % HashSize = i /\ LearnAll(h, pids)[i] = pids[j]
    <3>1. LearnAll(h, pids)[i] = x
      BY <2>2, <2>4
    <3>. QED  BY <2>1, <3>1 DEF Knows
  <2>5. CASE /\ \A j \in DOMAIN pids : pids[j] % HashSize # i
             /\ LearnAll(h, pids)[i] = h[i]
    <3>1. LearnAll(h, pids)[i] = h[i]
      BY <2>5
    <3>2. Knows(h, x)
      BY <1>1, <2>1, <2>5
    <3>. QED  BY <2>1, <3>1, <3>2 DEF Knows
  <2>. QED  BY <2>3, <2>4, <2>5
<1>. QED  BY <1>1

LEMMA LearnTwo ==
    ASSUME NEW U \in SUBSET Nat, \A x, y \in U : x # y => x % HashSize # y % HashSize,
           NEW h \in [0 .. HashSize - 1 -> Pids], NEW x \in U \intersect Pids, NEW y \in U \intersect Pids
    PROVE  /\ Knows(LearnAll(h, <<x, y>>), x) /\ Knows(LearnAll(h, <<x, y>>), y)
           /\ \A z \in U : Knows(h, z) => Knows(LearnAll(h, <<x, y>>), z)
<1>. DEFINE t == <<x, y>>
<1>1. t \in Seq(Pids) /\ DOMAIN t = 1 .. 2 /\ t[1] = x /\ t[2] = y
  OBVIOUS
<1>2. 1 \in DOMAIN t /\ 2 \in DOMAIN t /\ \A j \in DOMAIN t : t[j] \in U
  BY <1>1
<1>. HIDE DEF t
<1>3. /\ \A j \in DOMAIN t : Knows(LearnAll(h, t), t[j])
      /\ \A z \in U : Knows(h, z) => Knows(LearnAll(h, t), z)
  BY <1>1, <1>2, LearnMany
<1>4. Knows(LearnAll(h, t), x) /\ Knows(LearnAll(h, t), y)
  BY <1>1, <1>2, <1>3
<1>. QED  BY <1>3, <1>4 DEF t

-----------------------------------------------------------------------------
(* No two processes have a pid in common. *)
LEMMA OnePid ==
    ASSUME OwnPids, NEW p \in Proc, NEW x \in PidsOf[p] \union {0}
    PROVE  Running(x) \subseteq {p}
<1>. SUFFICES ASSUME NEW r \in Running(x) PROVE r = p
  OBVIOUS
<1>1. r \in Proc /\ stage[r] # "off" /\ pid[r] = x
  BY DEF Running
<1>2. pid[r] # 0 /\ pid[r] \in PidsOf[r] \union {0}
  BY <1>1 DEF OwnPids
<1>3. x \in PidsOf[p] \intersect PidsOf[r]
  BY <1>1, <1>2
<1>. QED  BY <1>1, <1>3, StartupAssumption

(* Shapes, action by action.                                               *)
LEMMA InitShapes == Init => Shapes
<1>. SUFFICES ASSUME Init PROVE Shapes
  OBVIOUS
<1>. USE DEF Init
<1>1. coordinator \in {GATEWAY, FRONTEND}
  OBVIOUS
<1>2. Expected \in Nat /\ Expected > 1 /\ coordinator \in Proc
  BY <1>1, Coordinators
<1>3. 0 \in Pids
  BY PidsAreNaturals
<1>4. [q \in Proc |-> 0] \in [Proc -> Pids]
  BY <1>3
<1>5. TypeOK
  <2>1. /\ pid \in [Proc -> Pids] /\ pidMap \in [Proc -> Pids]
        /\ matriz \in [Proc -> [Proc -> Pids]] /\ hash \in [Proc -> [0 .. HashSize - 1 -> Pids]]
    BY <1>3, <1>4
  <2>2. count \in 0 .. Expected /\ sent \in 0 .. Expected
    BY <1>2
  <2>3. /\ ready \in [Proc -> Seq(SignalOf(Fn))] /\ signals \in [Proc -> Seq(SignalOf(Object))]
        /\ held \in [Proc -> Seq(Object)]
    OBVIOUS
  <2>. QED  BY <1>1, <2>1, <2>2, <2>3 DEF TypeOK
<1>6. Counted
  BY <1>2 DEF Counted
<1>7. OwnPids
  BY <1>2 DEF OwnPids, StagesOf
<1>. QED  BY <1>5, <1>6, <1>7 DEF Shapes

(* What a process that starts does to the pids. *)
Starting(p, x, s) ==
    /\ Start(p, x)
    /\ s \in StagesOf(p) \ {"off", "open", "send", "running"}
    /\ stage' = [stage EXCEPT ![p] = s]
    /\ pidMap' \in {pidMap, [pidMap EXCEPT ![p] = x]}
    /\ s \in {"gather", "waiting"} => pidMap' = [pidMap EXCEPT ![p] = x]
    /\ \A a, b \in Proc : matriz'[a][b] \in {matriz[a][b], pidMap[b]} \union (IF b = p THEN {x} ELSE {})
    /\ \A a \in Proc \ {p} : matriz'[a] = matriz[a] /\ hash'[a] = hash[a]
    /\ p = coordinator => \A f \in Members : matriz'[p][f] = matriz[p][f]
    /\ s = "gather" => matriz'[p][p] = x /\ (Apart' => Knows(hash'[p], x))
    /\ s \in {"gather", "waiting"} /\ (coordinator = GATEWAY \/ s = "gather") =>
           /\ matriz'[p][GATEWAY] = pidMap[GATEWAY]
           /\ Apart' => Knows(hash'[p], pidMap[GATEWAY])
    /\ p # GATEWAY /\ mishaps' = {} =>
           /\ stage[GATEWAY] # "off"
           /\ s = IF p = coordinator THEN "gather" ELSE "waiting"
           /\ pidMap[IF p = coordinator THEN GATEWAY ELSE coordinator] # 0
    /\ p = GATEWAY => s = "pinned"
    /\ \/ ready' = ready
       \/ /\ p \in Members /\ s = "waiting"
          /\ ready' = [q \in Proc |-> IF q \in Running(pidMap[coordinator])
                                      THEN Append(ready[q], [from |-> x, value |-> p])
                                      ELSE ready[q]]
    /\ mishaps \subseteq mishaps'
    /\ UNCHANGED <<coordinator, signals, count, sent, objects>>

LEMMA StartShapes ==
    ASSUME Shapes, NEW p \in Proc, NEW x, NEW s, Starting(p, x, s),
           matriz' \in [Proc -> [Proc -> Pids]], hash' \in [Proc -> [0 .. HashSize - 1 -> Pids]],
           mishaps' \subseteq {"hasty", "restart", "overtaken", "early"}
    PROVE  Shapes'
<1>. USE DEF Shapes, Starting, Start
<1>1. coordinator' = coordinator /\ Members' = Members /\ Expected' = Expected
  BY DEF Members, Expected
<1>2. /\ coordinator \in Proc /\ Expected \in Nat /\ Expected > 1 /\ Fn \subseteq Proc
      /\ Members \subseteq Fn
  BY Coordinators DEF TypeOK
<1>3. x \in Pids \ {0} /\ x \in PidsOf[p]
  BY PidsAreNaturals
<1>4. \A i \in DOMAIN ready[coordinator]' :
          \/ i \in DOMAIN ready[coordinator] /\ ready[coordinator]'[i] = ready[coordinator][i]
          \/ p \in Members /\ ready[coordinator]'[i] = [from |-> x, value |-> p]
  <2>1. ready[coordinator] \in Seq(SignalOf(Fn))
    BY <1>2 DEF TypeOK
  <2>2. CASE ready' = ready
    BY <2>2, <1>1
  <2>3. CASE p \in Members /\ ready'[coordinator] = Append(ready[coordinator], [from |-> x, value |-> p])
    BY <2>1, <2>3, <1>1
  <2>. QED  BY <1>1, <1>2, <2>2, <2>3
<1>5. ready' \in [Proc -> Seq(SignalOf(Fn))]
  <2>1. p \in Members => [from |-> x, value |-> p] \in SignalOf(Fn)
    BY <1>2, <1>3 DEF SignalOf
  <2>2. \A q \in Proc : ready[q] \in Seq(SignalOf(Fn))
    BY DEF TypeOK
  <2>3. \A q \in Proc : p \in Members => Append(ready[q], [from |-> x, value |-> p]) \in Seq(SignalOf(Fn))
    BY <2>1, <2>2
  <2>4. CASE ready' = ready
    BY <2>4 DEF TypeOK
  <2>5. ASSUME p \in Members, NEW D,
               ready' = [q \in Proc |-> IF q \in D THEN Append(ready[q], [from |-> x, value |-> p])
                                        ELSE ready[q]]
        PROVE  ready' \in [Proc -> Seq(SignalOf(Fn))]
    BY <2>2, <2>3, <2>5
  <2>. QED  BY <2>4, <2>5
<1>6. TypeOK'
  <2>1. s \in {"off", "pinned", "open", "gather", "send", "waiting", "running", "ended"}
    BY DEF StagesOf
  <2>2. /\ stage' \in [Proc -> {"off", "pinned", "open", "gather", "send", "waiting",
                               "running", "ended"}]
        /\ pid' \in [Proc -> Pids] /\ used' \subseteq Pids \ {0} /\ pidMap' \in [Proc -> Pids]
    <3>1. /\ stage \in [Proc -> {"off", "pinned", "open", "gather", "send", "waiting",
                                 "running", "ended"}]
          /\ pid \in [Proc -> Pids] /\ used \subseteq Pids \ {0} /\ pidMap \in [Proc -> Pids]
      BY DEF TypeOK
    <3>2. stage' \in [Proc -> {"off", "pinned", "open", "gather", "send", "waiting",
                               "running", "ended"}]
      BY <2>1, <3>1
    <3>3. pid' \in [Proc -> Pids] /\ used' \subseteq Pids \ {0}
      BY <1>3, <3>1
    <3>4. pidMap' \in [Proc -> Pids]
      BY <1>3, <3>1
    <3>. QED  BY <3>2, <3>3, <3>4
  <2>. QED  BY <1>1, <1>5, <2>2 DEF TypeOK, objects
<1>7. Counted'
  <2>1. stage \in [Proc -> {"off", "pinned", "open", "gather", "send", "waiting",
                               "running", "ended"}]
    BY DEF TypeOK
  <2>2. CASE p = coordinator
    <3>1. count = 0 /\ sent = 0 /\ stage'[coordinator] # "send"
      BY <2>1, <2>2, <1>2 DEF Counted
    <3>. QED  BY <3>1, <1>1, <1>2 DEF Counted
  <2>3. CASE p # coordinator
    <3>1. stage'[coordinator] = stage[coordinator]
      BY <2>1, <2>3
    <3>. QED  BY <3>1, <1>1 DEF Counted
  <2>. QED  BY <2>2, <2>3
<1>8. OwnPids'
  <2>1. /\ stage \in [Proc -> {"off", "pinned", "open", "gather", "send", "waiting",
                               "running", "ended"}]
        /\ pid \in [Proc -> Pids] /\ pidMap \in [Proc -> Pids]
    BY DEF TypeOK
  <2>2. ASSUME NEW q \in Proc
        PROVE  /\ stage'[q] \in StagesOf(q)'
               /\ pid'[q] \in (PidsOf[q] \intersect used') \union {0}
               /\ stage'[q] # "off" => pid'[q] # 0
               /\ pidMap'[q] \in (PidsOf[q] \intersect used') \union {0}
               /\ stage'[q] = "off" => signals'[q] = <<>>
    <3>1. /\ stage[q] \in StagesOf(q) /\ StagesOf(q)' = StagesOf(q)
          /\ pid[q] \in (PidsOf[q] \intersect used) \union {0}
          /\ stage[q] # "off" => pid[q] # 0
          /\ pidMap[q] \in (PidsOf[q] \intersect used) \union {0}
          /\ stage[q] = "off" => signals[q] = <<>>
      BY <1>1 DEF OwnPids, StagesOf
    <3>2. CASE q = p
      BY <2>1, <3>1, <3>2, <1>3
    <3>3. CASE q # p
      BY <2>1, <3>1, <3>3
    <3>. QED  BY <3>2, <3>3
  <2>3. ASSUME NEW a \in Proc, NEW b \in Proc
        PROVE  matriz'[a][b] \in (PidsOf[b] \intersect used') \union {0}
    <3>1. /\ matriz'[a][b] \in {matriz[a][b], pidMap[b]} \union (IF b = p THEN {x} ELSE {})
          /\ used' = used \union {x} /\ OwnPids
      OBVIOUS
    <3>2. {matriz[a][b], pidMap[b]} \subseteq (PidsOf[b] \intersect used) \union {0}
      BY <3>1 DEF OwnPids
    <3>. HIDE DEF Shapes, Starting, Start
    <3>. QED  BY <1>3, <3>1, <3>2
  <2>4. ASSUME NEW i \in DOMAIN ready'[coordinator]
        PROVE  /\ ready'[coordinator][i].value \in Members
               /\ ready'[coordinator][i].from \in PidsOf[ready'[coordinator][i].value] \intersect used'
    <3>1. used' = used \union {x} /\ OwnPids
      OBVIOUS
    <3>. HIDE DEF Shapes, Starting, Start
    <3>2. CASE i \in DOMAIN ready[coordinator] /\ ready'[coordinator][i] = ready[coordinator][i]
      BY <3>1, <3>2 DEF OwnPids
    <3>3. CASE p \in Members /\ ready'[coordinator][i] = [from |-> x, value |-> p]
      BY <1>3, <3>1, <3>3
    <3>. QED  BY <1>1, <1>4, <3>2, <3>3
  <2>5. ASSUME NEW f \in Proc \ {coordinator}
        PROVE  \A i \in DOMAIN ready'[f] : ready'[f][i].value = GoValue
    <3>1. Running(pidMap[coordinator]) \subseteq {coordinator}
      BY <1>2, OnePid DEF OwnPids
    <3>2. ready \in [Proc -> Seq(SignalOf(Fn))]
      BY DEF TypeOK
    <3>3. ready'[f] = ready[f]
      BY <3>1, <3>2
    <3>. QED  BY <3>3 DEF OwnPids
  <2>. QED  BY <2>2, <2>3, <2>4, <2>5, <1>1 DEF OwnPids
<1>. QED  BY <1>6, <1>7, <1>8

LEMMA MishapType ==
    ASSUME NEW w \in {"hasty", "restart", "overtaken", "early"}, NEW b \in BOOLEAN, Mishap(w, b),
           mishaps \subseteq {"hasty", "restart", "overtaken", "early"}
    PROVE  mishaps' \subseteq {"hasty", "restart", "overtaken", "early"}
  BY DEF Mishap

LEMMA RegisterStarts ==
    ASSUME Shapes, NEW f \in Proc, NEW x, Register(f, x),
           \A a \in Proc \ {f} : hash'[a] = hash[a],
           coordinator = GATEWAY /\ Apart' => Knows(hash'[f], pidMap[GATEWAY])
    PROVE  /\ Starting(f, x, "waiting") /\ f \in Members
           /\ x \in Pids /\ matriz' \in [Proc -> [Proc -> Pids]]
           /\ mishaps' \subseteq {"hasty", "restart", "overtaken", "early"}
<1>. USE DEF Register
<1>1. /\ TypeOK /\ OwnPids /\ coordinator \in Proc /\ f \in Members /\ f # coordinator
      /\ f # GATEWAY
  BY Coordinators DEF Shapes, TypeOK, Members
<1>2. x \in Pids
  BY PidsAreNaturals DEF Start
<1>3. pidMap[coordinator] \in Pids /\ pidMap[coordinator] \in PidsOf[coordinator] \union {0}
  BY <1>1 DEF TypeOK, OwnPids
<1>4. matriz \in [Proc -> [Proc -> Pids]]
  BY <1>1 DEF TypeOK
<1>5. matriz' = [matriz EXCEPT ![f] = [[@ EXCEPT ![f] = x] EXCEPT ![coordinator] = pidMap[coordinator]]]
  BY <1>4
<1>6. /\ matriz' \in [Proc -> [Proc -> Pids]]
      /\ \A a, b \in Proc : matriz'[a][b] \in {matriz[a][b], pidMap[b]} \union (IF b = f THEN {x} ELSE {})
  BY <1>1, <1>2, <1>3, <1>4, <1>5
<1>7. Running(pidMap[coordinator]) \in SUBSET {coordinator}
  BY <1>1, <1>3, OnePid
<1>8. "waiting" \in StagesOf(f) \ {"off", "open", "send", "running"}
  BY <1>1 DEF StagesOf
<1>9. mishaps' \subseteq {"hasty", "restart", "overtaken", "early"}
  BY <1>1, MishapType DEF TypeOK
<1>10. Starting(f, x, "waiting")
  <2>1. \A a \in Proc \ {f} : matriz'[a] = matriz[a] /\ hash'[a] = hash[a]
    BY <1>1, <1>4, <1>5
  <2>2. mishaps \subseteq mishaps' /\ (mishaps' = {} => pidMap[coordinator] # 0)
    BY DEF Mishap
  <2>3. coordinator = GATEWAY => matriz'[f][GATEWAY] = pidMap[GATEWAY]
    BY <1>1, <1>4, <1>5
  <2>. QED  BY <1>1, <1>6, <1>8, <2>1, <2>2, <2>3 DEF Starting
<1>. QED  BY <1>1, <1>2, <1>6, <1>9, <1>10

(* Every way to start is a start. *)
LEMMA StartStarts ==
    ASSUME Shapes, NEW p \in Proc, NEW x \in PidsOf[p],
           \/ p = GATEWAY /\ GatewayPins(x)
           \/ NoMap(p, x)
           \/ p = FRONTEND /\ FrontendStarts(x)
           \/ NfStarts(p, x)
           \/ ServiceStarts(p, x)
    PROVE  /\ \E s : Starting(p, x, s)
           /\ matriz' \in [Proc -> [Proc -> Pids]] /\ hash' \in [Proc -> [0 .. HashSize - 1 -> Pids]]
           /\ mishaps' \subseteq {"hasty", "restart", "overtaken", "early"}
<1>1. /\ TypeOK /\ OwnPids /\ coordinator \in {GATEWAY, FRONTEND} /\ coordinator \in Proc
      /\ GATEWAY \in Proc /\ FRONTEND \in Proc /\ FRONTEND # GATEWAY
      /\ matriz \in [Proc -> [Proc -> Pids]] /\ hash \in [Proc -> [0 .. HashSize - 1 -> Pids]]
      /\ mishaps \subseteq {"hasty", "restart", "overtaken", "early"}
      /\ pidMap[GATEWAY] \in Pids
  BY Coordinators, GatewayIsNotFrontend DEF Shapes, TypeOK
<1>2. x \in Pids
  BY PidsAreNaturals
<1>3. CASE p = GATEWAY /\ GatewayPins(x)
  <2>1. 0 \in 0 .. HashSize - 1
    BY StartupAssumption
  <2>2. hash' \in [Proc -> [0 .. HashSize - 1 -> Pids]]
    BY <1>1, <1>2, <1>3, <2>1 DEF GatewayPins
  <2>3. "pinned" \in StagesOf(p) \ {"off", "open", "send", "running"}
    BY <1>3 DEF StagesOf
  <2>4. \A a \in Proc \ {p} : hash'[a] = hash[a]
    BY <1>1, <1>3 DEF GatewayPins
  <2>5. Starting(p, x, "pinned")
    BY <1>3, <2>3, <2>4 DEF GatewayPins, Starting, rendezvous
  <2>. QED  BY <1>1, <1>3, <2>2, <2>5 DEF GatewayPins
<1>4. CASE NoMap(p, x)
  <2>1. "ended" \in StagesOf(p) \ {"off", "open", "send", "running"}
    BY DEF StagesOf
  <2>2. mishaps \subseteq mishaps' /\ mishaps' # {} /\ p # GATEWAY
    BY <1>4, Coordinators, <1>1 DEF NoMap, Mishap
  <2>3. Starting(p, x, "ended")
    BY <1>4, <2>1, <2>2 DEF NoMap, Starting, rendezvous
  <2>. QED  BY <1>1, <1>4, <2>3, MishapType DEF NoMap
<1>5. CASE p = FRONTEND /\ FrontendStarts(x)
  <2>1. "gather" \in StagesOf(p) \ {"off", "open", "send", "running"}
    BY <1>5 DEF StagesOf, FrontendStarts
  <2>2. matriz' = [matriz EXCEPT ![FRONTEND] = [[@ EXCEPT ![FRONTEND] = x] EXCEPT ![GATEWAY] = pidMap[GATEWAY]]]
    BY <1>1, <1>5 DEF FrontendStarts
  <2>3. /\ matriz' \in [Proc -> [Proc -> Pids]]
        /\ \A a, b \in Proc : matriz'[a][b] \in {matriz[a][b], pidMap[b]} \union (IF b = p THEN {x} ELSE {})
    BY <1>1, <1>2, <1>5, <2>2
  <2>4. LearnAll(hash[FRONTEND], <<x, pidMap[GATEWAY]>>) \in [0 .. HashSize - 1 -> Pids]
    <3>1. <<x, pidMap[GATEWAY]>> \in Seq(Pids) /\ hash[FRONTEND] \in [0 .. HashSize - 1 -> Pids]
      BY <1>1, <1>2
    <3>. QED  BY <3>1, LearnAllType
  <2>5. hash' \in [Proc -> [0 .. HashSize - 1 -> Pids]]
    BY <1>1, <1>5, <2>4 DEF FrontendStarts
  <2>6. /\ \A a \in Proc \ {p} : matriz'[a] = matriz[a] /\ hash'[a] = hash[a]
        /\ \A f \in Members : matriz'[p][f] = matriz[p][f]
        /\ matriz'[p][p] = x /\ pidMap' = [pidMap EXCEPT ![p] = x]
        /\ used' = used \union {x} /\ matriz'[p][GATEWAY] = pidMap[GATEWAY]
    BY <1>1, <1>5, <2>2, Coordinators DEF FrontendStarts, Members, Start
  <2>7. ASSUME Apart' PROVE Knows(hash'[p], x) /\ Knows(hash'[p], pidMap[GATEWAY])
    <3>1. hash'[p] = LearnAll(hash[p], <<x, pidMap[GATEWAY]>>)
      BY <1>1, <1>5 DEF FrontendStarts
    <3>2. x \in Used0' /\ pidMap[GATEWAY] \in Used0'
      BY <1>1, <2>6 DEF Used0, OwnPids
    <3>3. Used0' \subseteq Nat
      BY <1>1, <1>2, <2>6, PidsAreNaturals DEF Used0, TypeOK
    <3>4. \A a, b \in Used0' : a # b => a % HashSize # b % HashSize
      BY <2>7 DEF Apart, Used0
    <3>5. hash[p] \in [0 .. HashSize - 1 -> Pids]
      BY <1>1
    <3>6. x \in Used0' \intersect Pids /\ pidMap[GATEWAY] \in Used0' \intersect Pids
      BY <1>1, <1>2, <3>2
    <3>7. /\ Knows(LearnAll(hash[p], <<x, pidMap[GATEWAY]>>), x)
          /\ Knows(LearnAll(hash[p], <<x, pidMap[GATEWAY]>>), pidMap[GATEWAY])
      BY <3>3, <3>4, <3>5, <3>6, LearnTwo
    <3>. QED  BY <3>1, <3>7
  <2>8. mishaps \subseteq mishaps' /\ (mishaps' = {} => pidMap[GATEWAY] # 0)
    BY <1>5 DEF FrontendStarts, Mishap
  <2>9. Starting(p, x, "gather")
    BY <1>1, <1>5, <2>1, <2>3, <2>6, <2>7, <2>8 DEF FrontendStarts, Starting, rendezvous
  <2>. QED  BY <1>1, <1>5, <2>3, <2>5, <2>9, MishapType DEF FrontendStarts
<1>6. CASE NfStarts(p, x)
  <2>1. LearnAll(hash[p], <<x, pidMap[GATEWAY]>>) \in [0 .. HashSize - 1 -> Pids]
    <3>1. <<x, pidMap[GATEWAY]>> \in Seq(Pids) /\ hash[p] \in [0 .. HashSize - 1 -> Pids]
      BY <1>1, <1>2
    <3>. QED  BY <3>1, LearnAllType
  <2>2. hash' \in [Proc -> [0 .. HashSize - 1 -> Pids]]
    BY <1>1, <1>6, <2>1 DEF NfStarts
  <2>3. \A a \in Proc \ {p} : hash'[a] = hash[a]
    BY <1>1, <1>6 DEF NfStarts
  <2>4. ASSUME Apart' PROVE Knows(hash'[p], pidMap[GATEWAY])
    <3>1. hash'[p] = LearnAll(hash[p], <<x, pidMap[GATEWAY]>>) /\ used' = used \union {x}
      BY <1>1, <1>6 DEF NfStarts, Register, Start
    <3>2. x \in Used0' /\ pidMap[GATEWAY] \in Used0'
      BY <1>1, <3>1 DEF Used0, OwnPids
    <3>3. Used0' \subseteq Nat
      BY <1>1, <1>2, <3>1, PidsAreNaturals DEF Used0, TypeOK
    <3>4. \A a, b \in Used0' : a # b => a % HashSize # b % HashSize
      BY <2>4 DEF Apart, Used0
    <3>5. hash[p] \in [0 .. HashSize - 1 -> Pids]
      BY <1>1
    <3>6. x \in Used0' \intersect Pids /\ pidMap[GATEWAY] \in Used0' \intersect Pids
      BY <1>1, <1>2, <3>2
    <3>7. Knows(LearnAll(hash[p], <<x, pidMap[GATEWAY]>>), pidMap[GATEWAY])
      BY <3>3, <3>4, <3>5, <3>6, LearnTwo
    <3>. QED  BY <3>1, <3>7
  <2>. QED  BY <1>6, <2>2, <2>3, <2>4, RegisterStarts DEF NfStarts
<1>7. CASE ServiceStarts(p, x)
  <2>1. Learn(hash[p], x) \in [0 .. HashSize - 1 -> Pids]
    BY <1>1, <1>2, LearnType
  <2>2. hash' \in [Proc -> [0 .. HashSize - 1 -> Pids]]
    BY <1>1, <1>7, <2>1 DEF ServiceStarts
  <2>3. \A a \in Proc \ {p} : hash'[a] = hash[a]
    BY <1>1, <1>7 DEF ServiceStarts
  <2>. QED  BY <1>1, <1>7, <2>2, <2>3, RegisterStarts DEF ServiceStarts
<1>. QED  BY <1>3, <1>4, <1>5, <1>6, <1>7

LEMMA StartStepShapes ==
    ASSUME Shapes, NEW p \in Proc, StartStep(p)
    PROVE  Shapes'
  BY StartStarts, StartShapes DEF StartStep

(* What a step of the start-up, of a process that has started, may do.     *)
LEMMA ProgressShapes ==
    ASSUME Shapes, UNCHANGED <<coordinator, pid, used, objects>>,
           NEW p \in Proc, stage[p] # "off", NEW s \in StagesOf(p), s # "off" \/ signals'[p] = <<>>,
           stage' = [stage EXCEPT ![p] = s],
           pidMap' \in {pidMap, [pidMap EXCEPT ![p] = pid[p]]},
           matriz' \in [Proc -> [Proc -> Pids]], hash' \in [Proc -> [0 .. HashSize - 1 -> Pids]],
           \A a, b \in Proc :
                \/ matriz'[a][b] \in {matriz[a][b], pidMap[b], 0, pid[b]}
                \/ /\ a = coordinator
                   /\ \E i \in DOMAIN ready[a] : b = ready[a][i].value /\ matriz'[a][b] = ready[a][i].from,
           ready' \in [Proc -> Seq(SignalOf(Fn))],
           \A q \in Proc : \A i \in DOMAIN ready'[q] :
                \/ \E j \in DOMAIN ready[q] : ready'[q][i] = ready[q][j]
                \/ q # coordinator /\ ready'[q][i].value = GoValue,
           signals' \in [Proc -> Seq(SignalOf(Object))],
           \A q \in Proc : signals[q] = <<>> => signals'[q] = <<>>,
           count' \in 0 .. Expected, sent' \in 0 .. Expected, Counted',
           mishaps' \subseteq {"hasty", "restart", "overtaken", "early"}
    PROVE  Shapes'
<1>. USE DEF Shapes
<1>1. coordinator' = coordinator /\ Members' = Members /\ Expected' = Expected
  BY DEF Members, Expected
<1>2. /\ coordinator \in Proc /\ Expected \in Nat /\ Expected > 1 /\ Fn \subseteq Proc
      /\ Members \subseteq Fn
  BY Coordinators DEF TypeOK
<1>3. /\ stage \in [Proc -> {"off", "pinned", "open", "gather", "send", "waiting",
                               "running", "ended"}]
      /\ pid \in [Proc -> Pids] /\ pidMap \in [Proc -> Pids]
  BY DEF TypeOK
<1>4. TypeOK'
  <2>1. s \in {"off", "pinned", "open", "gather", "send", "waiting", "running", "ended"}
    BY DEF StagesOf
  <2>2. stage' \in [Proc -> {"off", "pinned", "open", "gather", "send", "waiting",
                               "running", "ended"}]
    BY <2>1, <1>3
  <2>3. pidMap' \in [Proc -> Pids]
    <3>1. CASE pidMap' = pidMap
      BY <3>1, <1>3
    <3>2. CASE pidMap' = [pidMap EXCEPT ![p] = pid[p]]
      BY <3>2, <1>3
    <3>. QED  BY <3>1, <3>2
  <2>4. /\ pid' \in [Proc -> Pids] /\ used' \subseteq Pids \ {0} /\ coordinator' \in {GATEWAY, FRONTEND}
        /\ seen' \in [Proc -> Object \union {None}] /\ deaf' \subseteq Proc
        /\ held' \in [Proc -> Seq(Object)]
        /\ inUse' \subseteq Object /\ hop' \in [Object -> Nat]
    BY DEF TypeOK, objects
  <2>. QED  BY <1>1, <2>2, <2>3, <2>4 DEF TypeOK
<1>5. ASSUME NEW q \in Proc
      PROVE  /\ stage'[q] \in StagesOf(q)'
             /\ pid'[q] \in (PidsOf[q] \intersect used') \union {0}
             /\ stage'[q] # "off" => pid'[q] # 0
             /\ pidMap'[q] \in (PidsOf[q] \intersect used') \union {0}
             /\ stage'[q] = "off" => signals'[q] = <<>>
  <2>1. /\ stage[q] \in StagesOf(q) /\ StagesOf(q)' = StagesOf(q)
        /\ pid[q] \in (PidsOf[q] \intersect used) \union {0}
        /\ stage[q] # "off" => pid[q] # 0
        /\ pidMap[q] \in (PidsOf[q] \intersect used) \union {0}
        /\ stage[q] = "off" => signals[q] = <<>>
    BY <1>1 DEF OwnPids, StagesOf
  <2>2. CASE q = p
    BY <1>3, <2>1, <2>2
  <2>3. CASE q # p
    BY <1>3, <2>1, <2>3
  <2>. QED  BY <2>2, <2>3
<1>6. ASSUME NEW a \in Proc, NEW b \in Proc
      PROVE  matriz'[a][b] \in (PidsOf[b] \intersect used') \union {0}
  <2>1. {matriz[a][b], pidMap[b], 0, pid[b]} \subseteq (PidsOf[b] \intersect used) \union {0}
    BY DEF OwnPids
  <2>2. ASSUME a = coordinator, NEW i \in DOMAIN ready[a], b = ready[a][i].value,
               matriz'[a][b] = ready[a][i].from
        PROVE  matriz'[a][b] \in (PidsOf[b] \intersect used) \union {0}
    BY <2>2 DEF OwnPids
  <2>3. used' = used
    OBVIOUS
  <2>. QED  BY <2>1, <2>2, <2>3
<1>7. ASSUME NEW i \in DOMAIN ready'[coordinator]
      PROVE  /\ ready'[coordinator][i].value \in Members
             /\ ready'[coordinator][i].from \in PidsOf[ready'[coordinator][i].value] \intersect used'
  <2>1. PICK j \in DOMAIN ready[coordinator] : ready'[coordinator][i] = ready[coordinator][j]
    BY <1>2
  <2>2. used' = used
    OBVIOUS
  <2>. QED  BY <2>1, <2>2 DEF OwnPids
<1>8. ASSUME NEW f \in Proc \ {coordinator}, NEW i \in DOMAIN ready'[f]
      PROVE  ready'[f][i].value = GoValue
  <2>1. \A j \in DOMAIN ready[f] : ready[f][j].value = GoValue
    BY DEF OwnPids
  <2>2. \/ \E j \in DOMAIN ready[f] : ready'[f][i] = ready[f][j]
        \/ ready'[f][i].value = GoValue
    OBVIOUS
  <2>. QED  BY <2>1, <2>2
<1>9. OwnPids'
  BY <1>1, <1>5, <1>6, <1>7, <1>8 DEF OwnPids
<1>. QED  BY <1>4, <1>9

(* What is left of a queue of signals when one is taken.                   *)
LEMMA Tails ==
    ASSUME NEW S, NEW t \in [Proc -> Seq(S)], NEW p \in Proc, t[p] # <<>>,
           NEW u, u = [t EXCEPT ![p] = Tail(@)]
    PROVE  /\ u \in [Proc -> Seq(S)]
           /\ \A q \in Proc \ {p} : u[q] = t[q]
           /\ u[p] = Tail(t[p]) /\ Len(u[p]) = Len(t[p]) - 1 /\ Len(t[p]) > 0 /\ Len(t[p]) \in Nat
           /\ DOMAIN u[p] = 1 .. Len(t[p]) - 1
           /\ \A i \in DOMAIN u[p] : u[p][i] = t[p][i + 1] /\ i + 1 \in DOMAIN t[p]
           /\ Head(t[p]) = t[p][1] /\ 1 \in DOMAIN t[p] /\ Head(t[p]) \in S
<1>1. t[p] \in Seq(S) /\ Len(t[p]) \in Nat /\ DOMAIN t[p] = 1 .. Len(t[p])
  OBVIOUS
<1>2. Len(t[p]) > 0
  BY <1>1, EmptySeq
<1>3. /\ Tail(t[p]) \in Seq(S) /\ Len(Tail(t[p])) = Len(t[p]) - 1 /\ u[p] = Tail(t[p])
      /\ \A i \in 1 .. Len(t[p]) - 1 : Tail(t[p])[i] = t[p][i + 1]
      /\ Head(t[p]) = t[p][1] /\ Head(t[p]) \in S
  BY <1>1, <1>2
<1>4. DOMAIN u[p] = 1 .. Len(t[p]) - 1
  BY <1>3
<1>. QED  BY <1>1, <1>2, <1>3, <1>4

LEMMA StageTypes ==
    ASSUME Shapes
    PROVE  /\ coordinator \in {GATEWAY, FRONTEND} /\ coordinator \in Proc
           /\ GATEWAY \in Proc /\ FRONTEND \in Proc /\ FRONTEND # GATEWAY
           /\ stage \in [Proc -> {"off", "pinned", "open", "gather", "send", "waiting",
                                  "running", "ended"}]
           /\ pid \in [Proc -> Pids] /\ pidMap \in [Proc -> Pids]
           /\ matriz \in [Proc -> [Proc -> Pids]]
           /\ hash \in [Proc -> [0 .. HashSize - 1 -> Pids]]
           /\ ready \in [Proc -> Seq(SignalOf(Fn))]
           /\ signals \in [Proc -> Seq(SignalOf(Object))]
           /\ Expected \in Nat /\ Expected > 1
           /\ count \in 0 .. Expected /\ sent \in 0 .. Expected
           /\ mishaps \subseteq {"hasty", "restart", "overtaken", "early"}
           /\ Members \subseteq Fn /\ Fn \subseteq Proc /\ coordinator \notin Members
  BY Coordinators, GatewayIsNotFrontend DEF Shapes, TypeOK, Members

LEMMA GatewayOpensShapes ==
    ASSUME Shapes, GatewayOpens
    PROVE  Shapes'
<1>. USE DEF GatewayOpens, rendezvous
<1>. "open" \in StagesOf(GATEWAY)
  BY DEF StagesOf
<1>1. Counted'
  BY StageTypes DEF Counted, Expected, Members, Shapes
<1>. QED  BY <1>1, StageTypes, ProgressShapes

LEMMA GatewayGathersShapes ==
    ASSUME Shapes, GatewayGathers
    PROVE  Shapes'
<1>. USE DEF GatewayGathers, rendezvous
<1>1. "gather" \in StagesOf(GATEWAY)
  BY DEF StagesOf
<1>2. Counted'
  BY StageTypes DEF Counted, Expected, Members, Shapes
<1>3. hash' \in [Proc -> [0 .. HashSize - 1 -> Pids]]
  <2>1. Learn(hash[GATEWAY], pid[GATEWAY]) \in [0 .. HashSize - 1 -> Pids]
    BY StageTypes, LearnType
  <2>. QED  BY <2>1, StageTypes
<1>4. /\ matriz' \in [Proc -> [Proc -> Pids]]
      /\ \A a, b \in Proc : matriz'[a][b] \in {matriz[a][b], pidMap[b], 0, pid[b]}
  BY StageTypes
<1>. QED  BY <1>1, <1>2, <1>3, <1>4, StageTypes, ProgressShapes

LEMMA GatewayLooksUpShapes ==
    ASSUME Shapes, GatewayLooksUp
    PROVE  Shapes'
<1>. USE DEF GatewayLooksUp, rendezvous
<1>1. "running" \in StagesOf(GATEWAY)
  BY DEF StagesOf
<1>2. Counted'
  BY StageTypes DEF Counted, Expected, Members, Shapes
<1>3. hash' \in [Proc -> [0 .. HashSize - 1 -> Pids]]
  <2>1. [hash[GATEWAY] EXCEPT ![FRONTEND % HashSize] = pidMap[FRONTEND]] \in [0 .. HashSize - 1 -> Pids]
    BY StageTypes
  <2>2. Learn([hash[GATEWAY] EXCEPT ![FRONTEND % HashSize] = pidMap[FRONTEND]], pidMap[FRONTEND])
           \in [0 .. HashSize - 1 -> Pids]
    BY <2>1, StageTypes, LearnType
  <2>. QED  BY <2>2, StageTypes
<1>4. /\ matriz' \in [Proc -> [Proc -> Pids]]
      /\ \A a, b \in Proc : matriz'[a][b] \in {matriz[a][b], pidMap[b], 0, pid[b]}
  BY StageTypes
<1>5. mishaps' \subseteq {"hasty", "restart", "overtaken", "early"}
  BY StageTypes, MishapType
<1>. QED  BY <1>1, <1>2, <1>3, <1>4, <1>5, StageTypes, ProgressShapes

LEMMA GatherShapes ==
    ASSUME Shapes, Gather
    PROVE  Shapes'
<1>. USE DEF Gather
<1>. DEFINE c == coordinator
            m == Head(ready[c])
<1>1. /\ ready' \in [Proc -> Seq(SignalOf(Fn))]
      /\ \A q \in Proc : \A i \in DOMAIN ready'[q] : \E j \in DOMAIN ready[q] : ready'[q][i] = ready[q][j]
      /\ 1 \in DOMAIN ready[c] /\ m = ready[c][1] /\ m.value \in Fn /\ m.from \in Pids
  <2>1. ready[c] # <<>> /\ c \in Proc /\ ready \in [Proc -> Seq(SignalOf(Fn))]
        /\ ready' = [ready EXCEPT ![c] = Tail(@)]
    BY StageTypes
  <2>2. /\ ready' \in [Proc -> Seq(SignalOf(Fn))]
        /\ \A q \in Proc \ {c} : ready'[q] = ready[q]
        /\ \A i \in DOMAIN ready'[c] : ready'[c][i] = ready[c][i + 1] /\ i + 1 \in DOMAIN ready[c]
        /\ m = ready[c][1] /\ 1 \in DOMAIN ready[c] /\ m \in SignalOf(Fn)
    BY <2>1, Tails
  <2>3. ASSUME NEW q \in Proc, NEW i \in DOMAIN ready'[q]
        PROVE  \E j \in DOMAIN ready[q] : ready'[q][i] = ready[q][j]
    BY <2>2
  <2>4. m.value \in Fn /\ m.from \in Pids
    BY <2>2 DEF SignalOf
  <2>. QED  BY <2>2, <2>3, <2>4
<1>2. /\ matriz' \in [Proc -> [Proc -> Pids]]
      /\ \A a, b \in Proc :
             \/ matriz'[a][b] = matriz[a][b]
             \/ a = coordinator /\ b = m.value /\ matriz'[a][b] = m.from
  BY <1>1, StageTypes
<1>3. hash' \in [Proc -> [0 .. HashSize - 1 -> Pids]]
  <2>1. Learn(hash[c], m.from) \in [0 .. HashSize - 1 -> Pids]
    BY <1>1, StageTypes, LearnType
  <2>. QED  BY <2>1, StageTypes
<1>4. \E s \in StagesOf(c) \ {"off"} :
          /\ stage' = [stage EXCEPT ![c] = s]
          /\ s = IF Enough(count') THEN "send" ELSE "gather"
  BY StageTypes DEF StagesOf
<1>5. count' \in 0 .. Expected /\ Counted'
  <2>1. /\ stage[c] = "gather" /\ count < Expected /\ sent = 0 /\ count' = count + 1 /\ sent' = sent
        /\ coordinator' = coordinator /\ Expected' = Expected
    BY DEF Counted, Shapes, Expected, Members
  <2>2. stage'[c] = IF Enough(count') THEN "send" ELSE "gather"
    BY <1>4, StageTypes
  <2>. QED  BY <2>1, <2>2, StageTypes DEF Counted, Enough
<1>6. PICK s \in StagesOf(c) \ {"off"} : stage' = [stage EXCEPT ![c] = s]
  BY <1>4
<1>. HIDE DEF m
<1>7. \A a, b \in Proc :
         \/ matriz'[a][b] \in {matriz[a][b], pidMap[b], 0, pid[b]}
         \/ /\ a = coordinator
            /\ \E i \in DOMAIN ready[a] : b = ready[a][i].value /\ matriz'[a][b] = ready[a][i].from
  BY <1>1, <1>2
<1>8. /\ stage[c] # "off" /\ UNCHANGED <<coordinator, pid, used, objects>>
      /\ pidMap' = pidMap /\ sent' = sent /\ signals' = signals /\ mishaps' = mishaps
  OBVIOUS
<1>. HIDE DEF Gather
<1>9. /\ s \in StagesOf(c) /\ s # "off" /\ stage' = [stage EXCEPT ![c] = s]
      /\ pidMap' \in {pidMap, [pidMap EXCEPT ![c] = pid[c]]}
      /\ mishaps' \subseteq {"hasty", "restart", "overtaken", "early"}
      /\ sent' \in 0 .. Expected /\ signals' \in [Proc -> Seq(SignalOf(Object))]
      /\ \A q \in Proc : signals[q] = <<>> => signals'[q] = <<>>
  BY <1>6, <1>8, StageTypes
<1>10. \A q \in Proc : \A i \in DOMAIN ready'[q] :
                \/ \E j \in DOMAIN ready[q] : ready'[q][i] = ready[q][j]
                \/ q # c /\ ready'[q][i].value = GoValue
  BY <1>1
<1>11. c \in Proc /\ ready' \in [Proc -> Seq(SignalOf(Fn))] /\ matriz' \in [Proc -> [Proc -> Pids]]
  BY <1>1, <1>2, StageTypes
<1>. QED  BY <1>3, <1>5, <1>7, <1>8, <1>9, <1>10, <1>11, ProgressShapes

(* What a signal that is sent to at most one process does. *)
LEMMA Appends ==
    ASSUME NEW S, NEW t \in [Proc -> Seq(S)], NEW D \in SUBSET Proc, NEW m \in S,
           NEW u, u = [q \in Proc |-> IF q \in D THEN Append(t[q], m) ELSE t[q]]
    PROVE  /\ u \in [Proc -> Seq(S)]
           /\ \A q \in Proc \ D : u[q] = t[q]
           /\ \A q \in D : /\ Len(t[q]) \in Nat /\ Len(u[q]) = Len(t[q]) + 1
                           /\ DOMAIN t[q] = 1 .. Len(t[q]) /\ DOMAIN u[q] = 1 .. Len(t[q]) + 1
                           /\ \A i \in DOMAIN t[q] : u[q][i] = t[q][i]
                           /\ u[q][Len(t[q]) + 1] = m
           /\ \A q \in Proc : \A i \in DOMAIN u[q] :
                  (i \in DOMAIN t[q] /\ u[q][i] = t[q][i]) \/ (q \in D /\ u[q][i] = m)
<1>1. \A q \in Proc : t[q] \in Seq(S) /\ Append(t[q], m) \in Seq(S)
  OBVIOUS
<1>2. ASSUME NEW q \in D
      PROVE  /\ Len(t[q]) \in Nat /\ Len(u[q]) = Len(t[q]) + 1
             /\ DOMAIN t[q] = 1 .. Len(t[q]) /\ DOMAIN u[q] = 1 .. Len(t[q]) + 1
             /\ \A i \in DOMAIN t[q] : u[q][i] = t[q][i]
             /\ u[q][Len(t[q]) + 1] = m
  BY <1>1
<1>3. ASSUME NEW q \in Proc, NEW i \in DOMAIN u[q]
      PROVE  (i \in DOMAIN t[q] /\ u[q][i] = t[q][i]) \/ (q \in D /\ u[q][i] = m)
  BY <1>2
<1>. QED  BY <1>1, <1>2, <1>3

(* The member that is sent go next. *)
NextMember == sent + IF coordinator = GATEWAY THEN 1 ELSE 2

LEMMA NextIsMember ==
    ASSUME Shapes, stage[coordinator] = "send"
    PROVE  /\ sent \in Nat /\ sent < Expected /\ NextMember \in Members
           /\ NextMember = NFn <=> sent + 1 = Expected
<1>1. sent < Expected /\ sent \in 0 .. Expected
  BY StageTypes DEF Shapes, Counted
<1>2. Expected = IF coordinator = GATEWAY THEN NFn ELSE NFn - 1
  BY StageTypes, Coordinators
<1>3. NFn \in Nat
  BY StartupAssumption
<1>4. CASE coordinator = GATEWAY
  BY <1>1, <1>2, <1>3, <1>4, StageTypes DEF Members, Fn, GATEWAY, NextMember
<1>5. CASE coordinator = FRONTEND
  BY <1>1, <1>2, <1>3, <1>5, StageTypes DEF Members, Fn, FRONTEND, NextMember
<1>. QED  BY <1>4, <1>5, StageTypes

(* The coordinator and the members, each at its step of the start.         *)
LEMMA SendGoShapes ==
    ASSUME Shapes, SendGo
    PROVE  Shapes'
<1>. USE DEF SendGo, tables
<1>. DEFINE c == coordinator
            f == sent + IF c = GATEWAY THEN 1 ELSE 2
            there == Running(matriz[c][f])
            m == [from |-> pid[c], value |-> GoValue]
<1>1. sent \in Nat /\ sent < Expected /\ f \in Members /\ (f = NFn <=> sent + 1 = Expected)
  BY NextIsMember DEF NextMember
<1>2. c \in Proc /\ f \in Proc /\ c # f /\ stage[c] = "send"
  BY <1>1, StageTypes
<1>3. m \in SignalOf(Fn)
  BY <1>2, StageTypes, StartupAssumption DEF SignalOf, Fn, GoValue
<1>4. /\ UNCHANGED <<coordinator, pid, used, objects>> /\ matriz' = matriz /\ hash' = hash
      /\ pidMap' = pidMap /\ count' = count /\ mishaps' = mishaps
      /\ Expected' = Expected /\ coordinator' = coordinator
  BY DEF Expected, Members
<1>5. CASE there = {}
  <2>1. /\ stage' = [stage EXCEPT ![c] = "ended"] /\ signals' = [signals EXCEPT ![c] = <<>>]
        /\ ready' = ready /\ sent' = sent
    BY <1>5 DEF End
  <2>2. "ended" \in StagesOf(c) /\ "ended" # "off"
    BY DEF StagesOf
  <2>3. signals' \in [Proc -> Seq(SignalOf(Object))] /\ \A q \in Proc : signals[q] = <<>> => signals'[q] = <<>>
    BY <2>1, StageTypes
  <2>4. Counted'
    BY <1>2, <1>4, <2>1, StageTypes DEF Counted
  <2>. HIDE DEF SendGo
  <2>. QED  BY <1>2, <1>4, <2>1, <2>2, <2>3, <2>4, StageTypes, ProgressShapes
<1>6. CASE there # {}
  <2>1. /\ ready' = [q \in Proc |-> IF q \in there THEN Append(ready[q], m) ELSE ready[q]]
        /\ sent' = sent + 1 /\ signals' = signals
        /\ stage' = IF f = NFn THEN [stage EXCEPT ![c] = "running"] ELSE stage
    BY <1>6
  <2>2. there \subseteq {f}
    <3>1. matriz[c][f] \in PidsOf[f] \union {0}
      BY <1>2 DEF Shapes, OwnPids
    <3>. QED  BY <1>2, <3>1, OnePid DEF Shapes
  <2>. HIDE DEF f, there, m, SendGo
  <2>3. /\ ready' \in [Proc -> Seq(SignalOf(Fn))]
        /\ \A q \in Proc : \A i \in DOMAIN ready'[q] :
               \/ i \in DOMAIN ready[q] /\ ready'[q][i] = ready[q][i]
               \/ q \in there /\ ready'[q][i] = m
    <3>1. there \in SUBSET Proc /\ ready \in [Proc -> Seq(SignalOf(Fn))]
      BY <1>2, <2>2, StageTypes
    <3>. QED  BY <1>3, <2>1, <3>1, Appends
  <2>4. m.value = GoValue
    BY DEF m
  <2>5. \A q \in Proc : \A i \in DOMAIN ready'[q] :
                \/ \E j \in DOMAIN ready[q] : ready'[q][i] = ready[q][j]
                \/ q # c /\ ready'[q][i].value = GoValue
    BY <1>2, <2>2, <2>3, <2>4
  <2>6. \E s \in StagesOf(c) : s # "off" /\ stage' = [stage EXCEPT ![c] = s]
                               /\ s = IF f = NFn THEN "running" ELSE "send"
    BY <1>2, <2>1, StageTypes DEF StagesOf
  <2>7. PICK s \in StagesOf(c) : s # "off" /\ stage' = [stage EXCEPT ![c] = s]
                               /\ s = IF f = NFn THEN "running" ELSE "send"
    BY <2>6
  <2>8. sent' \in 0 .. Expected /\ Counted'
    <3>1. stage'[c] = IF f = NFn THEN "running" ELSE "send"
      BY <2>7, <1>2, StageTypes
    <3>. QED  BY <1>1, <1>4, <2>1, <3>1, StageTypes DEF Counted
  <2>. QED  BY <1>2, <1>4, <2>1, <2>3, <2>5, <2>7, <2>8, StageTypes, ProgressShapes
<1>. QED  BY <1>5, <1>6

LEMMA MappedPids ==
    ASSUME Shapes
    PROVE  /\ [i \in Fn |-> pidMap[i]] \in Seq(Pids)
           /\ \A x \in Pids : [i \in Fn |-> pidMap[i]] \o <<x>> \in Seq(Pids)
<1>1. [i \in 1 .. NFn |-> pidMap[i]] \in [1 .. NFn -> Pids] /\ NFn \in Nat
  BY StageTypes, StartupAssumption DEF Fn
<1>2. [i \in Fn |-> pidMap[i]] \in Seq(Pids)
  BY <1>1 DEF Fn
<1>3. ASSUME NEW x \in Pids, NEW t \in Seq(Pids) PROVE t \o <<x>> \in Seq(Pids)
  OBVIOUS
<1>. QED  BY <1>2, <1>3

LEMMA WaitedShapes ==
    ASSUME Shapes, NEW f \in Proc, Waited(f), hash' \in [Proc -> [0 .. HashSize - 1 -> Pids]]
    PROVE  Shapes'
<1>. USE DEF Waited
<1>1. /\ f \in Proc /\ f \in Members /\ f # coordinator /\ f # GATEWAY /\ stage[f] # "off"
      /\ UNCHANGED <<coordinator, pid, used, objects>> /\ pidMap' = pidMap
      /\ count' = count /\ sent' = sent /\ stage' = [stage EXCEPT ![f] = "running"]
      /\ Expected' = Expected
  BY StageTypes, Coordinators DEF Members, Expected
<1>2. /\ signals' \in [Proc -> Seq(SignalOf(Object))] /\ ready' \in [Proc -> Seq(SignalOf(Fn))]
      /\ \A q \in Proc : signals[q] = <<>> => signals'[q] = <<>>
      /\ \A q \in Proc : \A i \in DOMAIN ready'[q] : \E j \in DOMAIN ready[q] : ready'[q][i] = ready[q][j]
  <2>1. CASE signals[f] # <<>>
    <3>1. signals' = [signals EXCEPT ![f] = Tail(@)] /\ ready' = ready
      BY <2>1
    <3>2. signals' \in [Proc -> Seq(SignalOf(Object))] /\ \A q \in Proc \ {f} : signals'[q] = signals[q]
      BY <2>1, <3>1, <1>1, StageTypes, Tails
    <3>. QED  BY <2>1, <3>1, <3>2, StageTypes
  <2>2. CASE signals[f] = <<>>
    <3>1. signals' = signals /\ ready' = [ready EXCEPT ![f] = Tail(@)] /\ ready[f] # <<>>
      BY <2>2
    <3>2. /\ ready' \in [Proc -> Seq(SignalOf(Fn))] /\ \A q \in Proc \ {f} : ready'[q] = ready[q]
          /\ \A i \in DOMAIN ready'[f] : ready'[f][i] = ready[f][i + 1] /\ i + 1 \in DOMAIN ready[f]
      BY <3>1, <1>1, StageTypes, Tails
    <3>3. \A q \in Proc : \A i \in DOMAIN ready'[q] : \E j \in DOMAIN ready[q] : ready'[q][i] = ready[q][j]
      BY <3>2
    <3>. QED  BY <3>1, <3>2, <3>3, StageTypes
  <2>. QED  BY <2>1, <2>2
<1>3. /\ matriz' \in [Proc -> [Proc -> Pids]]
      /\ \A a, b \in Proc : matriz'[a][b] \in {matriz[a][b], pidMap[b]}
  BY StageTypes
<1>4. mishaps' \subseteq {"hasty", "restart", "overtaken", "early"}
  BY StageTypes, MishapType
<1>5. Counted'
  <2>1. stage'[coordinator] = stage[coordinator]
    BY <1>1, StageTypes
  <2>. QED  BY <1>1, <2>1 DEF Counted, Shapes
<1>6. "running" \in StagesOf(f)
  BY DEF StagesOf
<1>7. /\ \A a, b \in Proc :
            \/ matriz'[a][b] \in {matriz[a][b], pidMap[b], 0, pid[b]}
            \/ /\ a = coordinator
               /\ \E i \in DOMAIN ready[a] : b = ready[a][i].value /\ matriz'[a][b] = ready[a][i].from
      /\ \A q \in Proc : \A i \in DOMAIN ready'[q] :
                \/ \E j \in DOMAIN ready[q] : ready'[q][i] = ready[q][j]
                \/ q # coordinator /\ ready'[q][i].value = GoValue
  BY <1>2, <1>3
<1>. HIDE DEF Waited
<1>8. count' \in 0 .. Expected /\ sent' \in 0 .. Expected
  BY <1>1, StageTypes
<1>. QED  BY <1>1, <1>2, <1>3, <1>4, <1>5, <1>6, <1>7, <1>8, ProgressShapes

LEMMA GoStepShapes ==
    ASSUME Shapes, NEW f \in Fn, GoStep(f)
    PROVE  Shapes'
<1>1. hash[f] \in [0 .. HashSize - 1 -> Pids] /\ f \in Proc
  BY StageTypes
<1>2. CASE NfGoes(f)
  <2>1. LearnAll(hash[f], [i \in Fn |-> pidMap[i]]) \in [0 .. HashSize - 1 -> Pids]
    BY <1>1, MappedPids, LearnAllType
  <2>2. hash' \in [Proc -> [0 .. HashSize - 1 -> Pids]]
    BY <1>2, <2>1, StageTypes DEF NfGoes
  <2>. QED  BY <1>1, <1>2, <2>2, WaitedShapes DEF NfGoes
<1>3. CASE ServiceGoes(f)
  <2>1. matriz[f][FRONTEND] \in Pids
    BY <1>1, StageTypes
  <2>2. LearnAll(hash[f], [i \in Fn |-> pidMap[i]] \o <<matriz[f][FRONTEND]>>) \in [0 .. HashSize - 1 -> Pids]
    BY <1>1, <2>1, MappedPids, LearnAllType
  <2>3. hash' \in [Proc -> [0 .. HashSize - 1 -> Pids]]
    BY <1>3, <2>2, StageTypes DEF ServiceGoes
  <2>. QED  BY <1>1, <1>3, <2>3, WaitedShapes DEF ServiceGoes
<1>. QED  BY <1>2, <1>3 DEF GoStep

LEMMA RestartShapes ==
    ASSUME Shapes, NEW f \in Fn, Restart(f)
    PROVE  Shapes'
<1>. USE DEF Restart
<1>1. /\ f \in Proc /\ f \in Members /\ f # coordinator /\ f # GATEWAY /\ stage[f] # "off"
      /\ UNCHANGED <<coordinator, pid, used, objects>> /\ pidMap' = pidMap
      /\ count' = count /\ sent' = sent /\ stage' = [stage EXCEPT ![f] = "off"]
      /\ Expected' = Expected
  BY StageTypes, Coordinators DEF Members, Expected
<1>2. /\ signals' \in [Proc -> Seq(SignalOf(Object))] /\ ready' \in [Proc -> Seq(SignalOf(Fn))]
      /\ \A q \in Proc : signals[q] = <<>> => signals'[q] = <<>>
      /\ \A q \in Proc : \A i \in DOMAIN ready'[q] : \E j \in DOMAIN ready[q] : ready'[q][i] = ready[q][j]
      /\ signals'[f] = <<>>
  BY <1>1, StageTypes
<1>3. /\ matriz' \in [Proc -> [Proc -> Pids]]
      /\ \A a, b \in Proc : matriz'[a][b] \in {matriz[a][b], 0}
  BY StageTypes, PidsAreNaturals
<1>4. mishaps' \subseteq {"hasty", "restart", "overtaken", "early"}
  BY StageTypes, MishapType
<1>5. Counted'
  <2>1. stage'[coordinator] = stage[coordinator]
    BY <1>1, StageTypes
  <2>. QED  BY <1>1, <2>1 DEF Counted, Shapes
<1>6. "off" \in StagesOf(f)
  BY DEF StagesOf
<1>7. /\ \A a, b \in Proc :
            \/ matriz'[a][b] \in {matriz[a][b], pidMap[b], 0, pid[b]}
            \/ /\ a = coordinator
               /\ \E i \in DOMAIN ready[a] : b = ready[a][i].value /\ matriz'[a][b] = ready[a][i].from
      /\ \A q \in Proc : \A i \in DOMAIN ready'[q] :
                \/ \E j \in DOMAIN ready[q] : ready'[q][i] = ready[q][j]
                \/ q # coordinator /\ ready'[q][i].value = GoValue
  BY <1>2, <1>3
<1>8. count' \in 0 .. Expected /\ sent' \in 0 .. Expected
  BY <1>1, StageTypes
<1>9. hash' \in [Proc -> [0 .. HashSize - 1 -> Pids]]
  <2>1. [i \in DOMAIN hash[f] |-> 0] \in [0 .. HashSize - 1 -> Pids]
    BY <1>1, StageTypes, PidsAreNaturals
  <2>. QED  BY <2>1, StageTypes
<1>. HIDE DEF Restart
<1>. QED  BY <1>1, <1>2, <1>3, <1>4, <1>5, <1>6, <1>7, <1>8, <1>9, ProgressShapes

(* The threads leave the tables as they are; a failed transfer ends their  *)
(* process.                                                                *)
LEMMA ThreadShapes ==
    ASSUME Shapes, UNCHANGED <<coordinator, tables, count, sent>>,
           NEW p \in Proc, stage[p] # "off", stage' \in {stage, [stage EXCEPT ![p] = "ended"]},
           signals' \in [Proc -> Seq(SignalOf(Object))],
           \A q \in Proc : stage[q] = "off" => signals'[q] = <<>>,
           \/ ready' = ready
           \/ p \in Members /\ ready[p] # <<>> /\ ready' = [ready EXCEPT ![p] = Tail(@)],
           seen' \in [Proc -> Object \union {None}], deaf' \subseteq Proc,
           held' \in [Proc -> Seq(Object)], inUse' \subseteq Object, hop' \in [Object -> Nat],
           mishaps' \subseteq {"hasty", "restart", "overtaken", "early"}
    PROVE  Shapes'
<1>. USE DEF tables
<1>1. coordinator' = coordinator /\ Members' = Members /\ Expected' = Expected
  BY DEF Members, Expected
<1>2. /\ ready' \in [Proc -> Seq(SignalOf(Fn))]
      /\ \A q \in Proc : \A i \in DOMAIN ready'[q] : \E j \in DOMAIN ready[q] : ready'[q][i] = ready[q][j]
      /\ ready'[coordinator] = ready[coordinator]
  <2>1. CASE ready' = ready
    BY <2>1, StageTypes
  <2>2. CASE p \in Members /\ ready[p] # <<>> /\ ready' = [ready EXCEPT ![p] = Tail(@)]
    <3>1. /\ ready' \in [Proc -> Seq(SignalOf(Fn))] /\ \A q \in Proc \ {p} : ready'[q] = ready[q]
          /\ \A i \in DOMAIN ready'[p] : ready'[p][i] = ready[p][i + 1] /\ i + 1 \in DOMAIN ready[p]
      <4>1. ready \in [Proc -> Seq(SignalOf(Fn))]
        BY StageTypes
      <4>. QED  BY <2>2, <4>1, Tails
    <3>2. p # coordinator
      BY <2>2, StageTypes
    <3>3. \A q \in Proc : \A i \in DOMAIN ready'[q] : \E j \in DOMAIN ready[q] : ready'[q][i] = ready[q][j]
      BY <3>1
    <3>. QED  BY <3>1, <3>2, <3>3, StageTypes
  <2>. QED  BY <2>1, <2>2
<1>3. \A q \in Proc : /\ stage'[q] \in {stage[q], "ended"}
                      /\ stage'[q] # stage[q] => stage[q] # "off"
  BY StageTypes
<1>4. TypeOK'
  <2>1. stage' \in [Proc -> {"off", "pinned", "open", "gather", "send", "waiting",
                             "running", "ended"}]
    <3>1. [stage EXCEPT ![p] = "ended"] \in [Proc -> {"off", "pinned", "open", "gather", "send", "waiting",
                             "running", "ended"}]
      BY StageTypes
    <3>. QED  BY <3>1, StageTypes
  <2>2. /\ pid' \in [Proc -> Pids] /\ used' \subseteq Pids \ {0} /\ coordinator' \in {GATEWAY, FRONTEND}
        /\ pidMap' \in [Proc -> Pids] /\ matriz' \in [Proc -> [Proc -> Pids]]
        /\ hash' \in [Proc -> [0 .. HashSize - 1 -> Pids]]
        /\ count' \in 0 .. Expected' /\ sent' \in 0 .. Expected'
    BY <1>1 DEF Shapes, TypeOK
  <2>. QED  BY <1>1, <1>2, <2>1, <2>2 DEF TypeOK
<1>5. Counted'
  <2>1. stage'[coordinator] \in {stage[coordinator], "ended"}
    BY <1>3, StageTypes
  <2>. QED  BY <1>1, <2>1 DEF Counted, Shapes
<1>6. OwnPids'
  <2>1. ASSUME NEW q \in Proc
        PROVE  /\ stage'[q] \in StagesOf(q)'
               /\ pid'[q] \in (PidsOf[q] \intersect used') \union {0}
               /\ stage'[q] # "off" => pid'[q] # 0
               /\ pidMap'[q] \in (PidsOf[q] \intersect used') \union {0}
               /\ stage'[q] = "off" => signals'[q] = <<>>
    BY <1>3 DEF OwnPids, StagesOf, Shapes
  <2>2. \A a, b \in Proc : matriz'[a][b] \in (PidsOf[b] \intersect used') \union {0}
    BY DEF OwnPids, Shapes
  <2>3. ASSUME NEW i \in DOMAIN ready'[coordinator]
        PROVE  /\ ready'[coordinator][i].value \in Members
               /\ ready'[coordinator][i].from \in PidsOf[ready'[coordinator][i].value] \intersect used'
    BY <1>2 DEF OwnPids, Shapes
  <2>4. ASSUME NEW f \in Proc \ {coordinator}, NEW i \in DOMAIN ready'[f]
        PROVE  ready'[f][i].value = GoValue
    <3>1. \E j \in DOMAIN ready[f] : ready'[f][i] = ready[f][j]
      BY <1>2
    <3>. QED  BY <3>1 DEF OwnPids, Shapes
  <2>. QED  BY <1>1, <2>1, <2>2, <2>3, <2>4 DEF OwnPids
<1>. QED  BY <1>4, <1>5, <1>6 DEF Shapes

(* The way of a request, and what comes after it. *)
LEMMA Ways ==
    ASSUME coordinator \in {GATEWAY, FRONTEND}
    PROVE  /\ \A k : At(k) \in Proc
           /\ Len(Path) \in Nat /\ Len(Path) > 1 /\ DOMAIN Path = 1 .. Len(Path)
           /\ \A k \in 1 .. Len(Path) : At(k) \in Fn
           /\ \A k : k \notin 1 .. Len(Path) => At(k) = GATEWAY
           /\ At(1) = FRONTEND
           /\ coordinator = FRONTEND => At(Len(Path)) = FRONTEND
<1>. DEFINE n == 2 * NFn - 1
<1>1. NFn \in Nat /\ NFn > 2 /\ n \in Nat /\ n > 1 /\ n % 2 = 1
  BY StartupAssumption
<1>2. ASSUME coordinator = GATEWAY
      PROVE  /\ DOMAIN Path = 1 .. NFn /\ Len(Path) = NFn /\ \A k \in 1 .. NFn : Path[k] = k
  <2>1. Path = [i \in 1 .. NFn |-> i]
    BY <1>2 DEF Path, Fn
  <2>. QED  BY <2>1, <1>1
<1>3. ASSUME coordinator # GATEWAY
      PROVE  /\ DOMAIN Path = 1 .. n /\ Len(Path) = n
             /\ \A k \in 1 .. n : Path[k] = IF k % 2 = 1 THEN FRONTEND ELSE k \div 2 + 1
  <2>1. Path = [i \in 1 .. n |-> IF i % 2 = 1 THEN FRONTEND ELSE i \div 2 + 1]
    BY <1>3 DEF Path
  <2>. HIDE DEF n
  <2>. QED  BY <2>1, <1>1
<1>4. ASSUME NEW k \in 1 .. n PROVE k % 2 # 1 => k \div 2 + 1 \in 1 .. NFn
  BY <1>1
<1>. HIDE DEF n
<1>5. DOMAIN Path = 1 .. Len(Path) /\ Len(Path) \in Nat /\ Len(Path) > 1
  BY <1>1, <1>2, <1>3
<1>6. \A k \in 1 .. Len(Path) : Path[k] \in Fn
  <2>1. CASE coordinator = GATEWAY
    BY <2>1, <1>2 DEF Fn
  <2>2. CASE coordinator # GATEWAY
    <3>1. FRONTEND \in Fn
      BY <1>1 DEF Fn, FRONTEND
    <3>. QED  BY <2>2, <1>3, <1>4, <3>1 DEF Fn
  <2>. QED  BY <2>1, <2>2
<1>7. At(1) = FRONTEND
  <2>1. 1 \in DOMAIN Path /\ At(1) = Path[1]
    BY <1>5 DEF At
  <2>2. CASE coordinator = GATEWAY
    BY <2>1, <2>2, <1>1, <1>2 DEF FRONTEND
  <2>3. CASE coordinator # GATEWAY
    <3>1. 1 \in 1 .. n /\ 1 % 2 = 1
      BY <1>1
    <3>. QED  BY <2>1, <2>3, <3>1, <1>3
  <2>. QED  BY <2>2, <2>3
<1>8. coordinator = FRONTEND => At(Len(Path)) = FRONTEND
  <2>1. SUFFICES ASSUME coordinator = FRONTEND PROVE At(n) = FRONTEND
    BY <1>3, GatewayIsNotFrontend
  <2>2. DOMAIN Path = 1 .. n /\ Path[n] = IF n % 2 = 1 THEN FRONTEND ELSE n \div 2 + 1
    BY <2>1, <1>1, <1>3, GatewayIsNotFrontend
  <2>. QED  BY <2>2, <1>1 DEF At
<1>. QED  BY <1>5, <1>6, <1>7, <1>8 DEF At, Proc

(* Objects: a transfer, and the threads that hand on, receive and answer.  *)
LEMMA TransferShapes ==
    ASSUME Shapes, NEW p \in Proc, stage[p] # "off", NEW o \in Object, NEW q \in Proc, Transfer(p, o, q)
    PROVE  /\ stage' \in {stage, [stage EXCEPT ![p] = "ended"]}
           /\ signals' \in [Proc -> Seq(SignalOf(Object))]
           /\ \A r \in Proc : stage[r] = "off" => signals'[r] = <<>>
<1>. DEFINE x == matriz[p][q]
            m == [from |-> pid[p], value |-> o]
<1>1. m \in SignalOf(Object)
  BY StageTypes DEF SignalOf
<1>2. \A r \in Proc : stage[r] = "off" => signals[r] = <<>>
  BY DEF Shapes, OwnPids
<1>3. CASE ~Knows(hash[p], x)
  BY <1>2, <1>3, StageTypes DEF Transfer
<1>4. CASE Knows(hash[p], x) /\ Running(x) = {}
  <2>1. stage' = [stage EXCEPT ![p] = "ended"] /\ signals' = [signals EXCEPT ![p] = <<>>]
    BY <1>4 DEF Transfer, End
  <2>. QED  BY <1>2, <2>1, StageTypes
<1>5. CASE Knows(hash[p], x) /\ Running(x) # {}
  <2>1. /\ signals' = [r \in Proc |-> IF r \in Running(x) THEN Append(signals[r], m) ELSE signals[r]]
        /\ stage' = stage
    BY <1>5 DEF Transfer
  <2>2. Running(x) \in SUBSET Proc /\ \A r \in Running(x) : stage[r] # "off"
    BY DEF Running
  <2>. HIDE DEF m, x
  <2>3. /\ signals' \in [Proc -> Seq(SignalOf(Object))]
        /\ \A r \in Proc \ Running(x) : signals'[r] = signals[r]
    BY <1>1, <2>1, <2>2, StageTypes, Appends
  <2>. QED  BY <1>2, <2>1, <2>2, <2>3
<1>. QED  BY <1>3, <1>4, <1>5

LEMMA ObjectTypes ==
    ASSUME Shapes
    PROVE  /\ seen \in [Proc -> Object \union {None}] /\ deaf \subseteq Proc
           /\ held \in [Proc -> Seq(Object)]
           /\ inUse \subseteq Object /\ hop \in [Object -> Nat]
           /\ None \notin Object /\ 0 \in Object /\ GoValue \in Object
  BY StartupAssumption DEF Shapes, TypeOK, GoValue

LEMMA DispatchShapes ==
    ASSUME Shapes, NEW o \in Object, Dispatch(o)
    PROVE  Shapes'
<1>. USE DEF Dispatch, rendezvous
<1>1. stage[GATEWAY] # "off" /\ At(1) \in Proc
  BY Ways, StageTypes
<1>2. mishaps' \subseteq {"hasty", "restart", "overtaken", "early"}
  BY StageTypes, MishapType DEF AllRunning
<1>3. /\ stage' \in {stage, [stage EXCEPT ![GATEWAY] = "ended"]}
      /\ signals' \in [Proc -> Seq(SignalOf(Object))]
      /\ \A r \in Proc : stage[r] = "off" => signals'[r] = <<>>
  BY <1>1, StageTypes, TransferShapes
<1>4. inUse' \subseteq Object /\ hop' \in [Object -> Nat]
  BY ObjectTypes
<1>. QED  BY <1>1, <1>2, <1>3, <1>4, StageTypes, ObjectTypes, ThreadShapes

LEMMA HandOnShapes ==
    ASSUME Shapes, NEW f \in Proc, HandOn(f)
    PROVE  Shapes'
<1>. USE DEF HandOn, rendezvous
<1>. DEFINE o == Head(held[f])
<1>1. stage[f] # "off" /\ f # GATEWAY
  BY StageTypes, Coordinators DEF Receives
<1>2. o \in Object /\ held' \in [Proc -> Seq(Object)]
  BY ObjectTypes, Tails
<1>3. Addr(o) \in Object /\ NextHop(o) \in Nat
  BY <1>2, ObjectTypes DEF Addr, NextHop
<1>4. At(NextHop(o)) \in Proc
  BY Ways, StageTypes
<1>. HIDE DEF o
<1>5. Transfer(f, Addr(o), At(NextHop(o))) /\ hop' = [hop EXCEPT ![o] = NextHop(o)]
  BY DEF o
<1>6. /\ stage' \in {stage, [stage EXCEPT ![f] = "ended"]}
      /\ signals' \in [Proc -> Seq(SignalOf(Object))]
      /\ \A r \in Proc : stage[r] = "off" => signals'[r] = <<>>
  BY <1>1, <1>3, <1>4, <1>5, TransferShapes
<1>7. hop' \in [Object -> Nat]
  BY <1>2, <1>3, <1>5, ObjectTypes
<1>8. UNCHANGED <<coordinator, tables, count, sent, seen, deaf, inUse, mishaps, ready>>
  OBVIOUS
<1>. HIDE DEF HandOn
<1>. QED  BY <1>1, <1>2, <1>6, <1>7, <1>8, StageTypes, ObjectTypes, ThreadShapes

LEMMA AnswerShapes ==
    ASSUME Shapes, Answer
    PROVE  Shapes'
<1>. USE DEF Answer, rendezvous
<1>1. stage[GATEWAY] # "off"
  BY DEF Receives
<1>2. held' \in [Proc -> Seq(Object)] /\ inUse' \subseteq Object
  BY ObjectTypes, StageTypes, Tails
<1>3. \A q \in Proc : stage[q] = "off" => signals'[q] = <<>>
  BY DEF Shapes, OwnPids
<1>. QED  BY <1>1, <1>2, <1>3, StageTypes, ObjectTypes, ThreadShapes

LEMMA ObtainType ==
    ASSUME Shapes, NEW p \in Proc, NEW m, m.value \in Object, Obtain(p, m)
    PROVE  /\ seen' \in [Proc -> Object \union {None}] /\ deaf' \subseteq Proc
           /\ held' \in [Proc -> Seq(Object)] /\ inUse' = inUse /\ hop' = hop
<1>. DEFINE o == IF Knows(hash[p], m.from) THEN m.value ELSE IF p = GATEWAY THEN None ELSE seen[p]
<1>1. o \in Object \union {None}
  BY ObjectTypes
<1>. HIDE DEF o
<1>2. CASE o = None
  BY <1>2, ObjectTypes DEF Obtain, o
<1>3. CASE o # None
  <2>1. seen' = [seen EXCEPT ![p] = o] /\ held' = [held EXCEPT ![p] = Append(@, o)] /\ deaf' = deaf
        /\ inUse' = inUse /\ hop' = hop
    BY <1>3 DEF Obtain, o
  <2>2. o \in Object /\ Append(held[p], o) \in Seq(Object)
    BY <1>1, <1>3, ObjectTypes
  <2>. QED  BY <2>1, <2>2, ObjectTypes
<1>. QED  BY <1>2, <1>3

LEMMA ReceiveShapes ==
    ASSUME Shapes, NEW p \in Proc, ReceiveSignal(p) \/ ReceiveGo(p)
    PROVE  Shapes'
<1>. USE DEF rendezvous
<1>1. stage[p] # "off" /\ UNCHANGED <<coordinator, stage, tables, count, sent, mishaps>>
  BY DEF ReceiveSignal, ReceiveGo, Receives
<1>2. CASE ReceiveSignal(p)
  <2>1. /\ signals' = [signals EXCEPT ![p] = Tail(@)] /\ signals[p] # <<>>
        /\ Obtain(p, Head(signals[p])) /\ ready' = ready
    BY <1>2 DEF ReceiveSignal
  <2>2. /\ signals' \in [Proc -> Seq(SignalOf(Object))] /\ Head(signals[p]) \in SignalOf(Object)
        /\ \A q \in Proc \ {p} : signals'[q] = signals[q]
    BY <2>1, StageTypes, Tails
  <2>3. Head(signals[p]).value \in Object
    BY <2>2 DEF SignalOf
  <2>4. \A q \in Proc : stage[q] = "off" => signals'[q] = <<>>
    BY <1>1, <2>2 DEF Shapes, OwnPids
  <2>. QED  BY <1>1, <2>1, <2>2, <2>3, <2>4, StageTypes, ObjectTypes, ObtainType, ThreadShapes
<1>3. CASE ReceiveGo(p)
  <2>1. /\ ready' = [ready EXCEPT ![p] = Tail(@)] /\ ready[p] # <<>> /\ p \in Members
        /\ Obtain(p, Head(ready[p])) /\ signals' = signals
    BY <1>3 DEF ReceiveGo
  <2>2. Head(ready[p]) = ready[p][1] /\ 1 \in DOMAIN ready[p]
    BY <2>1, StageTypes, Tails
  <2>3. Head(ready[p]).value \in Object
    <3>1. p \in Proc \ {coordinator}
      BY <2>1, StageTypes
    <3>2. ready[p][1].value = GoValue
      BY <2>2, <3>1 DEF Shapes, OwnPids
    <3>. QED  BY <2>2, <3>2, ObjectTypes
  <2>4. \A q \in Proc : stage[q] = "off" => signals'[q] = <<>>
    BY <2>1 DEF Shapes, OwnPids
  <2>. QED  BY <1>1, <2>1, <2>3, <2>4, StageTypes, ObjectTypes, ObtainType, ThreadShapes
<1>. QED  BY <1>2, <1>3

(* Every step is one of these. *)
LEMMA Steps ==
    ASSUME Shapes, Next
    PROVE  \/ \E p \in Proc : StartStep(p) \/ ReceiveSignal(p) \/ ReceiveGo(p) \/ HandOn(p)
           \/ GatewayOpens \/ GatewayGathers \/ GatewayLooksUp \/ Gather \/ SendGo \/ Answer
           \/ \E f \in Fn : GoStep(f) \/ Restart(f)
           \/ \E o \in Object : Dispatch(o)
  BY Zenon DEF Next, ThreadStep, GatewayStep, CoordinatorStep

LEMMA NextShapes ==
    ASSUME Shapes, [Next]_vars
    PROVE  Shapes'
<1>1. CASE Next
  BY <1>1, Steps, StartStepShapes, ReceiveShapes, HandOnShapes, GatewayOpensShapes, GatewayGathersShapes,
     GatewayLooksUpShapes, GatherShapes, SendGoShapes, AnswerShapes, GoStepShapes, RestartShapes,
     DispatchShapes, Zenon
<1>2. CASE UNCHANGED vars
  BY <1>2 DEF vars, tables, rendezvous, objects, Shapes, TypeOK, Counted, OwnPids, Expected, Members,
     StagesOf
<1>. QED  BY <1>1, <1>2

(* The variables keep their types. *)
THEOREM TypeCorrect == Spec => []TypeOK
<1>1. Init => Shapes
  BY InitShapes
<1>2. Shapes /\ [Next]_vars => Shapes'
  BY NextShapes
<1>3. Shapes => TypeOK
  BY DEF Shapes
<1>. QED  BY <1>1, <1>2, <1>3, PTL DEF Spec

-----------------------------------------------------------------------------
(* Pids that differ are not taken for each other when none collide.        *)
LEMMA UsedPids ==
    ASSUME Shapes
    PROVE  /\ Used0 \in SUBSET Nat /\ Used0 \subseteq Pids
           /\ Apart => \A x, y \in Used0 : x # y => x % HashSize # y % HashSize
           /\ \A p \in Proc : pid[p] \in Used0 /\ pidMap[p] \in Used0
           /\ \A p, q \in Proc : matriz[p][q] \in Used0
<1>1. Used0 \in SUBSET Nat /\ Used0 \subseteq Pids
  BY PidsAreNaturals DEF Shapes, TypeOK, Used0
<1>2. /\ \A p \in Proc : pid[p] \in Used0 /\ pidMap[p] \in Used0
      /\ \A p, q \in Proc : matriz[p][q] \in Used0
  BY DEF Shapes, OwnPids, Used0
<1>. QED  BY <1>1, <1>2 DEF Apart, Used0

(* Whom the coordinator has heard of is there; when it has counted enough, *)
(* that is everybody.                                                      *)
LEMMA Complete ==
    ASSUME Shapes, Gathered, count = Expected
    PROVE  /\ Taken = Members
           /\ \A f \in Fn : There(f)
           /\ \A f \in Members : matriz[coordinator][f] = pid[f]
           /\ There(coordinator)
<1>1. IsFiniteSet(Members) /\ Expected \in Nat /\ Expected > 1
  BY Coordinators, StageTypes
<1>2. Taken \subseteq Members /\ Cardinality(Taken) = Cardinality(Members)
  BY DEF Taken, Gathered, Expected
<1>3. Taken = Members
  BY <1>1, <1>2, FS_Subset
<1>4. There(coordinator)
  BY <1>1 DEF Gathered
<1>. QED  BY <1>3, <1>4 DEF Gathered, Members

(* Rendezvous, action by action.                                           *)
LEMMA InitRendezvous == Init => Rendezvous
<1>. SUFFICES ASSUME Init PROVE Rendezvous
  OBVIOUS
<1>. USE DEF Init
<1>1. Shapes /\ coordinator \in Proc
  BY InitShapes, StageTypes
<1>2. Taken = {} /\ Cardinality(Taken) = 0
  BY <1>1, StageTypes, FS_EmptySet DEF Taken
<1>3. Published /\ InReady
  BY <1>1 DEF Published, InReady, There
<1>4. Gathered /\ AllThere
  BY <1>1, <1>2, StageTypes DEF Gathered, AllThere
<1>5. Tables
  BY <1>1, <1>2, StageTypes DEF Tables
<1>. QED  BY <1>3, <1>4, <1>5 DEF Rendezvous

LEMMA StartRendezvous ==
    ASSUME Shapes, Shapes', Rendezvous, NEW p \in Proc, NEW x \in PidsOf[p], NEW s, Starting(p, x, s)
    PROVE  Rendezvous'
<1>. SUFFICES ASSUME Quiet' PROVE (Published /\ InReady /\ Gathered /\ AllThere /\ Tables)'
  BY DEF Rendezvous
<1>. DEFINE c == coordinator
<1>1. /\ Published /\ InReady /\ Gathered /\ AllThere /\ Tables
      /\ coordinator' = c /\ Members' = Members /\ Expected' = Expected
      /\ count' = count /\ sent' = sent
  BY DEF Rendezvous, Quiet, Starting, Members, Expected
<1>2. /\ stage[p] = "off" /\ pid[p] = 0 /\ pidMap[p] = 0 /\ x # 0 /\ x \in Pids
      /\ pid' = [pid EXCEPT ![p] = x] /\ stage' = [stage EXCEPT ![p] = s]
      /\ s \in StagesOf(p) \ {"off", "open", "send", "running"}
      /\ used' = used \union {x}
  BY <1>1, PidsAreNaturals DEF Starting, Start, Published
<1>a. pid \in [Proc -> Pids] /\ pidMap \in [Proc -> Pids] /\ \A q \in Proc \ {p} : pidMap'[q] = pidMap[q]
  BY StageTypes DEF Starting
<1>3. \A q \in Proc : There(q) => q # p /\ ThereNext(q) /\ pid'[q] = pid[q]
  BY <1>2, <1>a DEF There, ThereNext
<1>4. \A q \in Proc \ {p} : /\ stage'[q] = stage[q] /\ pid'[q] = pid[q] /\ pidMap'[q] = pidMap[q]
                            /\ matriz'[q] = matriz[q] /\ hash'[q] = hash[q]
  BY <1>2, StageTypes DEF Starting
<1>5. stage'[p] = s /\ pid'[p] = x
  BY <1>2, StageTypes
<1>6. Published'
  <2>1. ASSUME NEW q \in Proc \ {p}
        PROVE  /\ stage'[q] = "off" => pid'[q] = 0
               /\ pidMap'[q] \in {0, pid'[q]}
               /\ stage'[q] \in {"open", "waiting", "gather", "send", "running"} => ThereNext(q)
    BY <1>1, <1>4 DEF Published, There, ThereNext
  <2>2. s \in {"off", "open", "waiting", "gather", "send", "running"} => s \in {"open", "gather", "waiting"}
    BY <1>2
  <2>3. pidMap'[p] \in {0, x}
    BY <1>2, StageTypes DEF Starting
  <2>4. s \in {"gather", "waiting"} => pidMap'[p] = x
    BY StageTypes DEF Starting
  <2>5. s # "open"
    BY DEF Starting
  <2>. QED  BY <1>2, <1>5, <2>1, <2>2, <2>3, <2>4, <2>5 DEF Published, There, ThereNext
<1>7. \A f \in Members : matriz'[c][f] = matriz[c][f]
  BY <1>4, StageTypes DEF Starting
<1>8. Taken' = Taken
  BY <1>1, <1>7 DEF Taken
<1>9. p \in Members => matriz[c][p] = 0
  BY <1>2, <1>1 DEF Gathered, Taken, There
<1>10. \/ ready'[c] = ready[c]
       \/ /\ p \in Members /\ s = "waiting" /\ There(c)
          /\ ready'[c] = Append(ready[c], [from |-> x, value |-> p])
  <2>1. CASE ready' = ready
    BY <2>1
  <2>2. CASE c \in Running(pidMap[c])
    <3>1. There(c)
      BY <2>2, <1>1, StageTypes DEF Running, There, Shapes, OwnPids
    <3>. QED  BY <2>2, <3>1, StageTypes DEF Starting
  <2>3. CASE ready' # ready /\ c \notin Running(pidMap[c])
    BY <2>3, StageTypes DEF Starting
  <2>. QED  BY <2>1, <2>2, <2>3
<1>11. \A f \in Members : ready'[f] = ready[f]
  <2>1. Running(pidMap[c]) \subseteq {c}
    BY OnePid, StageTypes DEF Shapes, OwnPids
  <2>. QED  BY <2>1, StageTypes DEF Starting
<1>12. \A i \in DOMAIN ready[c] :
           LET m == ready[c][i]
           IN  There(m.value) /\ m.from = pid[m.value] /\ matriz[c][m.value] = 0 /\ m.value \in Members
  BY <1>1 DEF InReady, Shapes, OwnPids
<1>13. InReady'
  <2>1. \A i \in DOMAIN ready[c] :
           LET m == ready[c][i]
           IN  /\ ThereNext(m.value) /\ m.from = pid'[m.value] /\ matriz'[c][m.value] = 0
               /\ m.value \in Members /\ m.value # p
    <3>1. \A v \in Members : There(v) => ThereNext(v) /\ pid'[v] = pid[v] /\ v # p
      BY <1>3, StageTypes
    <3>. QED  BY <3>1, <1>7, <1>12
  <2>2. \A i, j \in DOMAIN ready[c] : ready[c][i].value = ready[c][j].value => i = j
    BY <1>1 DEF InReady
  <2>3. CASE ready'[c] = ready[c]
    BY <2>1, <2>2, <2>3, <1>1 DEF InReady, There, ThereNext
  <2>4. CASE p \in Members /\ s = "waiting" /\ ready'[c] = Append(ready[c], [from |-> x, value |-> p])
    <3>. DEFINE m == [from |-> x, value |-> p]
    <3>1. /\ \A i \in DOMAIN ready'[c] :
                 \/ i \in DOMAIN ready[c] /\ ready'[c][i] = ready[c][i]
                 \/ i = Len(ready[c]) + 1 /\ ready'[c][i] = m
      <4>1. ready[c] \in Seq(SignalOf(Fn))
        BY StageTypes
      <4>. QED  BY <2>4, <4>1
    <3>2. m.value = p /\ m.from = x
      OBVIOUS
    <3>. HIDE DEF m
    <3>3. pidMap'[p] = x
      BY <2>4, StageTypes DEF Starting
    <3>4. ThereNext(p) /\ matriz'[c][p] = 0 /\ pid'[p] = x
      BY <2>4, <1>2, <1>5, <1>7, <1>9, <3>3 DEF There, ThereNext
    <3>5. ASSUME NEW i \in DOMAIN ready'[c]
          PROVE  LET n == ready'[c][i]
                 IN  ThereNext(n.value) /\ n.from = pid'[n.value] /\ matriz'[c][n.value] = 0
      <4>1. CASE i \in DOMAIN ready[c] /\ ready'[c][i] = ready[c][i]
        BY <4>1, <2>1
      <4>2. CASE ready'[c][i] = m
        BY <4>2, <3>2, <3>4
      <4>. QED  BY <4>1, <4>2, <3>1
    <3>6. ASSUME NEW i \in DOMAIN ready'[c], NEW j \in DOMAIN ready'[c],
                 ready'[c][i].value = ready'[c][j].value
          PROVE  i = j
      BY <2>1, <2>2, <3>1, <3>2, <3>6
    <3>. QED  BY <3>5, <3>6, <1>1 DEF InReady, There, ThereNext
  <2>. QED  BY <2>3, <2>4, <1>10
<1>14. Gathered'
  <2>1. \A f \in Taken : ThereNext(f) /\ matriz'[c][f] = pid'[f]
    BY <1>1, <1>3, <1>7, StageTypes DEF Gathered, Taken
  <2>2. count > 0 \/ ready'[c] # <<>> => ThereNext(c)
    BY <1>1, <1>3, <1>10, StageTypes DEF Gathered
  <2>. QED  BY <1>1, <1>8, <2>1, <2>2 DEF Gathered, There, ThereNext
<1>15. AllThere'
  <2>1. stage'[c] \in {"send", "running"} => stage[c] \in {"send", "running"}
    BY <1>2, <1>4, <1>5, StageTypes
  <2>2. \A f \in Members : stage'[f] = "running" => stage[f] = "running"
    BY <1>2, <1>4, <1>5, StageTypes
  <2>. QED  BY <1>1, <1>11, <2>1, <2>2 DEF AllThere
<1>16. Apart' => Apart
  BY <1>2 DEF Apart
<1>17. Tables'
  <2>1. ASSUME NEW f \in Members, stage'[f] = "running"
        PROVE  HasAll(f)'
    <3>1. f # p /\ f \in Proc /\ stage[f] = "running"
      BY <2>1, <1>2, <1>4, <1>5, StageTypes
    <3>2. HasAll(f) /\ \A q \in Fn : There(q)
      BY <3>1, <1>1, Complete DEF Tables, AllThere
    <3>3. \A q \in Fn : matriz'[f][q] = pid'[q] /\ (Apart' => Knows(hash'[f], pid'[q]))
      BY <1>3, <1>4, <1>16, <3>1, <3>2, StageTypes DEF HasAll
    <3>. QED  BY <3>3 DEF HasAll
  <2>2. ASSUME stage'[c] \in {"gather", "send", "running"}
        PROVE  matriz'[c][c] = pid'[c] /\ (Apart' => Knows(hash'[c], pid'[c]))
    <3>1. CASE p = c
      BY <3>1, <2>2, <1>2, <1>5 DEF Starting
    <3>2. CASE p # c
      BY <3>2, <2>2, <1>1, <1>4, <1>16, StageTypes DEF Tables
    <3>. QED  BY <3>1, <3>2
  <2>3. ASSUME Apart', NEW f \in Taken PROVE Knows(hash'[c], pid'[f])
    <3>1. Taken # {} /\ IsFiniteSet(Taken)
      BY Coordinators, StageTypes, FS_Subset DEF Taken
    <3>2. There(c) /\ There(f)
      <4>1. Cardinality(Taken) \in Nat /\ Cardinality(Taken) # 0
        BY <3>1, FS_EmptySet, FS_CardinalityType
      <4>2. count > 0
        BY <4>1, <1>1 DEF Gathered
      <4>. QED  BY <4>2, <1>1 DEF Gathered
    <3>3. c # p /\ pid'[f] = pid[f] /\ Knows(hash[c], pid[f])
      BY <3>2, <2>3, <1>1, <1>3, <1>16, StageTypes DEF Tables, Taken
    <3>. QED  BY <3>3, <1>4, StageTypes
  <2>. QED  BY <1>1, <1>8, <2>1, <2>2, <2>3 DEF Tables
<1>. QED  BY <1>6, <1>13, <1>14, <1>15, <1>17

(* A step after which the coordinator has counted nobody more. *)
LEMMA KeepsRendezvous ==
    ASSUME Shapes, Rendezvous, UNCHANGED <<coordinator, pid, used, count>>,
           mishaps \subseteq mishaps',
           \A q \in Proc : pidMap'[q] \in {pidMap[q], pid[q]},
           \A q \in Proc : /\ stage'[q] = "off" => stage[q] = "off"
                           /\ \/ stage'[q] \notin {"open", "waiting", "gather", "send", "running"}
                              \/ stage[q] \in {"open", "waiting", "gather", "send", "running"}
                              \/ stage[q] # "off" /\ pidMap'[q] = pid[q],
           ready'[coordinator] = ready[coordinator],
           \A f \in Members : matriz'[coordinator][f] = matriz[coordinator][f],
           Apart => \A x \in Used0 : Knows(hash[coordinator], x) => Knows(hash'[coordinator], x),
           Quiet' => AllThere',
           Quiet' => \A f \in Members : stage'[f] = "running" => HasAll(f)',
           stage'[coordinator] \in {"gather", "send", "running"} =>
               \/ stage[coordinator] \in {"gather", "send", "running"}
                  /\ matriz'[coordinator] = matriz[coordinator]
               \/ /\ matriz'[coordinator][coordinator] = pid[coordinator]
                  /\ Apart => Knows(hash'[coordinator], pid[coordinator])
    PROVE  Rendezvous'
<1>. SUFFICES ASSUME Quiet' PROVE (Published /\ InReady /\ Gathered /\ AllThere /\ Tables)'
  BY DEF Rendezvous
<1>. DEFINE c == coordinator
<1>1. /\ Published /\ InReady /\ Gathered /\ AllThere /\ Tables
      /\ coordinator' = c /\ Members' = Members /\ Expected' = Expected
      /\ count' = count /\ Apart' = Apart /\ pid' = pid /\ AllThere' /\ c \in Proc /\ Members \subseteq Proc
  BY StageTypes DEF Rendezvous, Quiet, Members, Expected, Apart
<1>2. \A q \in Proc : There(q) => ThereNext(q)
  BY <1>1 DEF There, ThereNext, Published
<1>3. Published'
  <2>1. ASSUME NEW q \in Proc
        PROVE  /\ stage'[q] = "off" => pid'[q] = 0
               /\ pidMap'[q] \in {0, pid'[q]}
               /\ stage'[q] \in {"open", "waiting", "gather", "send", "running"} => ThereNext(q)
    <3>1. stage[q] # "off" => pid[q] # 0
      BY DEF Shapes, OwnPids
    <3>. QED  BY <1>1, <1>2, <3>1 DEF Published, ThereNext
  <2>. QED  BY <2>1 DEF Published, There, ThereNext
<1>4. Taken' = Taken
  BY <1>1 DEF Taken
<1>5. InReady'
  <2>1. \A i \in DOMAIN ready[c] :
           LET m == ready[c][i]
           IN  /\ ThereNext(m.value) /\ m.from = pid'[m.value] /\ matriz'[c][m.value] = 0
    BY <1>1, <1>2 DEF InReady, Shapes, OwnPids
  <2>. QED  BY <1>1, <2>1 DEF InReady, There, ThereNext
<1>6. Gathered'
  <2>1. \A f \in Taken : ThereNext(f) /\ matriz'[c][f] = pid'[f]
    BY <1>1, <1>2 DEF Gathered, Taken
  <2>2. count > 0 \/ ready'[c] # <<>> => ThereNext(c)
    BY <1>1, <1>2 DEF Gathered
  <2>. QED  BY <1>1, <1>4, <2>1, <2>2 DEF Gathered, There, ThereNext
<1>7. Tables'
  <2>1. stage'[c] \in {"gather", "send", "running"} =>
            matriz'[c][c] = pid'[c] /\ (Apart' => Knows(hash'[c], pid'[c]))
    BY <1>1, UsedPids DEF Tables
  <2>2. Apart' => \A f \in Taken : Knows(hash'[c], pid'[f])
    BY <1>1, UsedPids DEF Tables, Taken
  <2>. QED  BY <1>1, <1>4, <2>1, <2>2 DEF Tables
<1>. QED  BY <1>1, <1>3, <1>5, <1>6, <1>7

LEMMA HasAllKept ==
    ASSUME Shapes, NEW f \in Proc, HasAll(f), UNCHANGED <<pid, used>>, matriz'[f] = matriz[f], hash'[f] = hash[f]
    PROVE  HasAll(f)'
<1>1. Apart' = Apart
  BY DEF Apart
<1>. QED  BY <1>1 DEF HasAll

LEMMA GatewayOpensRendezvous ==
    ASSUME Shapes, Rendezvous, GatewayOpens
    PROVE  Rendezvous'
<1>. USE DEF GatewayOpens, rendezvous
<1>1. stage' = [stage EXCEPT ![GATEWAY] = "open"] /\ stage[GATEWAY] = "pinned" /\ GATEWAY \in Proc
  BY StageTypes
<1>2. Quiet' => AllThere'
  BY <1>1, StageTypes DEF Rendezvous, Quiet, AllThere, Expected, Members
<1>3. Quiet' => \A f \in Members : stage'[f] = "running" => HasAll(f)'
  BY <1>1, StageTypes, HasAllKept DEF Rendezvous, Quiet, Tables
<1>. QED  BY <1>1, <1>2, <1>3, StageTypes, KeepsRendezvous

LEMMA GatewayGathersRendezvous ==
    ASSUME Shapes, Rendezvous, GatewayGathers
    PROVE  Rendezvous'
<1>. USE DEF GatewayGathers, rendezvous
<1>1. stage' = [stage EXCEPT ![GATEWAY] = "gather"] /\ stage[GATEWAY] = "open" /\ GATEWAY \in Proc
      /\ GATEWAY \notin Members
  BY StageTypes, Coordinators
<1>2. Quiet' => AllThere'
  BY <1>1, StageTypes DEF Rendezvous, Quiet, AllThere, Expected, Members
<1>3. Quiet' => \A f \in Members : stage'[f] = "running" => HasAll(f)'
  BY <1>1, StageTypes, HasAllKept DEF Rendezvous, Quiet, Tables
<1>4. ASSUME Apart
      PROVE  /\ Knows(hash'[GATEWAY], pid[GATEWAY])
             /\ \A x \in Used0 : Knows(hash[GATEWAY], x) => Knows(hash'[GATEWAY], x)
  <2>1. hash'[GATEWAY] = Learn(hash[GATEWAY], pid[GATEWAY]) /\ hash[GATEWAY] \in [0 .. HashSize - 1 -> Pids]
    BY <1>1, StageTypes
  <2>. QED  BY <1>1, <1>4, <2>1, UsedPids, LearnOne
<1>5. \A f \in Members : matriz'[GATEWAY][f] = matriz[GATEWAY][f]
  BY <1>1, StageTypes
<1>6. matriz'[GATEWAY][GATEWAY] = pid[GATEWAY]
  BY StageTypes
<1>. QED  BY <1>1, <1>2, <1>3, <1>4, <1>5, <1>6, StageTypes, KeepsRendezvous

LEMMA GatewayLooksUpRendezvous ==
    ASSUME Shapes, Rendezvous, GatewayLooksUp
    PROVE  Rendezvous'
<1>. USE DEF GatewayLooksUp, rendezvous
<1>1. /\ stage' = [stage EXCEPT ![GATEWAY] = "running"] /\ stage[GATEWAY] = "open" /\ GATEWAY \in Proc
      /\ GATEWAY \notin Members /\ coordinator # GATEWAY /\ mishaps \subseteq mishaps'
  BY StageTypes, Coordinators DEF Mishap
<1>2. \A q \in Proc \ {GATEWAY} : matriz'[q] = matriz[q] /\ hash'[q] = hash[q] /\ stage'[q] = stage[q]
  BY StageTypes
<1>3. Quiet' => AllThere'
  BY <1>1, <1>2, StageTypes DEF Rendezvous, Quiet, AllThere, Expected, Members
<1>4. Quiet' => \A f \in Members : stage'[f] = "running" => HasAll(f)'
  BY <1>1, <1>2, StageTypes, HasAllKept DEF Rendezvous, Quiet, Tables
<1>. QED  BY <1>1, <1>2, <1>3, <1>4, StageTypes, KeepsRendezvous

LEMMA SendGoRendezvous ==
    ASSUME Shapes, Rendezvous, SendGo
    PROVE  Rendezvous'
<1>. USE DEF SendGo, tables
<1>. DEFINE c == coordinator
            f == sent + IF c = GATEWAY THEN 1 ELSE 2
            there == Running(matriz[c][f])
<1>1. stage[c] = "send" /\ c \in Proc /\ c \notin Members /\ Members \subseteq Proc
  BY StageTypes
<1>2. \A q \in Proc \ {c} : stage'[q] = stage[q]
  BY StageTypes DEF End
<1>3. stage'[c] \in {"send", "running", "ended"}
  BY <1>1, StageTypes DEF End
<1>4. ready'[c] = ready[c]
  <2>1. sent \in Nat /\ sent < Expected /\ f \in Members
    BY NextIsMember DEF NextMember
  <2>. HIDE DEF f
  <2>2. f \in Proc /\ matriz[c][f] \in PidsOf[f] \union {0} /\ c # f
    BY <1>1, <2>1 DEF Shapes, OwnPids
  <2>3. c \notin Running(matriz[c][f])
    BY <2>2, OnePid DEF Shapes
  <2>. QED  BY <1>1, <2>3, StageTypes DEF f
<1>5. /\ UNCHANGED <<coordinator, pid, used, count>> /\ mishaps' = mishaps /\ pidMap' = pidMap
      /\ matriz' = matriz /\ hash' = hash
  OBVIOUS
<1>. HIDE DEF SendGo
<1>6. Quiet' => AllThere'
  <2>1. Quiet' => count = Expected
    BY <1>1, <1>5 DEF Rendezvous, Quiet, AllThere
  <2>. QED  BY <1>5, <2>1 DEF AllThere, Expected, Members
<1>7. Quiet' => \A g \in Members : stage'[g] = "running" => HasAll(g)'
  BY <1>1, <1>2, <1>5, StageTypes, HasAllKept DEF Rendezvous, Quiet, Tables
<1>8. \A q \in Proc : /\ stage'[q] = "off" => stage[q] = "off"
                      /\ \/ stage'[q] \notin {"open", "waiting", "gather", "send", "running"}
                         \/ stage[q] \in {"open", "waiting", "gather", "send", "running"}
  BY <1>1, <1>2, <1>3
<1>. QED  BY <1>1, <1>3, <1>4, <1>5, <1>6, <1>7, <1>8, KeepsRendezvous

(* A signal that is taken is of a member that was not counted.             *)
LEMMA GatherRendezvous ==
    ASSUME Shapes, Shapes', Rendezvous, Gather
    PROVE  Rendezvous'
<1>. SUFFICES ASSUME Quiet' PROVE (Published /\ InReady /\ Gathered /\ AllThere /\ Tables)'
  BY DEF Rendezvous
<1>. USE DEF Gather
<1>. DEFINE c == coordinator
            m == Head(ready[c])
            f == m.value
            n == Len(ready[c])
<1>1. /\ Published /\ InReady /\ Gathered /\ AllThere /\ Tables
      /\ coordinator' = c /\ Members' = Members /\ Expected' = Expected /\ Apart' = Apart
      /\ c \in Proc /\ c \notin Members /\ Members \subseteq Proc
  BY StageTypes DEF Rendezvous, Quiet, Members, Expected, Apart
<1>2. /\ pid' = pid /\ pidMap' = pidMap /\ used' = used /\ count' = count + 1
      /\ stage[c] = "gather" /\ stage'[c] \in {"gather", "send"}
      /\ stage'[c] = "send" => Enough(count')
      /\ \A q \in Proc \ {c} : stage'[q] = stage[q]
  BY StageTypes
<1>3. /\ n \in Nat /\ n > 0 /\ DOMAIN ready[c] = 1 .. n /\ DOMAIN ready'[c] = 1 .. n - 1
      /\ \A i \in 1 .. n - 1 : ready'[c][i] = ready[c][i + 1]
      /\ m = ready[c][1] /\ 1 \in DOMAIN ready[c]
      /\ \A q \in Proc \ {c} : ready'[q] = ready[q]
  <2>1. ready[c] # <<>> /\ ready' = [ready EXCEPT ![c] = Tail(@)]
    OBVIOUS
  <2>2. DOMAIN ready[c] = 1 .. n
    BY StageTypes
  <2>. QED  BY <2>1, <2>2, StageTypes, Tails
<1>4. /\ f \in Members /\ There(f) /\ m.from = pid[f] /\ matriz[c][f] = 0
      /\ \A i \in 1 .. n - 1 : ready'[c][i].value # f
  <2>1. /\ f \in Members /\ There(f) /\ m.from = pid[f] /\ matriz[c][f] = 0
    BY <1>1, <1>3 DEF InReady, Shapes, OwnPids
  <2>2. ASSUME NEW i \in 1 .. n - 1 PROVE ready[c][i + 1].value # f
    <3>1. i + 1 \in DOMAIN ready[c] /\ i + 1 # 1
      BY <1>3
    <3>. QED  BY <1>1, <1>3, <3>1 DEF InReady
  <2>. QED  BY <1>3, <2>1, <2>2
<1>5. /\ matriz'[c][f] = pid[f]
      /\ \A q \in Proc \ {f} : matriz'[c][q] = matriz[c][q]
      /\ \A a \in Proc \ {c} : matriz'[a] = matriz[a] /\ hash'[a] = hash[a]
      /\ hash'[c] = Learn(hash[c], m.from)
  BY <1>1, <1>4, StageTypes
<1>6. There(c) /\ matriz[c][c] = pid[c]
  BY <1>1, <1>2 DEF Published, Tables
<1>. HIDE DEF Gather, m, f, n
<1>7. Published'
  BY <1>1, <1>2 DEF Published, There
<1>8. InReady'
  <2>1. ASSUME NEW i \in DOMAIN ready'[c]
        PROVE  LET k == ready'[c][i]
               IN  There(k.value) /\ k.from = pid[k.value] /\ matriz'[c][k.value] = 0
    <3>1. i + 1 \in DOMAIN ready[c] /\ ready'[c][i] = ready[c][i + 1] /\ ready'[c][i].value # f
      BY <1>3, <1>4
    <3>2. ready[c][i + 1].value \in Proc
      BY <1>1, <3>1 DEF Shapes, OwnPids
    <3>. QED  BY <1>1, <1>5, <3>1, <3>2 DEF InReady
  <2>2. ASSUME NEW i \in DOMAIN ready'[c], NEW j \in DOMAIN ready'[c],
               ready'[c][i].value = ready'[c][j].value
        PROVE  i = j
    <3>1. i + 1 \in DOMAIN ready[c] /\ j + 1 \in DOMAIN ready[c] /\ i \in Nat /\ j \in Nat
      BY <1>3
    <3>2. ready[c][i + 1].value = ready[c][j + 1].value
      BY <1>3, <2>2
    <3>3. \A a, b \in DOMAIN ready[c] : ready[c][a].value = ready[c][b].value => a = b
      BY <1>1 DEF InReady
    <3>4. i + 1 = j + 1
      BY <3>1, <3>2, <3>3
    <3>. QED  BY <3>1, <3>4
  <2>. QED  BY <1>1, <1>2, <2>1, <2>2 DEF InReady, There
<1>9. Taken' = Taken \union {f} /\ f \notin Taken /\ f \in Members /\ pid[f] # 0
  <2>1. pid[f] # 0
    BY <1>4 DEF There
  <2>. QED  BY <1>1, <1>4, <1>5, <2>1 DEF Taken
<1>10. Gathered'
  <2>1. IsFiniteSet(Taken)
    BY Coordinators, StageTypes, FS_Subset DEF Taken
  <2>2. Cardinality(Taken') = Cardinality(Taken) + 1
    BY <1>9, <2>1, FS_AddElement
  <2>3. \A g \in Taken' : There(g) /\ matriz'[c][g] = pid[g]
    BY <1>1, <1>4, <1>5, <1>9 DEF Gathered, Taken
  <2>. QED  BY <1>1, <1>2, <1>6, <2>2, <2>3 DEF Gathered, There
<1>11. \A g \in Members : ready[g] = <<>> /\ stage[g] # "running"
  <2>1. count < Expected
    BY <1>2 DEF Shapes, Counted
  <2>. QED  BY <1>1, <2>1, StageTypes DEF AllThere
<1>12. AllThere'
  <2>1. stage'[c] = "send" => count' = Expected
    <3>1. count' \in 0 .. Expected'
      BY DEF Shapes, TypeOK
    <3>. QED  BY <1>1, <1>2, <3>1, StageTypes DEF Enough
  <2>2. \A g \in Members : ready'[g] = <<>> /\ stage'[g] # "running"
    BY <1>1, <1>2, <1>3, <1>11
  <2>. QED  BY <1>1, <1>2, <2>1, <2>2 DEF AllThere
<1>13. Tables'
  <2>1. ASSUME Apart
        PROVE  Knows(hash'[c], pid[f]) /\ \A x \in Used0 : Knows(hash[c], x) => Knows(hash'[c], x)
    <3>1. hash[c] \in [0 .. HashSize - 1 -> Pids] /\ pid[f] \in Used0
      BY <1>1, <1>4, StageTypes, UsedPids
    <3>. QED  BY <1>4, <1>5, <2>1, <3>1, UsedPids, LearnOne
  <2>2. matriz'[c][c] = pid[c]
    BY <1>1, <1>4, <1>5, <1>6
  <2>3. Apart => Knows(hash'[c], pid[c])
    BY <2>1, <1>1, <1>2, UsedPids DEF Tables
  <2>4. Apart => \A g \in Taken' : Knows(hash'[c], pid[g])
    BY <2>1, <1>1, <1>9, UsedPids DEF Tables, Taken
  <2>5. \A g \in Members : stage'[g] # "running"
    BY <1>1, <1>2, <1>11
  <2>. QED  BY <1>1, <1>2, <2>2, <2>3, <2>4, <2>5 DEF Tables
<1>. QED  BY <1>7, <1>8, <1>10, <1>12, <1>13

(* At go a member learns the pid of every function that is there. *)
LEMMA GoStepLearns ==
    ASSUME Shapes, Apart, NEW f \in Fn, GoStep(f)
    PROVE  /\ \A q \in Fn : Knows(hash'[f], pidMap[q])
           /\ \A x \in Used0 : Knows(hash[f], x) => Knows(hash'[f], x)
<1>. DEFINE t == [i \in Fn |-> pidMap[i]]
<1>1. t \in Seq(Pids) /\ DOMAIN t = Fn /\ \A q \in Fn : t[q] = pidMap[q] /\ t[q] \in Used0
  BY MappedPids, UsedPids, StageTypes
<1>2. hash[f] \in [0 .. HashSize - 1 -> Pids] /\ f \in Proc
  BY StageTypes
<1>. HIDE DEF t
<1>3. CASE NfGoes(f)
  <2>1. hash'[f] = LearnAll(hash[f], t)
    BY <1>2, <1>3, StageTypes DEF NfGoes, t
  <2>2. /\ \A j \in DOMAIN t : Knows(LearnAll(hash[f], t), t[j])
        /\ \A x \in Used0 : Knows(hash[f], x) => Knows(LearnAll(hash[f], t), x)
    BY <1>1, <1>2, UsedPids, LearnMany
  <2>. QED  BY <1>1, <2>1, <2>2
<1>4. CASE ServiceGoes(f)
  <2>. DEFINE u == t \o <<matriz[f][FRONTEND]>>
  <2>1. hash'[f] = LearnAll(hash[f], u)
    BY <1>2, <1>4, StageTypes DEF ServiceGoes, t
  <2>2. matriz[f][FRONTEND] \in Used0 /\ matriz[f][FRONTEND] \in Pids
    BY <1>2, UsedPids, StageTypes
  <2>3. u \in Seq(Pids)
    BY <2>2, MappedPids DEF t
  <2>4. Fn = 1 .. NFn /\ Len(t) = NFn /\ NFn \in Nat
    BY <1>1, StartupAssumption DEF Fn
  <2>5. DOMAIN u = 1 .. NFn + 1 /\ u[NFn + 1] = matriz[f][FRONTEND]
        /\ \A j \in Fn : u[j] = t[j]
    BY <1>1, <2>4
  <2>6. \A j \in DOMAIN u : u[j] \in Used0
    BY <1>1, <2>2, <2>4, <2>5
  <2>. HIDE DEF u
  <2>7. /\ \A j \in DOMAIN u : Knows(LearnAll(hash[f], u), u[j])
        /\ \A x \in Used0 : Knows(hash[f], x) => Knows(LearnAll(hash[f], u), x)
    BY <1>2, <2>3, <2>6, UsedPids, LearnMany
  <2>8. \A q \in Fn : q \in DOMAIN u /\ u[q] = pidMap[q]
    BY <1>1, <2>4, <2>5
  <2>. QED  BY <2>1, <2>7, <2>8
<1>. QED  BY <1>3, <1>4 DEF GoStep

(* A member takes everybody over from pid_map after go.                    *)
LEMMA GoStepRendezvous ==
    ASSUME Shapes, Rendezvous, NEW f \in Fn, GoStep(f)
    PROVE  Rendezvous'
<1>. DEFINE c == coordinator
<1>1. Waited(f)
  BY DEF GoStep, NfGoes, ServiceGoes
<1>2. /\ f \in Members /\ f \in Proc /\ c \in Proc /\ f # c /\ stage[f] = "waiting"
      /\ UNCHANGED <<coordinator, pid, used, count>> /\ pidMap' = pidMap /\ mishaps \subseteq mishaps'
      /\ Members' = Members /\ Expected' = Expected /\ Apart' = Apart
      /\ \A q \in Proc \ {f} : stage'[q] = stage[q] /\ matriz'[q] = matriz[q]
      /\ stage'[f] = "running"
  BY <1>1, StageTypes DEF Waited, Mishap, Members, Expected, Apart
<1>3. \A q \in Proc \ {f} : hash'[q] = hash[q]
  BY <1>2, StageTypes DEF GoStep, NfGoes, ServiceGoes
<1>4. \A q \in Proc \ {f} : ready'[q] = ready[q]
  BY <1>1, <1>2, StageTypes DEF Waited
<1>5. ASSUME Quiet' PROVE count = Expected /\ \A g \in Members : ready'[g] # <<>> \/ stage'[g] = "running" => count = Expected
  <2>1. signals[f] = <<>> /\ Quiet
    BY <1>1, <1>5 DEF Waited, Mishap, Quiet
  <2>2. ready[f] # <<>>
    BY <1>1, <2>1 DEF Waited
  <2>. QED  BY <1>2, <2>1, <2>2 DEF Rendezvous, AllThere
<1>6. Quiet' => AllThere'
  <2>1. Quiet' => Quiet
    BY <1>2 DEF Quiet
  <2>. QED  BY <1>2, <1>5, <2>1 DEF AllThere
<1>7. ASSUME Quiet', NEW g \in Members, stage'[g] = "running" PROVE HasAll(g)'
  <2>1. Quiet /\ Tables
    BY <1>2, <1>7 DEF Quiet, Rendezvous
  <2>2. CASE g # f
    BY <2>1, <2>2, <1>2, <1>3, <1>7, StageTypes, HasAllKept DEF Tables
  <2>3. CASE g = f
    <3>1. \A q \in Fn : There(q)
      BY <2>1, <1>5, <1>7, Complete DEF Rendezvous
    <3>2. \A q \in Fn : matriz'[f][q] = pid[q]
      <4>1. matriz' = [matriz EXCEPT ![f] = [q \in Proc |-> IF q = GATEWAY THEN @[q] ELSE pidMap[q]]]
        BY <1>1 DEF Waited
      <4>2. \A q \in Fn : q \in Proc /\ q # GATEWAY /\ pidMap[q] = pid[q]
        BY <3>1, StageTypes, Coordinators DEF There
      <4>. QED  BY <4>1, <4>2, <1>2, StageTypes
    <3>3. ASSUME Apart, NEW q \in Fn PROVE Knows(hash'[f], pid[q])
      BY <3>1, <3>3, GoStepLearns DEF There
    <3>. QED  BY <1>2, <2>3, <3>2, <3>3 DEF HasAll
  <2>. QED  BY <2>2, <2>3
<1>8. ready'[c] = ready[c] /\ matriz'[c] = matriz[c] /\ hash'[c] = hash[c] /\ stage'[c] = stage[c]
  BY <1>2, <1>3, <1>4
<1>9. \A q \in Proc : /\ stage'[q] = "off" => stage[q] = "off"
                      /\ \/ stage'[q] \notin {"open", "waiting", "gather", "send", "running"}
                         \/ stage[q] \in {"open", "waiting", "gather", "send", "running"}
  BY <1>2
<1>. QED  BY <1>2, <1>6, <1>7, <1>8, <1>9, KeepsRendezvous

LEMMA ThreadRendezvous ==
    ASSUME Shapes, Rendezvous, UNCHANGED <<coordinator, tables, count>>, mishaps \subseteq mishaps',
           NEW p \in Proc, stage[p] # "off", stage' \in {stage, [stage EXCEPT ![p] = "ended"]},
           \/ ready' = ready
           \/ p \in Members /\ ready[p] # <<>> /\ ready' = [ready EXCEPT ![p] = Tail(@)]
    PROVE  Rendezvous'
<1>. USE DEF tables
<1>. DEFINE c == coordinator
<1>1. /\ c \in Proc /\ Members' = Members /\ Expected' = Expected
      /\ \A q \in Proc : stage'[q] \in {stage[q], "ended"}
      /\ c \notin Members /\ Members \subseteq Proc
  BY StageTypes DEF Members, Expected
<1>2. /\ ready'[c] = ready[c]
      /\ \A g \in Members : ready'[g] # <<>> => ready[g] # <<>>
  BY <1>1, StageTypes
<1>3. Quiet' => AllThere'
  <2>1. Quiet' => AllThere
    BY DEF Quiet, Rendezvous
  <2>. QED  BY <1>1, <1>2, <2>1 DEF AllThere
<1>4. Quiet' => \A g \in Members : stage'[g] = "running" => HasAll(g)'
  <2>1. Quiet' => Tables
    BY DEF Quiet, Rendezvous
  <2>. QED  BY <1>1, <2>1, HasAllKept DEF Tables
<1>5. \A q \in Proc : /\ stage'[q] = "off" => stage[q] = "off"
                      /\ \/ stage'[q] \notin {"open", "waiting", "gather", "send", "running"}
                         \/ stage[q] \in {"open", "waiting", "gather", "send", "running"}
  BY <1>1
<1>6. stage'[c] \in {"gather", "send", "running"} => stage[c] \in {"gather", "send", "running"}
  BY <1>1
<1>. QED  BY <1>1, <1>2, <1>3, <1>4, <1>5, <1>6, KeepsRendezvous

(* What a step of a thread is. *)
LEMMA ThreadSteps ==
    ASSUME Shapes,
           \/ \E p \in Proc : ReceiveSignal(p) \/ ReceiveGo(p) \/ HandOn(p)
           \/ Answer
           \/ \E o \in Object : Dispatch(o)
    PROVE  /\ UNCHANGED <<coordinator, tables, count, sent>> /\ mishaps \subseteq mishaps'
           /\ \E p \in Proc :
                  /\ stage[p] # "off" /\ stage' \in {stage, [stage EXCEPT ![p] = "ended"]}
                  /\ \/ ready' = ready
                     \/ p \in Members /\ ready[p] # <<>> /\ ready' = [ready EXCEPT ![p] = Tail(@)]
<1>. USE DEF rendezvous
<1>1. ASSUME NEW p \in Proc, ReceiveSignal(p) \/ ReceiveGo(p)
      PROVE  /\ UNCHANGED <<coordinator, tables, count, sent>> /\ mishaps \subseteq mishaps'
             /\ stage[p] # "off" /\ stage' = stage
             /\ \/ ready' = ready
                \/ p \in Members /\ ready[p] # <<>> /\ ready' = [ready EXCEPT ![p] = Tail(@)]
  BY <1>1 DEF ReceiveSignal, ReceiveGo, Receives
<1>2. ASSUME NEW p \in Proc, HandOn(p)
      PROVE  /\ UNCHANGED <<coordinator, tables, count, sent, ready>> /\ mishaps \subseteq mishaps'
             /\ stage[p] # "off" /\ stage' \in {stage, [stage EXCEPT ![p] = "ended"]}
  <2>1. stage[p] # "off"
    BY <1>2, Coordinators, StageTypes DEF HandOn, Receives
  <2>. QED  BY <1>2, <2>1 DEF HandOn, Transfer, End
<1>3. ASSUME Answer
      PROVE  /\ UNCHANGED <<coordinator, tables, count, sent, ready>> /\ mishaps \subseteq mishaps'
             /\ stage[GATEWAY] # "off" /\ stage' = stage
  BY <1>3 DEF Answer, Receives
<1>4. ASSUME NEW o \in Object, Dispatch(o)
      PROVE  /\ UNCHANGED <<coordinator, tables, count, sent, ready>> /\ mishaps \subseteq mishaps'
             /\ stage[GATEWAY] # "off" /\ stage' \in {stage, [stage EXCEPT ![GATEWAY] = "ended"]}
  BY <1>4 DEF Dispatch, Transfer, End, Mishap
<1>. QED  BY <1>1, <1>2, <1>3, <1>4, StageTypes

LEMMA NextRendezvous ==
    ASSUME Shapes, Shapes', Rendezvous, [Next]_vars
    PROVE  Rendezvous'
<1>1. ASSUME NEW p \in Proc, StartStep(p)
      PROVE  Rendezvous'
  <2>1. \E x \in PidsOf[p] : \E s : Starting(p, x, s)
    BY <1>1, StartStarts DEF StartStep
  <2>. QED  BY <2>1, StartRendezvous
<1>2. ASSUME \/ \E p \in Proc : ReceiveSignal(p) \/ ReceiveGo(p) \/ HandOn(p)
             \/ Answer
             \/ \E o \in Object : Dispatch(o)
      PROVE  Rendezvous'
  <2>1. /\ UNCHANGED <<coordinator, tables, count>> /\ mishaps \subseteq mishaps'
        /\ \E p \in Proc :
               /\ stage[p] # "off" /\ stage' \in {stage, [stage EXCEPT ![p] = "ended"]}
               /\ \/ ready' = ready
                  \/ p \in Members /\ ready[p] # <<>> /\ ready' = [ready EXCEPT ![p] = Tail(@)]
    BY <1>2, ThreadSteps
  <2>. QED  BY <2>1, ThreadRendezvous
<1>3. ASSUME NEW f \in Fn, Restart(f)
      PROVE  Rendezvous'
  BY <1>3 DEF Restart, Mishap, Rendezvous, Quiet
<1>4. CASE Next
  BY <1>1, <1>2, <1>3, <1>4, Steps, GatewayOpensRendezvous, GatewayGathersRendezvous,
     GatewayLooksUpRendezvous, GatherRendezvous, SendGoRendezvous, GoStepRendezvous, Zenon
<1>5. CASE UNCHANGED vars
  <2>1. /\ UNCHANGED <<coordinator, tables, count>> /\ mishaps \subseteq mishaps'
        /\ stage' = stage /\ ready' = ready
    BY <1>5 DEF vars, tables, rendezvous
  <2>2. UNCHANGED <<coordinator, pid, used, pidMap, matriz, hash, count, stage, ready, mishaps>>
    BY <1>5 DEF vars, tables, rendezvous
  <2>. QED  BY <2>2 DEF Rendezvous, Quiet, Published, InReady, Gathered, AllThere, Tables, HasAll,
                        There, Taken, Apart, Expected, Members
<1>. QED  BY <1>4, <1>5

(* So whoever runs has the pids of everybody, and without collisions finds *)
(* them in its hash table.                                                 *)
LEMMA RunningKnowsAll ==
    ASSUME Shapes, Rendezvous
    PROVE  TablesAgree
<1>. SUFFICES ASSUME Quiet, NEW p \in Members \union {coordinator}, stage[p] = "running"
              PROVE  HasAll(p)
  BY DEF TablesAgree, Quiet
<1>1. CASE p \in Members
  BY <1>1 DEF Rendezvous, Tables
<1>2. CASE p = coordinator
  <2>1. count = Expected /\ Gathered /\ Tables
    BY <1>2 DEF Rendezvous, AllThere
  <2>2. Taken = Members /\ \A f \in Members : matriz[coordinator][f] = pid[f]
    BY <2>1, Complete
  <2>3. ASSUME NEW f \in Fn
        PROVE  matriz[p][f] = pid[f] /\ (Apart => Knows(hash[p], pid[f]))
    <3>1. CASE f = coordinator
      BY <1>2, <2>1, <3>1 DEF Tables
    <3>2. CASE f # coordinator
      <4>1. f \in Members
        BY <3>2 DEF Members
      <4>. QED  BY <1>2, <2>1, <2>2, <4>1 DEF Tables
    <3>. QED  BY <3>1, <3>2
  <2>. QED  BY <2>3 DEF HasAll
<1>. QED  BY <1>1, <1>2

(* Whoever runs has the pids of everybody. *)
THEOREM EverybodyIsKnown == Spec => []TablesAgree
<1>1. Init => Shapes /\ Rendezvous
  BY InitShapes, InitRendezvous
<1>2. Shapes /\ Rendezvous /\ [Next]_vars => (Shapes /\ Rendezvous)'
  BY NextShapes, NextRendezvous
<1>3. Shapes /\ Rendezvous => TablesAgree
  BY RunningKnowsAll
<1>. QED  BY <1>1, <1>2, <1>3, PTL DEF Spec

-----------------------------------------------------------------------------
(* A step of the start-up moves no object, forgets no pid and no process   *)
(* that it knew.                                                           *)
Calm ==
    /\ UNCHANGED <<coordinator, objects>> /\ mishaps \subseteq mishaps' /\ used \subseteq used'
    /\ \A q \in Proc :
           /\ signals'[q] \in {signals[q], <<>>}
           /\ stage[q] = "ended" => stage'[q] = "ended"
           /\ stage[q] # "off" => stage'[q] # "off"
           /\ pid[q] # 0 => pid'[q] = pid[q]
           /\ There(q) => ThereNext(q)
    /\ count = Expected => count' = count
    /\ \A q \in Fn \union {coordinator} :
           stage[q] # "off" /\ Apart' => \A x \in Used0 : Knows(hash[q], x) => Knows(hash'[q], x)

StartUp ==
    \/ \E p \in Proc : StartStep(p)
    \/ GatewayOpens \/ GatewayGathers \/ GatewayLooksUp \/ Gather \/ SendGo
    \/ \E f \in Fn : GoStep(f)

LEMMA StartCalm ==
    ASSUME Shapes, Shapes', Rendezvous, Quiet', NEW p \in Proc, NEW x \in PidsOf[p], NEW s, Starting(p, x, s)
    PROVE  Calm
<1>1. /\ stage[p] = "off" /\ pid[p] = 0 /\ pid' = [pid EXCEPT ![p] = x] /\ stage' = [stage EXCEPT ![p] = s]
      /\ used' = used \union {x} /\ s # "off"
  BY DEF Rendezvous, Quiet, Starting, Start, Published
<1>2. \A q \in Proc \ {p} : stage'[q] = stage[q] /\ pid'[q] = pid[q] /\ hash'[q] = hash[q]
  BY <1>1, StageTypes DEF Starting
<1>3. stage'[p] = s
  BY <1>1, StageTypes
<1>4. /\ UNCHANGED <<coordinator, objects, signals, count>> /\ mishaps \subseteq mishaps'
      /\ used \subseteq used'
  BY <1>1 DEF Starting
<1>5. ASSUME NEW q \in Proc
      PROVE  /\ stage[q] = "ended" => stage'[q] = "ended"
             /\ stage[q] # "off" => stage'[q] # "off" /\ hash'[q] = hash[q]
             /\ pid[q] # 0 => pid'[q] = pid[q]
             /\ There(q) => ThereNext(q)
  <2>1. pidMap' \in {pidMap, [pidMap EXCEPT ![p] = x]}
    BY DEF Starting
  <2>2. There(q) => q # p
    BY <1>1 DEF There
  <2>3. There(q) => ThereNext(q)
    BY <1>2, <2>1, <2>2, StageTypes DEF There, ThereNext
  <2>. QED  BY <1>1, <1>2, <1>3, <2>3
<1>6. Fn \union {coordinator} \subseteq Proc
  BY StageTypes
<1>. QED  BY <1>4, <1>5, <1>6 DEF Calm

(* No pid is given any more, and no process forgotten. *)
LEMMA StillCalm ==
    ASSUME Shapes, UNCHANGED <<coordinator, pid, used, objects>>, mishaps \subseteq mishaps',
           NEW p \in Proc, NEW s, stage[p] \notin {"off", "ended"}, s # "off",
           stage' = [stage EXCEPT ![p] = s],
           \A q \in Proc : signals'[q] \in {signals[q], <<>>},
           \A q \in Proc : pidMap'[q] \in {pidMap[q], pid[q]},
           count = Expected => count' = count,
           Apart => \A q \in Fn \union {coordinator} :
                        \A x \in Used0 : Knows(hash[q], x) => Knows(hash'[q], x)
    PROVE  Calm
<1>1. Apart' = Apart
  BY DEF Apart
<1>2. \A q \in Proc \ {p} : stage'[q] = stage[q]
  BY StageTypes
<1>3. stage'[p] = s
  BY StageTypes
<1>4. \A q \in Proc : There(q) => ThereNext(q)
  BY DEF There, ThereNext
<1>. QED  BY <1>1, <1>2, <1>3, <1>4 DEF Calm

LEMMA CalmSteps ==
    ASSUME Shapes, Shapes', Rendezvous, Quiet', StartUp
    PROVE  Calm
<1>. USE DEF rendezvous
<1>1. ASSUME NEW p \in Proc, StartStep(p) PROVE Calm
  <2>1. \E x \in PidsOf[p] : \E s : Starting(p, x, s)
    BY <1>1, StartStarts DEF StartStep
  <2>. QED  BY <2>1, StartCalm
<1>2. CASE GatewayOpens
  BY <1>2, StageTypes, StillCalm DEF GatewayOpens
<1>3. CASE GatewayGathers
  <2>1. ASSUME Apart, NEW q \in Fn \union {coordinator}, NEW x \in Used0, Knows(hash[q], x)
        PROVE  Knows(hash'[q], x)
    <3>1. hash[GATEWAY] \in [0 .. HashSize - 1 -> Pids] /\ pid[GATEWAY] \in Used0
      BY StageTypes, UsedPids
    <3>2. Knows(hash[GATEWAY], x) => Knows(Learn(hash[GATEWAY], pid[GATEWAY]), x)
      BY <2>1, <3>1, UsedPids, LearnOne
    <3>. QED  BY <1>3, <2>1, <3>2, StageTypes DEF GatewayGathers
  <2>2. /\ stage' = [stage EXCEPT ![GATEWAY] = "gather"] /\ stage[GATEWAY] = "open"
        /\ UNCHANGED <<coordinator, pid, used, objects, mishaps, signals, count>>
    BY <1>3 DEF GatewayGathers
  <2>9. \A q \in Proc : pidMap'[q] \in {pidMap[q], pid[q]}
    BY <1>3 DEF GatewayGathers, tables
  <2>. QED  BY <2>9, <2>1, <2>2, StageTypes, StillCalm
<1>4. CASE GatewayLooksUp
  <2>1. /\ stage' = [stage EXCEPT ![GATEWAY] = "running"] /\ stage[GATEWAY] = "open"
        /\ UNCHANGED <<coordinator, pid, used, objects, signals, count>> /\ mishaps \subseteq mishaps'
        /\ coordinator = FRONTEND
    BY <1>4 DEF GatewayLooksUp, Mishap
  <2>2. \A q \in Fn \union {coordinator} : hash'[q] = hash[q]
    BY <1>4, <2>1, StageTypes, Coordinators DEF GatewayLooksUp
  <2>9. \A q \in Proc : pidMap'[q] \in {pidMap[q], pid[q]}
    BY <1>4 DEF GatewayLooksUp, tables
  <2>. QED  BY <2>9, <2>1, <2>2, StageTypes, StillCalm
<1>5. CASE Gather
  <2>. DEFINE c == coordinator
              m == Head(ready[c])
  <2>1. /\ \E s \in {"gather", "send"} : stage' = [stage EXCEPT ![c] = s]
        /\ stage[c] = "gather" /\ UNCHANGED <<coordinator, pid, used, objects, signals, mishaps>>
        /\ hash' = [hash EXCEPT ![c] = Learn(@, m.from)]
    BY <1>5, StageTypes DEF Gather
  <2>2. count # Expected
    BY <2>1, StageTypes DEF Shapes, Counted
  <2>3. m.from \in Used0
    <3>1. ready[c] # <<>>
      BY <1>5 DEF Gather
    <3>2. m = ready[c][1] /\ 1 \in DOMAIN ready[c]
      BY <3>1, StageTypes, Tails
    <3>. QED  BY <3>2 DEF Shapes, OwnPids, Used0
  <2>. HIDE DEF m
  <2>4. ASSUME Apart, NEW q \in Fn \union {c}, NEW x \in Used0, Knows(hash[q], x)
        PROVE  Knows(hash'[q], x)
    <3>1. hash[c] \in [0 .. HashSize - 1 -> Pids]
      BY StageTypes
    <3>2. Knows(hash[c], x) => Knows(Learn(hash[c], m.from), x)
      BY <2>3, <2>4, <3>1, UsedPids, LearnOne
    <3>. QED  BY <2>1, <2>4, <3>2, StageTypes
  <2>9. \A q \in Proc : pidMap'[q] \in {pidMap[q], pid[q]}
    BY <1>5 DEF Gather, tables
  <2>. QED  BY <2>9, <2>1, <2>2, <2>4, StageTypes, StillCalm
<1>6. CASE SendGo
  <2>1. /\ \E s \in {"send", "running", "ended"} : stage' = [stage EXCEPT ![coordinator] = s]
        /\ stage[coordinator] = "send" /\ UNCHANGED <<coordinator, pid, used, hash, objects, count, mishaps>>
        /\ signals' \in {signals, [signals EXCEPT ![coordinator] = <<>>]}
    BY <1>6, StageTypes DEF SendGo, End, tables
  <2>2. \A q \in Proc : signals'[q] \in {signals[q], <<>>}
    BY <2>1, StageTypes
  <2>9. \A q \in Proc : pidMap'[q] \in {pidMap[q], pid[q]}
    BY <1>6 DEF SendGo, tables
  <2>. QED  BY <2>9, <2>1, <2>2, StageTypes, StillCalm
<1>7. ASSUME NEW f \in Fn, GoStep(f) PROVE Calm
  <2>1. Waited(f) /\ f \in Proc
    BY <1>7, StageTypes DEF GoStep, NfGoes, ServiceGoes
  <2>2. signals[f] = <<>>
    BY <2>1 DEF Waited, Mishap, Quiet
  <2>3. /\ stage' = [stage EXCEPT ![f] = "running"] /\ stage[f] = "waiting"
        /\ UNCHANGED <<coordinator, pid, used, objects, count, signals>> /\ mishaps \subseteq mishaps'
    BY <2>1, <2>2 DEF Waited, Mishap
  <2>4. \A q \in Proc \ {f} : hash'[q] = hash[q]
    BY <1>7, <2>1, StageTypes DEF GoStep, NfGoes, ServiceGoes
  <2>5. ASSUME Apart, NEW q \in Fn \union {coordinator}, NEW x \in Used0, Knows(hash[q], x)
        PROVE  Knows(hash'[q], x)
    BY <1>7, <2>4, <2>5, GoStepLearns, StageTypes
  <2>9. \A q \in Proc : pidMap'[q] \in {pidMap[q], pid[q]}
    BY <2>1 DEF Waited
  <2>. QED  BY <2>9, <2>1, <2>3, <2>5, StillCalm
<1>. QED  BY <1>1, <1>2, <1>3, <1>4, <1>5, <1>6, <1>7, Zenon DEF StartUp

-----------------------------------------------------------------------------
Families == [Keys -> Seq(Object)]

(* G is F, but for the first of a; but for v, at the end of a. *)
(* A queue that loses its first, one that gets a last.                     *)
Drop(F, G, a) == G \in Families /\ G[a] = Tail(F[a]) /\ \A b \in Keys \ {a} : G[b] = F[b]
Push(F, G, a, v) == G \in Families /\ G[a] = Append(F[a], v) /\ \A b \in Keys \ {a} : G[b] = F[b]

(* Neither puts an object in a second place, nor does a queue that is      *)
(* emptied.                                                                *)
LEMMA Dropped ==
    ASSUME NEW F \in Families, NEW a \in Keys, F[a] # <<>>, Alone(F),
           NEW G, Drop(F, G, a)
    PROVE  /\ G \in Families /\ Alone(G) /\ Head(F[a]) \in Objs(F)
           /\ Objs(G) = Objs(F) \ {Head(F[a])}
           /\ \A b \in Keys : \A i \in DOMAIN G[b] : \E j \in DOMAIN F[b] : G[b][i] = F[b][j]
<1>. DEFINE n == Len(F[a])
<1>1. F[a] \in Seq(Object) /\ n \in Nat /\ n > 0 /\ DOMAIN F[a] = 1 .. n
  BY EmptySeq DEF Families
<1>2. /\ G[a] = Tail(F[a]) /\ Tail(F[a]) \in Seq(Object) /\ DOMAIN G[a] = 1 .. n - 1
      /\ \A i \in 1 .. n - 1 : G[a][i] = F[a][i + 1]
      /\ Head(F[a]) = F[a][1] /\ F[a][1] \in Object
      /\ \A b \in Keys \ {a} : G[b] = F[b]
  BY <1>1 DEF Drop
<1>3. G \in Families
  BY DEF Drop
<1>4. ASSUME NEW b \in Keys, NEW i \in DOMAIN G[b]
      PROVE  \E j \in DOMAIN F[b] : G[b][i] = F[b][j] /\ j = IF b = a THEN i + 1 ELSE i
  <2>1. CASE b = a
    <3>2. i \in 1 .. n - 1 /\ G[a][i] = F[a][i + 1]
      BY <1>2, <2>1
    <3>1. i + 1 \in DOMAIN F[a] /\ G[a][i] = F[a][i + 1]
      BY <1>1, <3>2
    <3>. QED  BY <2>1, <3>1
  <2>2. CASE b # a
    BY <1>2, <1>4, <2>2
  <2>. QED  BY <2>1, <2>2
<1>5. \A b \in Keys : \A i \in DOMAIN G[b] : i \in Nat
  BY <1>3 DEF Families
<1>6. Alone(G)
  <2>. SUFFICES ASSUME NEW b \in Keys, NEW d \in Keys, NEW i \in DOMAIN G[b], NEW j \in DOMAIN G[d],
                       G[b][i] = G[d][j]
                PROVE  b = d /\ i = j
    BY DEF Alone
  <2>1. PICK k \in DOMAIN F[b] : G[b][i] = F[b][k] /\ k = IF b = a THEN i + 1 ELSE i
    BY <1>4
  <2>2. PICK l \in DOMAIN F[d] : G[d][j] = F[d][l] /\ l = IF d = a THEN j + 1 ELSE j
    BY <1>4
  <2>3. b = d /\ k = l
    <3>1. F[b][k] = F[d][l]
      BY <2>1, <2>2
    <3>. QED  BY <3>1 DEF Alone
  <2>4. i \in Nat /\ j \in Nat
    BY <1>5
  <2>. QED  BY <2>1, <2>2, <2>3, <2>4
<1>7. Head(F[a]) \in Objs(F)
  BY <1>1, <1>2 DEF Objs
<1>8. Objs(G) \subseteq Objs(F) \ {Head(F[a])}
  <2>. SUFFICES ASSUME NEW b \in Keys, NEW i \in DOMAIN G[b], G[b][i] \in Object
                PROVE  G[b][i] \in Objs(F) /\ G[b][i] # F[a][1]
    BY <1>2 DEF Objs
  <2>1. PICK k \in DOMAIN F[b] : G[b][i] = F[b][k] /\ k = IF b = a THEN i + 1 ELSE i
    BY <1>4
  <2>2. ASSUME F[b][k] = F[a][1] PROVE FALSE
    <3>1. b = a /\ k = 1
      BY <2>2, <1>1 DEF Alone
    <3>2. i \in 1 .. n - 1 /\ i + 1 = 1
      BY <3>1, <2>1, <1>2
    <3>. QED  BY <1>1, <3>2
  <2>. QED  BY <2>1, <2>2 DEF Objs
<1>9. Objs(F) \ {Head(F[a])} \subseteq Objs(G)
  <2>. SUFFICES ASSUME NEW b \in Keys, NEW j \in DOMAIN F[b], F[b][j] \in Object, F[b][j] # F[a][1]
                PROVE  F[b][j] \in Objs(G)
    BY <1>2 DEF Objs
  <2>1. CASE b = a
    <3>1. j \in 1 .. n /\ j # 1
      BY <1>1, <2>1
    <3>2. j - 1 \in 1 .. n - 1 /\ j - 1 + 1 = j
      BY <1>1, <3>1
    <3>3. j - 1 \in DOMAIN G[b] /\ G[b][j - 1] = F[b][j]
      BY <1>2, <2>1, <3>2
    <3>. QED  BY <3>3 DEF Objs
  <2>2. CASE b # a
    BY <1>2, <2>2 DEF Objs
  <2>. QED  BY <2>1, <2>2
<1>. QED  BY <1>3, <1>4, <1>6, <1>7, <1>8, <1>9

LEMMA Pushed ==
    ASSUME NEW F \in Families, NEW a \in Keys, NEW v \in Object, v \notin Objs(F), Alone(F),
           NEW G, Push(F, G, a, v)
    PROVE  /\ G \in Families /\ Alone(G)
           /\ Objs(G) = Objs(F) \union {v}
           /\ \A b \in Keys : \A i \in DOMAIN G[b] :
                  (i \in DOMAIN F[b] /\ G[b][i] = F[b][i]) \/ (b = a /\ G[b][i] = v)
<1>. DEFINE n == Len(F[a])
<1>1. F[a] \in Seq(Object) /\ n \in Nat /\ DOMAIN F[a] = 1 .. n
  BY DEF Families
<1>2. /\ G[a] = Append(F[a], v) /\ Append(F[a], v) \in Seq(Object) /\ DOMAIN G[a] = 1 .. n + 1
      /\ \A i \in 1 .. n : G[a][i] = F[a][i]
      /\ G[a][n + 1] = v
      /\ \A b \in Keys \ {a} : G[b] = F[b]
  BY <1>1 DEF Push
<1>3. G \in Families
  BY DEF Push
<1>4. ASSUME NEW b \in Keys, NEW i \in DOMAIN G[b]
      PROVE  (i \in DOMAIN F[b] /\ G[b][i] = F[b][i]) \/ (b = a /\ i = n + 1 /\ G[b][i] = v)
  BY <1>1, <1>2
<1>5. \A b \in Keys : \A i \in DOMAIN F[b] : F[b][i] # v
  BY DEF Objs
<1>6. Alone(G)
  <2>. SUFFICES ASSUME NEW b \in Keys, NEW d \in Keys, NEW i \in DOMAIN G[b], NEW j \in DOMAIN G[d],
                       G[b][i] = G[d][j]
                PROVE  b = d /\ i = j
    BY DEF Alone
  <2>1. (i \in DOMAIN F[b] /\ G[b][i] = F[b][i]) \/ (b = a /\ i = n + 1 /\ G[b][i] = v)
    BY <1>4
  <2>2. (j \in DOMAIN F[d] /\ G[d][j] = F[d][j]) \/ (d = a /\ j = n + 1 /\ G[d][j] = v)
    BY <1>4
  <2>. QED  BY <2>1, <2>2, <1>5 DEF Alone
<1>7. Objs(G) \subseteq Objs(F) \union {v}
  BY <1>4 DEF Objs
<1>8. Objs(F) \subseteq Objs(G)
  <2>. SUFFICES ASSUME NEW b \in Keys, NEW j \in DOMAIN F[b], F[b][j] \in Object
                PROVE  \E k \in DOMAIN G[b] : G[b][k] = F[b][j]
    BY DEF Objs
  <2>. QED  BY <1>1, <1>2
<1>9. v \in Objs(G)
  <2>1. n + 1 \in DOMAIN G[a]
    BY <1>1, <1>2
  <2>. QED  BY <1>2, <2>1 DEF Objs
<1>. QED  BY <1>3, <1>4, <1>6, <1>7, <1>8, <1>9

LEMMA Emptied ==
    ASSUME NEW F \in Families, Alone(F), NEW G \in Families, \A a \in Keys : G[a] \in {F[a], <<>>}
    PROVE  /\ Alone(G) /\ Objs(G) \subseteq Objs(F)
           /\ \A b \in Keys : \A i \in DOMAIN G[b] : i \in DOMAIN F[b] /\ G[b][i] = F[b][i]
<1>1. \A b \in Keys : \A i \in DOMAIN G[b] : i \in DOMAIN F[b] /\ G[b][i] = F[b][i]
  OBVIOUS
<1>. QED  BY <1>1 DEF Alone, Objs

(* The values of a queue of signals. *)
LEMMA ValueQueues ==
    ASSUME NEW t \in Seq(SignalOf(Object))
    PROVE  /\ Values(t) \in Seq(Object) /\ Len(Values(t)) = Len(t)
           /\ Values(<<>>) = <<>>
           /\ \A m \in SignalOf(Object) : Values(Append(t, m)) = Append(Values(t), m.value)
           /\ t # <<>> => /\ Values(t) # <<>> /\ Values(Tail(t)) = Tail(Values(t))
                          /\ Head(Values(t)) = Head(t).value
<1>1. t \in [1 .. Len(t) -> SignalOf(Object)] /\ Len(t) \in Nat
  OBVIOUS
<1>2. \A m \in SignalOf(Object) : m.value \in Object
  BY DEF SignalOf
<1>3. Values(t) \in Seq(Object) /\ Len(Values(t)) = Len(t) /\ DOMAIN Values(t) = 1 .. Len(t)
      /\ \A i \in 1 .. Len(t) : Values(t)[i] = t[i].value
  BY <1>1, <1>2 DEF Values
<1>4. Values(<<>>) = <<>>
  BY DEF Values
<1>5. ASSUME NEW m \in SignalOf(Object)
      PROVE  Values(Append(t, m)) = Append(Values(t), m.value)
  <2>1. /\ Append(t, m) \in Seq(SignalOf(Object)) /\ Len(Append(t, m)) = Len(t) + 1
        /\ DOMAIN Append(t, m) = 1 .. Len(t) + 1
        /\ \A i \in 1 .. Len(t) + 1 : Append(t, m)[i] = IF i <= Len(t) THEN t[i] ELSE m
    BY <1>1
  <2>2. Values(Append(t, m)) = [i \in 1 .. Len(t) + 1 |-> Append(t, m)[i].value]
    BY <2>1 DEF Values
  <2>3. Append(Values(t), m.value) = [i \in 1 .. Len(t) + 1 |-> IF i <= Len(t) THEN Values(t)[i] ELSE m.value]
    BY <1>1, <1>2, <1>3
  <2>4. \A i \in 1 .. Len(t) + 1 : Append(t, m)[i].value = IF i <= Len(t) THEN Values(t)[i] ELSE m.value
    BY <1>1, <1>3, <2>1
  <2>. QED  BY <2>2, <2>3, <2>4
<1>6. ASSUME t # <<>>
      PROVE  /\ Values(t) # <<>> /\ Values(Tail(t)) = Tail(Values(t))
             /\ Head(Values(t)) = Head(t).value
  <2>1. Len(t) > 0
    BY <1>1, <1>6, EmptySeq
  <2>2. Values(t) # <<>> /\ Head(Values(t)) = Head(t).value
    BY <1>1, <1>3, <2>1, EmptySeq
  <2>3. /\ DOMAIN Tail(t) = 1 .. Len(t) - 1
        /\ \A i \in 1 .. Len(t) - 1 : Tail(t)[i] = t[i + 1]
    BY <1>1, <2>1
  <2>4. Values(Tail(t)) = [i \in 1 .. Len(t) - 1 |-> Tail(t)[i].value]
    BY <2>3 DEF Values
  <2>5. Tail(Values(t)) = [i \in 1 .. Len(t) - 1 |-> Values(t)[i + 1]]
    <3>1. Values(t) \in Seq(Object) /\ Values(t) # <<>> /\ Len(Values(t)) = Len(t)
      BY <1>3, <2>2
    <3>2. /\ Tail(Values(t)) \in Seq(Object) /\ Len(Tail(Values(t))) = Len(t) - 1
          /\ \A i \in 1 .. Len(t) - 1 : Tail(Values(t))[i] = Values(t)[i + 1]
      BY <3>1, <1>1, <2>1
    <3>3. Tail(Values(t)) = [i \in 1 .. Len(t) - 1 |-> Tail(Values(t))[i]]
      <4>1. \A w \in Seq(Object) : w = [i \in 1 .. Len(w) |-> w[i]]
        OBVIOUS
      <4>. QED  BY <3>2, <4>1
    <3>. QED  BY <3>2, <3>3
  <2>6. \A i \in 1 .. Len(t) - 1 : Tail(t)[i].value = Values(t)[i + 1]
    BY <1>1, <1>3, <2>3
  <2>. QED  BY <2>2, <2>4, <2>5, <2>6
<1>. QED  BY <1>3, <1>4, <1>5, <1>6

-----------------------------------------------------------------------------
(* What a transfer does: it is queued where it should be, or the hash      *)
(* table does not have the receiver, or the sender ends.                   *)
LEMMA Transfers ==
    ASSUME Shapes, NEW p \in Proc, NEW v \in Object, NEW q \in Proc, Transfer(p, v, q)
    PROVE  \/ /\ stage' = stage /\ signals' = [signals EXCEPT ![q] = Append(@, [from |-> pid[p], value |-> v])]
              /\ q \in Running(matriz[p][q]) /\ Knows(hash[p], matriz[p][q])
           \/ /\ stage' = stage /\ signals' = signals
              /\ ~Knows(hash[p], matriz[p][q])
           \/ /\ stage' = [stage EXCEPT ![p] = "ended"] /\ signals' = [signals EXCEPT ![p] = <<>>]
              /\ Running(matriz[p][q]) = {}
<1>. DEFINE x == matriz[p][q]
            m == [from |-> pid[p], value |-> v]
<1>1. Running(x) \subseteq {q}
  <2>1. x \in PidsOf[q] \union {0}
    BY DEF Shapes, OwnPids
  <2>. QED  BY <2>1, OnePid DEF Shapes
<1>2. CASE ~Knows(hash[p], x)
  BY <1>2 DEF Transfer
<1>3. CASE Knows(hash[p], x) /\ Running(x) = {}
  BY <1>3 DEF Transfer, End
<1>4. CASE Knows(hash[p], x) /\ Running(x) # {}
  <2>1. Running(x) = {q}
    BY <1>1, <1>4
  <2>2. signals' = [r \in Proc |-> IF r \in Running(x) THEN Append(signals[r], m) ELSE signals[r]]
        /\ stage' = stage
    BY <1>4 DEF Transfer
  <2>. HIDE DEF m, x
  <2>3. signals' = [signals EXCEPT ![q] = Append(@, m)]
    BY <2>1, <2>2, StageTypes
  <2>. QED  BY <1>4, <2>1, <2>2, <2>3 DEF x, m
<1>. QED  BY <1>2, <1>3, <1>4

-----------------------------------------------------------------------------
(* A go is sent once to each member, and no member that runs has one left. *)
LEMMA GoesKept ==
    ASSUME Shapes, Goes, UNCHANGED <<coordinator, sent>>,
           \A f \in Members : ready'[f] = ready[f] /\ (stage'[f] = "running" => stage[f] = "running")
    PROVE  Goes'
  BY DEF Goes, GoesSent, Members

(* Go goes to each member once.                                            *)
LEMMA SendGoGoes ==
    ASSUME Shapes, Goes, SendGo
    PROVE  Goes'
<1>. DEFINE c == coordinator
            f == NextMember
            there == Running(matriz[c][f])
            m == [from |-> pid[c], value |-> GoValue]
<1>1. /\ stage[c] = "send" /\ c \in Proc /\ c \notin Members /\ Members \subseteq Proc /\ f \in Members
      /\ sent \in Nat /\ coordinator' = coordinator /\ Members' = Members
  BY NextIsMember, StageTypes DEF SendGo, Members
<1>2. there \subseteq {f}
  <2>1. f \in Proc /\ matriz[c][f] \in PidsOf[f] \union {0}
    BY <1>1 DEF Shapes, OwnPids
  <2>. QED  BY <2>1, OnePid DEF Shapes
<1>3. \A g \in Members : stage'[g] = stage[g]
  BY <1>1, StageTypes DEF SendGo, End
<1>4. CASE there = {}
  <2>1. ready' = ready /\ sent' = sent
    BY <1>4 DEF SendGo, NextMember
  <2>. QED  BY <1>1, <1>3, <2>1, GoesKept
<1>5. CASE there # {}
  <2>1. there = {f}
    BY <1>2, <1>5
  <2>2. /\ ready' = [p \in Proc |-> IF p \in there THEN Append(ready[p], m) ELSE ready[p]]
        /\ sent' = sent + 1
    BY <1>5 DEF SendGo, NextMember
  <2>. HIDE DEF m, there
  <2>3. ready'[f] = Append(ready[f], m) /\ \A g \in Members \ {f} : ready'[g] = ready[g]
    BY <1>1, <2>1, <2>2
  <2>4. f \notin GoesSent /\ f \in GoesSent' /\ GoesSent \subseteq GoesSent'
    BY <1>1, <2>2, GatewayIsNotFrontend DEF GoesSent, NextMember
  <2>. HIDE DEF f
  <2>5. ready[f] = <<>> /\ stage[f] # "running"
    BY <1>1, <2>4 DEF Goes
  <2>6. Len(ready'[f]) = 1
    BY <2>3, <2>5
  <2>. QED  BY <1>1, <1>3, <2>3, <2>4, <2>5, <2>6 DEF Goes
<1>. QED  BY <1>4, <1>5

LEMMA GoStepGoes ==
    ASSUME Shapes, Goes, Quiet', NEW f \in Fn, GoStep(f)
    PROVE  Goes'
<1>1. Waited(f)
  BY DEF GoStep, NfGoes, ServiceGoes
<1>2. signals[f] = <<>>
  BY <1>1 DEF Waited, Mishap, Quiet
<1>3. /\ f \in Members /\ f \in Proc /\ ready[f] # <<>> /\ ready' = [ready EXCEPT ![f] = Tail(@)]
      /\ stage' = [stage EXCEPT ![f] = "running"] /\ UNCHANGED <<coordinator, sent>>
  BY <1>1, <1>2, StageTypes DEF Waited
<1>4. /\ \A g \in Members \ {f} : ready'[g] = ready[g] /\ stage'[g] = stage[g]
      /\ ready'[f] \in Seq(SignalOf(Fn)) /\ Len(ready'[f]) = Len(ready[f]) - 1
  <2>1. ready \in [Proc -> Seq(SignalOf(Fn))]
    BY StageTypes
  <2>2. /\ \A q \in Proc \ {f} : ready'[q] = ready[q]
        /\ ready' \in [Proc -> Seq(SignalOf(Fn))] /\ Len(ready'[f]) = Len(ready[f]) - 1
    BY <1>3, <2>1, Tails
  <2>. QED  BY <1>3, <2>2, StageTypes
<1>5. f \in GoesSent /\ Len(ready[f]) = 1
  BY <1>3 DEF Goes
<1>6. ready'[f] = <<>>
  BY <1>4, <1>5, EmptySeq
<1>. QED  BY <1>3, <1>4, <1>5, <1>6 DEF Goes, GoesSent, Members

(* So no member takes a go for a transfer. *)
LEMMA NoGoIsReceived ==
    ASSUME Shapes, Goes, NEW f \in Proc
    PROVE  ~ReceiveGo(f)
  BY StageTypes, Coordinators DEF ReceiveGo, Receives, Goes, Members

LEMMA StartUpGoes ==
    ASSUME Shapes, Goes, Quiet', StartUp
    PROVE  Goes'
<1>. USE DEF rendezvous
<1>1. ASSUME NEW p \in Proc, StartStep(p) PROVE Goes'
  <2>0. PICK x \in PidsOf[p] : \E s : Starting(p, x, s)
    BY <1>1, StartStarts DEF StartStep
  <2>1. PICK s : Starting(p, x, s)
    BY <2>0
  <2>2. \A q \in Members : q \notin Running(pidMap[coordinator])
    <3>1. pidMap[coordinator] \in PidsOf[coordinator] \union {0}
      BY StageTypes DEF Shapes, OwnPids
    <3>2. Running(pidMap[coordinator]) \subseteq {coordinator}
      BY <3>1, StageTypes, OnePid DEF Shapes
    <3>. QED  BY <3>2, StageTypes
  <2>3. \A q \in Members : ready'[q] = ready[q]
    BY <2>1, <2>2, StageTypes DEF Starting
  <2>4. stage' = [stage EXCEPT ![p] = s] /\ s # "running" /\ UNCHANGED <<coordinator, sent>>
    BY <2>1 DEF Starting
  <2>. QED  BY <2>3, <2>4, StageTypes, GoesKept
<1>2. CASE GatewayOpens
  BY <1>2, StageTypes, Coordinators, GoesKept DEF GatewayOpens
<1>3. CASE GatewayGathers
  BY <1>3, StageTypes, Coordinators, GoesKept DEF GatewayGathers
<1>4. CASE GatewayLooksUp
  BY <1>4, StageTypes, Coordinators, GoesKept DEF GatewayLooksUp
<1>5. CASE Gather
  BY <1>5, StageTypes, GoesKept DEF Gather
<1>. QED  BY <1>1, <1>2, <1>3, <1>4, <1>5, SendGoGoes, GoStepGoes, Zenon DEF StartUp

-----------------------------------------------------------------------------
(* Who sent a signal is still there.                                       *)
LEMMA CalmSenders ==
    ASSUME Shapes, Senders, Calm
    PROVE  Senders'
<1>. SUFFICES ASSUME NEW p \in Proc, NEW i \in DOMAIN signals'[p]
              PROVE  \E q \in Proc : /\ signals'[p][i].from = pid'[q] /\ pid'[q] # 0
                                     /\ q = GATEWAY => p = At(1)'
                                     /\ q \in Members' => count' = Expected'
  BY DEF Senders
<1>1. coordinator' = coordinator /\ Members' = Members /\ Expected' = Expected /\ At(1)' = At(1)
  BY DEF Calm, Members, Expected, At, Path
<1>2. signals'[p] = signals[p]
  BY DEF Calm
<1>3. PICK q \in Proc : /\ signals[p][i].from = pid[q] /\ pid[q] # 0
                        /\ q = GATEWAY => p = At(1)
                        /\ q \in Members => count = Expected
  BY <1>2 DEF Senders
<1>4. pid'[q] = pid[q] /\ (count = Expected => count' = count)
  BY <1>3 DEF Calm
<1>. QED  BY <1>1, <1>2, <1>3, <1>4

(* Each signal that is queued is an old one or was sent by q. *)
LEMMA QueuedSenders ==
    ASSUME Shapes, Senders, UNCHANGED <<coordinator, pid, count>>, NEW s \in Proc,
           pid[s] # 0, s \in Members => count = Expected,
           \A p \in Proc : \A i \in DOMAIN signals'[p] :
               \/ \E j \in DOMAIN signals[p] : signals'[p][i] = signals[p][j]
               \/ signals'[p][i].from = pid[s] /\ (s = GATEWAY => p = At(1))
    PROVE  Senders'
<1>. SUFFICES ASSUME NEW p \in Proc, NEW i \in DOMAIN signals'[p]
              PROVE  \E q \in Proc : /\ signals'[p][i].from = pid'[q] /\ pid'[q] # 0
                                     /\ q = GATEWAY => p = At(1)'
                                     /\ q \in Members' => count' = Expected'
  BY DEF Senders
<1>1. Members' = Members /\ Expected' = Expected /\ At(1)' = At(1)
  BY DEF Members, Expected, At, Path
<1>2. CASE \E j \in DOMAIN signals[p] : signals'[p][i] = signals[p][j]
  BY <1>1, <1>2 DEF Senders
<1>3. CASE signals'[p][i].from = pid[s] /\ (s = GATEWAY => p = At(1))
  BY <1>1, <1>3
<1>. QED  BY <1>2, <1>3

(* A transfer comes from somebody whose pid is known, and of the members   *)
(* only when all are there.                                                *)
LEMMA TransferSenders ==
    ASSUME Shapes, Senders, UNCHANGED <<coordinator, pid, count>>, NEW s \in Proc,
           pid[s] # 0, s \in Members => count = Expected,
           NEW v \in Object, NEW q \in Proc, Transfer(s, v, q), s = GATEWAY => q = At(1)
    PROVE  Senders'
<1>. DEFINE m == [from |-> pid[s], value |-> v]
<1>1. m \in SignalOf(Object) /\ signals \in [Proc -> Seq(SignalOf(Object))]
  BY StageTypes DEF SignalOf
<1>2. \/ signals' = [signals EXCEPT ![q] = Append(@, m)]
      \/ signals' = signals
      \/ signals' = [signals EXCEPT ![s] = <<>>]
  BY Transfers
<1>3. m.from = pid[s]
  OBVIOUS
<1>. HIDE DEF m
<1>4. ASSUME signals' = [signals EXCEPT ![q] = Append(@, m)]
      PROVE  \A p \in Proc : \A i \in DOMAIN signals'[p] :
                 \/ \E j \in DOMAIN signals[p] : signals'[p][i] = signals[p][j]
                 \/ signals'[p][i].from = pid[s] /\ (s = GATEWAY => p = At(1))
  <2>1. signals' = [r \in Proc |-> IF r \in {q} THEN Append(signals[r], m) ELSE signals[r]]
    BY <1>1, <1>4
  <2>2. \A p \in Proc : \A i \in DOMAIN signals'[p] :
            (i \in DOMAIN signals[p] /\ signals'[p][i] = signals[p][i]) \/ (p \in {q} /\ signals'[p][i] = m)
    BY <1>1, <2>1, Appends
  <2>. QED  BY <2>2, <1>3
<1>5. ASSUME signals' = signals \/ signals' = [signals EXCEPT ![s] = <<>>]
      PROVE  \A p \in Proc : \A i \in DOMAIN signals'[p] :
                 \E j \in DOMAIN signals[p] : signals'[p][i] = signals[p][j]
  BY <1>1, <1>5
<1>6. ASSUME \A p \in Proc : \A i \in DOMAIN signals'[p] :
                 \/ \E j \in DOMAIN signals[p] : signals'[p][i] = signals[p][j]
                 \/ signals'[p][i].from = pid[s] /\ (s = GATEWAY => p = At(1))
      PROVE  Senders'
  BY <1>2, <1>6, QueuedSenders
<1>. QED  BY <1>2, <1>4, <1>5, <1>6

LEMMA SendersKept ==
    ASSUME Senders, UNCHANGED <<coordinator, pid, count, signals>>
    PROVE  Senders'
<1>1. Members' = Members /\ Expected' = Expected /\ At(1)' = At(1)
  BY DEF Members, Expected, At, Path
<1>. QED  BY <1>1 DEF Senders

LEMMA ThreadSenders ==
    ASSUME Shapes, Rendezvous, Quiet, Goes, Senders,
           \/ \E p \in Proc : ReceiveSignal(p) \/ ReceiveGo(p) \/ HandOn(p)
           \/ Answer
           \/ \E o \in Object : Dispatch(o)
    PROVE  Senders'
<1>. USE DEF rendezvous, tables
<1>1. \A p \in Proc : stage[p] # "off" => pid[p] # 0
  BY DEF Shapes, OwnPids
<1>2. ASSUME NEW p \in Proc, ReceiveSignal(p) PROVE Senders'
  <2>1. /\ UNCHANGED <<coordinator, pid, count>> /\ signals[p] # <<>>
        /\ signals' = [signals EXCEPT ![p] = Tail(@)] /\ stage[p] # "off"
    BY <1>2 DEF ReceiveSignal, Receives
  <2>2. ASSUME NEW q \in Proc, NEW i \in DOMAIN signals'[q]
        PROVE  \E j \in DOMAIN signals[q] : signals'[q][i] = signals[q][j]
    <3>1. signals \in [Proc -> Seq(SignalOf(Object))]
      BY StageTypes
    <3>2. /\ \A r \in Proc \ {p} : signals'[r] = signals[r]
          /\ \A k \in DOMAIN signals'[p] : signals'[p][k] = signals[p][k + 1] /\ k + 1 \in DOMAIN signals[p]
      BY <2>1, <3>1, Tails
    <3>. QED  BY <3>2
  <2>3. /\ Members' = Members /\ Expected' = Expected /\ At(1)' = At(1)
    BY <2>1 DEF Members, Expected, At, Path
  <2>. QED  BY <2>1, <2>2, <2>3 DEF Senders
<1>3. ASSUME NEW p \in Proc, ReceiveGo(p) PROVE Senders'
  BY <1>3, NoGoIsReceived
<1>4. ASSUME NEW f \in Proc, HandOn(f) PROVE Senders'
  <2>. DEFINE o == Head(held[f])
  <2>1. /\ UNCHANGED <<coordinator, pid, count>> /\ f \in Fn /\ Receives(f)
        /\ Transfer(f, Addr(o), At(NextHop(o))) /\ held[f] # <<>>
    BY <1>4 DEF HandOn
  <2>2. o \in Object
    BY <2>1, ObjectTypes, Tails
  <2>. HIDE DEF o
  <2>3. Addr(o) \in Object /\ At(NextHop(o)) \in Proc
    BY <2>2, ObjectTypes, StageTypes, Ways DEF Addr
  <2>4. f # GATEWAY /\ stage[f] # "off"
    BY <2>1, StageTypes, Coordinators DEF Receives
  <2>5. f \in Members => count = Expected
    BY <2>1, <2>4 DEF Receives, Members, Rendezvous, AllThere
  <2>. QED  BY <1>1, <2>1, <2>3, <2>4, <2>5, TransferSenders
<1>5. ASSUME Answer PROVE Senders'
  <2>1. UNCHANGED <<coordinator, pid, count, signals>>
    BY <1>5 DEF Answer
  <2>. QED  BY <2>1, SendersKept
<1>6. ASSUME NEW o \in Object, Dispatch(o) PROVE Senders'
  <2>1. /\ UNCHANGED <<coordinator, pid, count>> /\ stage[GATEWAY] # "off"
        /\ Transfer(GATEWAY, o, At(1))
    BY <1>6 DEF Dispatch
  <2>2. At(1) \in Proc /\ GATEWAY \in Proc /\ GATEWAY \notin Members
    BY StageTypes, Ways, Coordinators
  <2>. QED  BY <1>1, <2>1, <2>2, TransferSenders
<1>. QED  BY <1>2, <1>3, <1>4, <1>5, <1>6

-----------------------------------------------------------------------------
ChainKnows ==
    /\ \A f \in Taken : Knows(hash[f], pid[GATEWAY])
    /\ \A i \in DOMAIN ready[GATEWAY] : Knows(hash[ready[GATEWAY][i].value], pid[GATEWAY])

MuteFrontend ==
    /\ seen[FRONTEND] = None
    /\ \A p \in Proc : held[p] = <<>>
    /\ \A p \in Proc : signals[p] # <<>> => p = FRONTEND
    /\ \A i \in DOMAIN signals[FRONTEND] : signals[FRONTEND][i].from = pid[GATEWAY]

(* The first function of a path knows the gateway.                         *)
LEMMA FirstKnowsParts ==
    FirstKnows <=> (coordinator = GATEWAY => ChainKnows) /\ (Mute => MuteFrontend)
  BY DEF FirstKnows, ChainKnows, MuteFrontend

(* Whoever counts, or is about to, is there, and so is the gateway then.   *)
LEMMA CountedAreThere ==
    ASSUME Shapes, Rendezvous, Quiet, coordinator = GATEWAY
    PROVE  /\ \A f \in Taken : stage[f] # "off" /\ f \in Fn /\ There(GATEWAY)
           /\ \A i \in DOMAIN ready[GATEWAY] :
                  /\ ready[GATEWAY][i].value \in Fn /\ stage[ready[GATEWAY][i].value] # "off"
                  /\ There(GATEWAY)
<1>1. Published /\ InReady /\ Gathered
  BY DEF Rendezvous
<1>2. \A q \in Proc : There(q) => stage[q] # "off"
  BY <1>1 DEF Published, There
<1>3. ASSUME NEW f \in Taken
      PROVE  stage[f] # "off" /\ f \in Fn /\ There(GATEWAY)
  <2>1. f \in Members /\ There(f)
    BY <1>1 DEF Gathered, Taken
  <2>2. count > 0
    <3>1. IsFiniteSet(Taken)
      BY Coordinators, StageTypes, FS_Subset DEF Taken
    <3>2. Cardinality(Taken) # 0 /\ Cardinality(Taken) \in Nat
      BY <3>1, FS_EmptySet, FS_CardinalityType
    <3>. QED  BY <3>2, <1>1 DEF Gathered
  <2>. QED  BY <1>1, <1>2, <2>1, <2>2, StageTypes DEF Gathered
<1>4. ASSUME NEW i \in DOMAIN ready[GATEWAY]
      PROVE  /\ ready[GATEWAY][i].value \in Fn /\ stage[ready[GATEWAY][i].value] # "off"
             /\ There(GATEWAY)
  <2>1. ready[GATEWAY][i].value \in Members /\ There(ready[GATEWAY][i].value)
    BY <1>1 DEF InReady, Shapes, OwnPids
  <2>2. ready[GATEWAY] # <<>>
    OBVIOUS
  <2>. QED  BY <1>1, <1>2, <2>1, <2>2, StageTypes DEF Gathered
<1>. QED  BY <1>3, <1>4

(* In a chain, all that the gateway counted know it.                       *)
LEMMA ChainKept ==
    ASSUME Shapes, Rendezvous, Quiet, coordinator = GATEWAY, ChainKnows,
           coordinator' = coordinator,
           \A f \in Members : matriz'[GATEWAY][f] = matriz[GATEWAY][f],
           ready'[GATEWAY] = ready[GATEWAY],
           pid[GATEWAY] # 0 => pid'[GATEWAY] = pid[GATEWAY],
           \A q \in Fn : stage[q] # "off" => \A x \in Used0 : Knows(hash[q], x) => Knows(hash'[q], x)
    PROVE  ChainKnows'
<1>1. Taken' = Taken
  BY DEF Taken, Members
<1>2. pid[GATEWAY] \in Used0
  BY UsedPids, StageTypes
<1>3. There(GATEWAY) => pid'[GATEWAY] = pid[GATEWAY]
  BY DEF There
<1>4. ASSUME NEW f \in Taken PROVE Knows(hash'[f], pid'[GATEWAY])
  BY <1>2, <1>3, CountedAreThere DEF ChainKnows
<1>5. ASSUME NEW i \in DOMAIN ready[GATEWAY] PROVE Knows(hash'[ready[GATEWAY][i].value], pid'[GATEWAY])
  <2>. DEFINE g == ready[GATEWAY][i].value
  <2>1. g \in Fn /\ stage[g] # "off" /\ There(GATEWAY)
    BY CountedAreThere
  <2>2. Knows(hash[g], pid[GATEWAY])
    BY DEF ChainKnows
  <2>. HIDE DEF g
  <2>3. Knows(hash'[g], pid'[GATEWAY])
    BY <1>2, <1>3, <2>1, <2>2
  <2>. QED  BY <2>3 DEF g
<1>. QED  BY <1>1, <1>4, <1>5 DEF ChainKnows

LEMMA StartChain ==
    ASSUME Shapes, Shapes', Rendezvous, Quiet', Apart', coordinator = GATEWAY, ChainKnows,
           NEW p \in Proc, NEW x \in PidsOf[p], NEW s, Starting(p, x, s)
    PROVE  ChainKnows'
<1>1. Calm
  BY StartCalm
<1>2. Quiet /\ coordinator' = coordinator /\ Published
  BY DEF Quiet, Starting, Rendezvous
<1>3. ASSUME NEW f \in Members PROVE matriz'[GATEWAY][f] = matriz[GATEWAY][f]
  BY StageTypes DEF Starting
<1>4. \A q \in Fn : stage[q] # "off" => \A y \in Used0 : Knows(hash[q], y) => Knows(hash'[q], y)
  BY <1>1 DEF Calm
<1>5. pid[GATEWAY] # 0 => pid'[GATEWAY] = pid[GATEWAY]
  BY <1>1, StageTypes DEF Calm
<1>6. CASE ready'[GATEWAY] = ready[GATEWAY]
  BY <1>2, <1>3, <1>4, <1>5, <1>6, ChainKept
<1>7. CASE ready'[GATEWAY] # ready[GATEWAY]
  <2>. DEFINE m == [from |-> x, value |-> p]
              D == Running(pidMap[GATEWAY])
  <2>1. p \in Members /\ s = "waiting"
        /\ ready' = [q \in Proc |-> IF q \in D THEN Append(ready[q], m) ELSE ready[q]]
    BY <1>7 DEF Starting
  <2>2. D \in SUBSET Proc /\ m \in SignalOf(Fn)
    BY <2>1, PidsAreNaturals, StageTypes DEF Running, SignalOf
  <2>3. m.value = p
    OBVIOUS
  <2>4. GATEWAY \in D /\ GATEWAY \in Proc /\ p # GATEWAY
    BY <1>7, <2>1, StageTypes, Coordinators
  <2>5. pid[GATEWAY] = pidMap[GATEWAY] /\ pid[GATEWAY] # 0
    BY <2>4 DEF Running, Shapes, OwnPids
  <2>6. Knows(hash'[p], pid'[GATEWAY])
    BY <1>5, <2>1, <2>5 DEF Starting
  <2>. HIDE DEF m, D
  <2>7. \A i \in DOMAIN ready'[GATEWAY] :
            (i \in DOMAIN ready[GATEWAY] /\ ready'[GATEWAY][i] = ready[GATEWAY][i]) \/ ready'[GATEWAY][i] = m
    BY <2>1, <2>2, <2>4, StageTypes, Appends
  <2>8. \A f \in Taken : Knows(hash'[f], pid'[GATEWAY])
    BY <1>2, <1>4, <1>5, <2>5, CountedAreThere, UsedPids, <2>4 DEF ChainKnows
  <2>9. Taken' = Taken
    BY <1>2, <1>3 DEF Taken, Members
  <2>10. ASSUME NEW i \in DOMAIN ready[GATEWAY] PROVE Knows(hash'[ready[GATEWAY][i].value], pid'[GATEWAY])
    <3>. DEFINE g == ready[GATEWAY][i].value
    <3>1. g \in Fn /\ stage[g] # "off"
      BY <1>2, CountedAreThere
    <3>2. Knows(hash[g], pid[GATEWAY]) /\ pid[GATEWAY] \in Used0
      BY <2>4, UsedPids DEF ChainKnows
    <3>. HIDE DEF g
    <3>3. Knows(hash'[g], pid'[GATEWAY])
      BY <1>4, <1>5, <2>5, <3>1, <3>2
    <3>. QED  BY <3>3 DEF g
  <2>11. ASSUME NEW i \in DOMAIN ready'[GATEWAY] PROVE Knows(hash'[ready'[GATEWAY][i].value], pid'[GATEWAY])
    BY <2>3, <2>6, <2>7, <2>10
  <2>. QED  BY <2>8, <2>9, <2>11 DEF ChainKnows
<1>. QED  BY <1>6, <1>7

LEMMA GatherChain ==
    ASSUME Shapes, Rendezvous, Quiet, coordinator = GATEWAY, ChainKnows, Gather
    PROVE  ChainKnows'
<1>. DEFINE m == Head(ready[GATEWAY])
            n == Len(ready[GATEWAY])
<1>1. /\ UNCHANGED <<coordinator, pid>> /\ ready[GATEWAY] # <<>>
      /\ ready' = [ready EXCEPT ![GATEWAY] = Tail(@)]
      /\ matriz' = [matriz EXCEPT ![GATEWAY][m.value] = m.from]
      /\ hash' = [hash EXCEPT ![GATEWAY] = Learn(@, m.from)]
  BY DEF Gather
<1>2. /\ \A i \in DOMAIN ready'[GATEWAY] :
             ready'[GATEWAY][i] = ready[GATEWAY][i + 1] /\ i + 1 \in DOMAIN ready[GATEWAY]
      /\ m = ready[GATEWAY][1] /\ 1 \in DOMAIN ready[GATEWAY]
  BY <1>1, StageTypes, Tails
<1>3. Knows(hash[m.value], pid[GATEWAY]) /\ m.value \in Members
  BY <1>2 DEF ChainKnows, Shapes, OwnPids
<1>. HIDE DEF m
<1>4. \A q \in Fn : hash'[q] = hash[q]
  BY <1>1, StageTypes, Coordinators
<1>5. ASSUME NEW f \in Taken' PROVE f \in Taken \/ f = m.value
  BY <1>1, StageTypes DEF Taken, Members
<1>6. \A f \in Taken' : f \in Fn
  BY DEF Taken, Members
<1>7. ASSUME NEW i \in DOMAIN ready'[GATEWAY] PROVE Knows(hash'[ready'[GATEWAY][i].value], pid'[GATEWAY])
  <2>1. ready'[GATEWAY][i] = ready[GATEWAY][i + 1] /\ i + 1 \in DOMAIN ready[GATEWAY]
    BY <1>2
  <2>2. ready[GATEWAY][i + 1].value \in Members /\ Knows(hash[ready[GATEWAY][i + 1].value], pid[GATEWAY])
    BY <2>1 DEF ChainKnows, Shapes, OwnPids
  <2>. QED  BY <1>1, <1>4, <2>1, <2>2, StageTypes
<1>8. ASSUME NEW f \in Taken' PROVE Knows(hash'[f], pid'[GATEWAY])
  BY <1>1, <1>3, <1>4, <1>5, <1>6 DEF ChainKnows
<1>. QED  BY <1>7, <1>8 DEF ChainKnows

LEMMA StartUpChain ==
    ASSUME Shapes, Shapes', Rendezvous, Quiet', Apart', coordinator = GATEWAY, ChainKnows, StartUp
    PROVE  ChainKnows'
<1>. USE DEF rendezvous
<1>1. Calm
  BY CalmSteps
<1>2. /\ Quiet /\ coordinator' = coordinator
      /\ \A q \in Fn : stage[q] # "off" => \A x \in Used0 : Knows(hash[q], x) => Knows(hash'[q], x)
      /\ pid[GATEWAY] # 0 => pid'[GATEWAY] = pid[GATEWAY]
  BY <1>1, StageTypes DEF Calm, Quiet
<1>3. ASSUME NEW p \in Proc, StartStep(p) PROVE ChainKnows'
  <2>0. PICK x \in PidsOf[p] : \E s : Starting(p, x, s)
    BY <1>3, StartStarts DEF StartStep
  <2>1. PICK s : Starting(p, x, s)
    BY <2>0
  <2>. QED  BY <2>1, StartChain
<1>4. CASE Gather
  BY <1>2, <1>4, GatherChain
<1>5. ASSUME \/ GatewayOpens \/ GatewayGathers \/ GatewayLooksUp \/ SendGo
             \/ \E f \in Fn : GoStep(f)
      PROVE  /\ \A f \in Members : matriz'[GATEWAY][f] = matriz[GATEWAY][f]
             /\ ready'[GATEWAY] = ready[GATEWAY]
  <2>1. GATEWAY \notin Members /\ GATEWAY \notin Fn
    BY Coordinators, StageTypes
  <2>2. CASE GatewayOpens
    BY <2>2 DEF GatewayOpens
  <2>3. CASE GatewayGathers
    BY <2>1, <2>3, StageTypes DEF GatewayGathers
  <2>4. CASE GatewayLooksUp
    BY <2>4, GatewayIsNotFrontend DEF GatewayLooksUp
  <2>5. CASE SendGo
    <3>. DEFINE g == NextMember
                there == Running(matriz[coordinator][g])
    <3>1. stage[coordinator] = "send" /\ matriz' = matriz
      BY <2>5 DEF SendGo, tables
    <3>2. g \in Members
      BY <3>1, NextIsMember
    <3>3. there \subseteq {g}
      <4>1. g \in Proc /\ matriz[coordinator][g] \in PidsOf[g] \union {0}
        BY <3>2, StageTypes DEF Shapes, OwnPids
      <4>. QED  BY <4>1, OnePid DEF Shapes
    <3>4. GATEWAY \notin there
      BY <2>1, <3>2, <3>3
    <3>. HIDE DEF there
    <3>5. \A q \in Proc \ there : ready'[q] = ready[q]
      BY <2>5, StageTypes DEF SendGo, NextMember, there
    <3>. QED  BY <3>1, <3>4, <3>5, StageTypes
  <2>6. ASSUME NEW f \in Fn, GoStep(f)
        PROVE  matriz'[GATEWAY] = matriz[GATEWAY] /\ ready'[GATEWAY] = ready[GATEWAY]
    <3>1. Waited(f)
      BY <2>6 DEF GoStep, NfGoes, ServiceGoes
    <3>. QED  BY <2>1, <3>1, StageTypes DEF Waited
  <2>. QED  BY <1>5, <2>2, <2>3, <2>4, <2>5, <2>6
<1>6. ASSUME \/ GatewayOpens \/ GatewayGathers \/ GatewayLooksUp \/ SendGo
             \/ \E f \in Fn : GoStep(f)
      PROVE  ChainKnows'
  BY <1>2, <1>5, <1>6, ChainKept
<1>. QED  BY <1>3, <1>4, <1>6, Zenon DEF StartUp

(* Once the frontend knows the gateway it always does. *)
LEMMA CalmMute ==
    ASSUME Shapes, Senders, Calm, Apart', Mute => MuteFrontend, Mute'
    PROVE  MuteFrontend'
<1>1. coordinator = FRONTEND /\ coordinator' = coordinator
  BY DEF Mute, Calm
<1>2. Mute
  <2>. SUFFICES ASSUME stage[FRONTEND] # "off", pid[GATEWAY] # 0, Knows(hash[FRONTEND], pid[GATEWAY])
                PROVE  FALSE
    BY <1>1 DEF Mute
  <2>1. pid[GATEWAY] \in Used0
    BY StageTypes, UsedPids
  <2>2. /\ stage'[FRONTEND] # "off" /\ pid'[GATEWAY] = pid[GATEWAY]
        /\ Knows(hash'[FRONTEND], pid[GATEWAY])
    BY <1>1, <2>1, StageTypes DEF Calm
  <2>. QED  BY <2>2 DEF Mute
<1>3. MuteFrontend /\ seen' = seen /\ held' = held
  BY <1>2 DEF Calm, objects
<1>4. \A p \in Proc : signals'[p] # <<>> => signals'[p] = signals[p]
  BY DEF Calm
<1>5. ASSUME NEW i \in DOMAIN signals'[FRONTEND] PROVE signals'[FRONTEND][i].from = pid'[GATEWAY]
  <2>1. signals'[FRONTEND] = signals[FRONTEND]
    BY <1>4, StageTypes
  <2>2. signals[FRONTEND][i].from = pid[GATEWAY]
    BY <1>3, <2>1 DEF MuteFrontend
  <2>3. signals[FRONTEND][i].from # 0
    BY <2>1, StageTypes DEF Senders
  <2>. QED  BY <2>1, <2>2, <2>3, StageTypes DEF Calm
<1>. QED  BY <1>3, <1>4, <1>5 DEF MuteFrontend

(* A function that has a signal knows who sent it, but for the frontend    *)
(* that does not know the gateway.                                         *)
LEMMA KnowsSender ==
    ASSUME Shapes, Rendezvous, Quiet, Apart, FirstKnows, Senders, NEW p \in Fn, Receives(p),
           NEW i \in DOMAIN signals[p]
    PROVE  Knows(hash[p], signals[p][i].from) \/ (p = FRONTEND /\ Mute)
<1>1. /\ Tables /\ AllThere /\ Gathered /\ p \in Proc /\ p # GATEWAY
  BY StageTypes, Coordinators DEF Rendezvous
<1>2. PICK q \in Proc : /\ signals[p][i].from = pid[q] /\ pid[q] # 0
                        /\ q = GATEWAY => p = At(1)
                        /\ q \in Members => count = Expected
  BY <1>1 DEF Senders
<1>3. At(1) = FRONTEND
  BY Ways, StageTypes
<1>4. q \in Fn \/ q = GATEWAY
  BY DEF Proc
<1>5. CASE p \in Members
  <2>1. stage[p] = "running"
    BY <1>1, <1>5, StageTypes DEF Receives
  <2>2. HasAll(p) /\ count = Expected
    BY <1>1, <1>5, <2>1 DEF Tables, AllThere
  <2>3. CASE q \in Fn
    BY <1>2, <2>2, <2>3 DEF HasAll
  <2>4. CASE q = GATEWAY
    <3>1. coordinator = GATEWAY
      BY <1>2, <1>3, <1>5, <2>4, StageTypes DEF Members
    <3>2. p \in Taken
      BY <1>1, <1>5, <2>2, Complete
    <3>. QED  BY <1>2, <2>4, <3>1, <3>2 DEF FirstKnows
  <2>. QED  BY <1>4, <2>3, <2>4
<1>6. CASE p \notin Members
  <2>1. p = coordinator /\ p = FRONTEND
    BY <1>1, <1>6, StageTypes DEF Members
  <2>2. stage[p] \in {"gather", "send", "running"}
    BY <1>1, <2>1 DEF Receives
  <2>3. CASE q = GATEWAY
    BY <1>2, <2>1, <2>2, <2>3 DEF Mute
  <2>4. CASE q = coordinator
    BY <1>1, <1>2, <2>1, <2>2, <2>4 DEF Tables
  <2>5. CASE q \in Members
    <3>1. q \in Taken
      BY <1>1, <1>2, <2>5, Complete
    <3>. QED  BY <1>1, <1>2, <2>1, <3>1 DEF Tables
  <2>. QED  BY <1>4, <2>3, <2>4, <2>5 DEF Members
<1>. QED  BY <1>5, <1>6

(* So a signal that is rejected is thrown away. *)
LEMMA Obtained ==
    ASSUME Shapes, Rendezvous, Quiet, Apart, FirstKnows, Senders, NEW p \in Proc, ReceiveSignal(p)
    PROVE  LET m == Head(signals[p])
           IN  /\ signals[p] # <<>> /\ m = signals[p][1] /\ 1 \in DOMAIN signals[p] /\ m.value \in Object
               /\ signals' = [signals EXCEPT ![p] = Tail(@)] /\ stage' = stage
               /\ stage[p] \notin {"off", "ended"}
               /\ UNCHANGED <<inUse, hop>>
               /\ \/ /\ Knows(hash[p], m.from) /\ deaf' = deaf
                     /\ seen' = [seen EXCEPT ![p] = m.value]
                     /\ held' = [held EXCEPT ![p] = Append(@, m.value)]
                  \/ /\ ~Knows(hash[p], m.from) /\ (p = GATEWAY \/ (p = FRONTEND /\ Mute))
                     /\ deaf' = deaf \union {p} /\ seen' = seen /\ held' = held
<1>. DEFINE m == Head(signals[p])
<1>1. /\ signals[p] # <<>> /\ signals' = [signals EXCEPT ![p] = Tail(@)] /\ stage' = stage
      /\ Obtain(p, m) /\ Receives(p) /\ stage[p] \notin {"off", "ended"}
  BY DEF ReceiveSignal, Receives
<1>2. m = signals[p][1] /\ 1 \in DOMAIN signals[p] /\ m \in SignalOf(Object)
  BY <1>1, StageTypes, Tails
<1>3. m.value \in Object /\ m.value # None
  BY <1>2, ObjectTypes DEF SignalOf
<1>4. Knows(hash[p], m.from) \/ p = GATEWAY \/ (p = FRONTEND /\ Mute)
  BY <1>1, <1>2, KnowsSender DEF Proc
<1>. HIDE DEF m
<1>5. CASE Knows(hash[p], m.from)
  <2>1. /\ deaf' = deaf /\ seen' = [seen EXCEPT ![p] = m.value]
        /\ held' = [held EXCEPT ![p] = Append(@, m.value)] /\ UNCHANGED <<inUse, hop>>
    BY <1>1, <1>3, <1>5 DEF Obtain
  <2>. QED  BY <1>1, <1>2, <1>3, <1>5, <2>1 DEF m
<1>6. CASE ~Knows(hash[p], m.from)
  <2>1. p # GATEWAY => seen[p] = None
    BY <1>4, <1>6 DEF FirstKnows
  <2>2. deaf' = deaf \union {p} /\ UNCHANGED <<seen, held, inUse, hop>>
    BY <1>1, <1>6, <2>1 DEF Obtain
  <2>. QED  BY <1>1, <1>2, <1>3, <1>4, <1>6, <2>2 DEF m
<1>. QED  BY <1>5, <1>6

(* In the shop, while the frontend does not know the gateway all is quiet. *)
LEMMA ThreadFirstKnows ==
    ASSUME Shapes, Rendezvous, Quiet, Apart, Goes, FirstKnows, Senders,
           \/ \E p \in Proc : ReceiveSignal(p) \/ ReceiveGo(p) \/ HandOn(p)
           \/ Answer
           \/ \E o \in Object : Dispatch(o)
    PROVE  FirstKnows'
<1>. USE DEF rendezvous, tables
<1>1. /\ UNCHANGED <<coordinator, tables, count, sent>>
      /\ \E p \in Proc :
             /\ stage[p] # "off" /\ stage' \in {stage, [stage EXCEPT ![p] = "ended"]}
             /\ \/ ready' = ready
                \/ p \in Members /\ ready[p] # <<>> /\ ready' = [ready EXCEPT ![p] = Tail(@)]
  BY ThreadSteps
<1>2. (coordinator = GATEWAY => ChainKnows) /\ (Mute => MuteFrontend)
  BY FirstKnowsParts
<1>3. coordinator = GATEWAY => ChainKnows'
  <2>1. coordinator = GATEWAY => ready'[GATEWAY] = ready[GATEWAY]
    BY <1>1, StageTypes
  <2>. QED  BY <1>1, <1>2, <2>1, ChainKept
<1>4. ASSUME Mute'
      PROVE  Mute /\ MuteFrontend
  <2>1. stage'[FRONTEND] = "off" => stage[FRONTEND] = "off"
    BY <1>1, StageTypes
  <2>. QED  BY <1>1, <1>2, <1>4, <2>1 DEF Mute
<1>5. ASSUME Mute', NEW p \in Proc, ReceiveSignal(p) PROVE MuteFrontend'
  <2>. DEFINE m == Head(signals[p])
  <2>1. p = FRONTEND /\ pid' = pid
    BY <1>1, <1>4, <1>5 DEF MuteFrontend, ReceiveSignal
  <2>2. /\ signals[p] # <<>> /\ m = signals[p][1] /\ 1 \in DOMAIN signals[p]
        /\ signals' = [signals EXCEPT ![p] = Tail(@)] /\ stage[p] # "off"
        /\ \/ Knows(hash[p], m.from)
           \/ seen' = seen /\ held' = held
    BY <1>5, Obtained
  <2>3. m.from = pid[GATEWAY]
    BY <1>4, <1>5, <2>1, <2>2 DEF MuteFrontend
  <2>4. m.from # 0
    BY <2>1, <2>2 DEF Senders
  <2>5. seen' = seen /\ held' = held
    BY <1>4, <1>5, <2>1, <2>2, <2>3, <2>4 DEF Mute
  <2>. HIDE DEF m
  <2>6. /\ \A q \in Proc \ {p} : signals'[q] = signals[q]
        /\ \A i \in DOMAIN signals'[p] : signals'[p][i] = signals[p][i + 1] /\ i + 1 \in DOMAIN signals[p]
    BY <2>2, StageTypes, Tails
  <2>. QED  BY <1>4, <1>5, <2>1, <2>5, <2>6 DEF MuteFrontend
<1>6. ASSUME Mute', NEW o \in Object, Dispatch(o) PROVE MuteFrontend'
  <2>. DEFINE m == [from |-> pid[GATEWAY], value |-> o]
  <2>1. /\ seen' = seen /\ held' = held /\ pid' = pid /\ At(1) = FRONTEND
        /\ Transfer(GATEWAY, o, FRONTEND)
    BY <1>6, Ways, StageTypes DEF Dispatch
  <2>2. \/ signals' = [signals EXCEPT ![FRONTEND] = Append(@, m)]
        \/ signals' = signals
        \/ signals' = [signals EXCEPT ![GATEWAY] = <<>>]
    BY <2>1, StageTypes, Transfers
  <2>3. m \in SignalOf(Object) /\ m.from = pid[GATEWAY] /\ signals \in [Proc -> Seq(SignalOf(Object))]
    BY StageTypes DEF SignalOf
  <2>. HIDE DEF m
  <2>4. CASE signals' = [signals EXCEPT ![FRONTEND] = Append(@, m)]
    <3>0. signals \in [Proc -> Seq(SignalOf(Object))] /\ {FRONTEND} \in SUBSET Proc
      BY StageTypes
    <3>1. signals' = [r \in Proc |-> IF r \in {FRONTEND} THEN Append(signals[r], m) ELSE signals[r]]
      BY <2>4, <3>0
    <3>2. /\ \A q \in Proc \ {FRONTEND} : signals'[q] = signals[q]
          /\ \A q \in Proc : \A i \in DOMAIN signals'[q] :
                (i \in DOMAIN signals[q] /\ signals'[q][i] = signals[q][i]) \/ (q \in {FRONTEND} /\ signals'[q][i] = m)
      BY <2>3, <3>0, <3>1, Appends
    <3>3. \A i \in DOMAIN signals'[FRONTEND] : signals'[FRONTEND][i].from = pid'[GATEWAY]
      BY <1>4, <1>6, <2>1, <2>3, <3>2, StageTypes DEF MuteFrontend
    <3>. QED  BY <1>4, <1>6, <2>1, <3>2, <3>3 DEF MuteFrontend
  <2>5. CASE signals' = signals \/ signals' = [signals EXCEPT ![GATEWAY] = <<>>]
    BY <1>4, <1>6, <2>1, <2>3, <2>5, StageTypes DEF MuteFrontend
  <2>. QED  BY <2>2, <2>4, <2>5
<1>7. ASSUME Mute', \/ \E p \in Proc : ReceiveGo(p) \/ HandOn(p)
                    \/ Answer
      PROVE  FALSE
  BY <1>4, <1>7, NoGoIsReceived, StageTypes DEF HandOn, Answer, MuteFrontend
<1>. QED  BY <1>1, <1>3, <1>5, <1>6, <1>7, FirstKnowsParts DEF FirstKnows, ChainKnows, MuteFrontend

-----------------------------------------------------------------------------
(* The queues and hands as one family of sequences.                        *)
LEMMA FamilyType ==
    ASSUME NEW sg \in [Proc -> Seq(SignalOf(Object))], NEW hd \in [Proc -> Seq(Object)], NEW st,
           NEW F, F = [a \in Keys |-> IF a[1] = "signal" THEN Values(sg[a[2]])
                                      ELSE IF st[a[2]] = "ended" THEN <<>> ELSE hd[a[2]]]
    PROVE  F \in Families
<1>1. \A a \in Keys : a[2] \in Proc
  BY DEF Keys
<1>2. \A p \in Proc : Values(sg[p]) \in Seq(Object) /\ hd[p] \in Seq(Object) /\ <<>> \in Seq(Object)
  BY ValueQueues
<1>3. ASSUME NEW a \in Keys PROVE F[a] \in Seq(Object)
  BY <1>1, <1>2
<1>. QED  BY <1>3 DEF Families

LEMMA QueuesTyped ==
    ASSUME Shapes
    PROVE  /\ Queues \in Families
           /\ \A p \in Proc : /\ <<"signal", p>> \in Keys /\ <<"held", p>> \in Keys
                              /\ <<"signal", p>> # <<"held", p>>
                              /\ Queues[<<"signal", p>>] = Values(signals[p])
                              /\ stage[p] = "ended" => Queues[<<"held", p>>] = <<>>
                              /\ stage[p] # "ended" => Queues[<<"held", p>>] = held[p]
           /\ \A a \in Keys : \E p \in Proc : a = <<"signal", p>> \/ a = <<"held", p>>
<1>1. \A p \in Proc : signals[p] \in Seq(SignalOf(Object)) /\ held[p] \in Seq(Object)
  BY StageTypes, ObjectTypes
<1>2. \A p \in Proc : Values(signals[p]) \in Seq(Object)
  BY <1>1, ValueQueues
<1>3. \A a \in Keys : \E p \in Proc : a = <<"signal", p>> \/ a = <<"held", p>>
  BY DEF Keys
<1>4. ASSUME NEW p \in Proc
      PROVE  /\ <<"signal", p>> \in Keys /\ <<"held", p>> \in Keys
             /\ <<"signal", p>> # <<"held", p>>
             /\ Queues[<<"signal", p>>] = Values(signals[p])
             /\ stage[p] = "ended" => Queues[<<"held", p>>] = <<>>
             /\ stage[p] # "ended" => Queues[<<"held", p>>] = held[p]
  <2>1. <<"signal", p>> \in Keys /\ <<"held", p>> \in Keys /\ <<"signal", p>> # <<"held", p>>
    BY DEF Keys
  <2>. QED  BY <2>1 DEF Queues
<1>5. ASSUME NEW a \in Keys PROVE Queues[a] \in Seq(Object)
  <2>1. PICK p \in Proc : a = <<"signal", p>> \/ a = <<"held", p>>
    BY <1>3
  <2>2. <<>> \in Seq(Object)
    OBVIOUS
  <2>. QED  BY <1>1, <1>2, <1>4, <2>1, <2>2
<1>6. Queues \in Families
  BY <1>5 DEF Families, Queues
<1>. QED  BY <1>3, <1>4, <1>6

LEMMA QueuesNext ==
    ASSUME Shapes'
    PROVE  /\ Queues' \in Families
           /\ \A p \in Proc : /\ Queues'[<<"signal", p>>] = Values(signals'[p])
                              /\ stage'[p] = "ended" => Queues'[<<"held", p>>] = <<>>
                              /\ stage'[p] # "ended" => Queues'[<<"held", p>>] = held'[p]
<1>1. signals' \in [Proc -> Seq(SignalOf(Object))] /\ held' \in [Proc -> Seq(Object)]
  BY DEF Shapes, TypeOK
<1>2. Queues' = [a \in Keys |-> IF a[1] = "signal" THEN Values(signals'[a[2]])
                                ELSE IF stage'[a[2]] = "ended" THEN <<>> ELSE held'[a[2]]]
  BY DEF Queues, Values, Keys
<1>3. Queues' \in Families
  BY <1>1, <1>2, FamilyType
<1>4. \A p \in Proc : <<"signal", p>> \in Keys /\ <<"held", p>> \in Keys
  BY DEF Keys
<1>. QED  BY <1>2, <1>3, <1>4

(* Queues that are emptied leave everything else in its place. *)
LEMMA EmptiedOnTheWay ==
    ASSUME Shapes, Shapes', OnTheWay, UNCHANGED <<coordinator, inUse, hop>>,
           \A a \in Keys : Queues'[a] \in {Queues[a], <<>>}
    PROVE  OnTheWay'
<1>1. Queues \in Families /\ Queues' \in Families
  BY QueuesTyped, QueuesNext
<1>2. /\ Alone(Queues') /\ Objs(Queues') \subseteq Objs(Queues)
      /\ \A b \in Keys : \A i \in DOMAIN Queues'[b] : i \in DOMAIN Queues[b] /\ Queues'[b][i] = Queues[b][i]
  BY <1>1, Emptied DEF OnTheWay
<1>3. \A k : At(k)' = At(k)
  BY DEF At, Path
<1>. QED  BY <1>2, <1>3 DEF OnTheWay

LEMMA CalmOnTheWay ==
    ASSUME Shapes, Shapes', OnTheWay, Calm
    PROVE  OnTheWay'
<1>1. UNCHANGED <<coordinator, inUse, hop, held>>
  BY DEF Calm, objects
<1>2. ASSUME NEW p \in Proc
      PROVE  /\ Queues'[<<"signal", p>>] \in {Queues[<<"signal", p>>], <<>>}
             /\ Queues'[<<"held", p>>] \in {Queues[<<"held", p>>], <<>>}
  <2>1. /\ signals'[p] \in {signals[p], <<>>} /\ (stage[p] = "ended" => stage'[p] = "ended")
    BY DEF Calm
  <2>2. Values(<<>>) = <<>>
    BY DEF Values
  <2>. QED  BY <1>1, <2>1, <2>2, QueuesTyped, QueuesNext
<1>3. \A a \in Keys : Queues'[a] \in {Queues[a], <<>>}
  <2>1. ASSUME NEW a \in Keys PROVE \E p \in Proc : a = <<"signal", p>> \/ a = <<"held", p>>
    BY QueuesTyped
  <2>. QED  BY <1>2, <2>1
<1>. QED  BY <1>1, <1>3, EmptiedOnTheWay

(* What a transfer does to the queues, once the object was taken from its  *)
(* own.                                                                    *)
LEMMA TransferQueues ==
    ASSUME Shapes, Shapes', NEW p \in Proc, NEW v \in Object, NEW q \in Proc, Transfer(p, v, q),
           NEW G \in Families,
           \A r \in Proc : G[<<"signal", r>>] = Queues[<<"signal", r>>],
           \A r \in Proc : stage[r] = "ended" => G[<<"held", r>>] = <<>>,
           \A r \in Proc : stage[r] # "ended" => G[<<"held", r>>] = held'[r]
    PROVE  \/ /\ Push(G, Queues', <<"signal", q>>, v) /\ stage' = stage
              /\ Knows(hash[p], matriz[p][q]) /\ Running(matriz[p][q]) # {}
           \/ /\ \A a \in Keys : Queues'[a] \in {G[a], <<>>}
              /\ ~Knows(hash[p], matriz[p][q]) \/ Running(matriz[p][q]) = {}
<1>. DEFINE m == [from |-> pid[p], value |-> v]
            k == <<"signal", q>>
<1>1. /\ \A r \in Proc : Queues[<<"signal", r>>] = Values(signals[r])
      /\ Queues' \in Families
      /\ \A r \in Proc : /\ Queues'[<<"signal", r>>] = Values(signals'[r])
                         /\ stage'[r] = "ended" => Queues'[<<"held", r>>] = <<>>
                         /\ stage'[r] # "ended" => Queues'[<<"held", r>>] = held'[r]
  BY QueuesTyped, QueuesNext
<1>2. m \in SignalOf(Object) /\ m.value = v /\ Values(<<>>) = <<>>
  BY StageTypes DEF SignalOf, Values
<1>3. ASSUME NEW a \in Keys PROVE \E r \in Proc : a = <<"signal", r>> \/ a = <<"held", r>>
  BY QueuesTyped
<1>4. CASE /\ stage' = stage /\ signals' = [signals EXCEPT ![q] = Append(@, m)]
           /\ q \in Running(matriz[p][q]) /\ Knows(hash[p], matriz[p][q])
  <2>. HIDE DEF m
  <2>1. Values(signals'[q]) = Append(Values(signals[q]), v) /\ \A r \in Proc \ {q} : signals'[r] = signals[r]
    <3>1. signals[q] \in Seq(SignalOf(Object))
      BY StageTypes
    <3>2. Values(Append(signals[q], m)) = Append(Values(signals[q]), v)
      BY <1>2, <3>1, ValueQueues
    <3>. QED  BY <1>4, <3>2, StageTypes
  <2>2. Queues'[k] = Append(G[k], v)
    BY <1>1, <2>1
  <2>3. ASSUME NEW a \in Keys, a # k PROVE Queues'[a] = G[a]
    <3>1. PICK r \in Proc : a = <<"signal", r>> \/ a = <<"held", r>>
      BY <1>3
    <3>2. CASE a = <<"signal", r>>
      <4>1. r # q
        BY <2>3, <3>2
      <4>2. signals'[r] = signals[r]
        BY <2>1, <4>1
      <4>. QED  BY <1>1, <3>2, <4>2
    <3>3. CASE a = <<"held", r>>
      BY <1>1, <1>4, <3>3
    <3>. QED  BY <3>1, <3>2, <3>3
  <2>. QED  BY <1>1, <1>4, <2>2, <2>3 DEF Push
<1>5. CASE \/ /\ stage' = stage /\ signals' = signals
              /\ ~Knows(hash[p], matriz[p][q])
           \/ /\ stage' = [stage EXCEPT ![p] = "ended"] /\ signals' = [signals EXCEPT ![p] = <<>>]
              /\ Running(matriz[p][q]) = {}
  <2>1. \A r \in Proc : /\ signals'[r] \in {signals[r], <<>>}
                        /\ stage'[r] \in {stage[r], "ended"}
    BY <1>5, StageTypes
  <2>2. ASSUME NEW r \in Proc
        PROVE  /\ Queues'[<<"signal", r>>] \in {G[<<"signal", r>>], <<>>}
               /\ Queues'[<<"held", r>>] \in {G[<<"held", r>>], <<>>}
    BY <1>1, <1>2, <2>1
  <2>. QED  BY <1>3, <1>5, <2>2
<1>. QED  BY <1>4, <1>5, Transfers

LEMMA OnTheWayNext ==
    ASSUME coordinator' = coordinator, Alone(Queues'), Objs(Queues') \subseteq inUse',
           \A o \in inUse' : hop'[o] > 0,
           \A a \in Keys : \A i \in DOMAIN Queues'[a] : At(hop'[Queues'[a][i]]) = a[2]
    PROVE  OnTheWay'
  BY DEF OnTheWay, At, Path

(* An object that is sent to where it goes next. *)
LEMMA PushedOnTheWay ==
    ASSUME Shapes, Shapes', NEW G \in Families, Alone(G), NEW o \in Object, o \notin Objs(G),
           coordinator' = coordinator, Objs(G) \subseteq inUse', o \in inUse',
           \A u \in inUse' : hop'[u] > 0,
           \A a \in Keys : \A i \in DOMAIN G[a] : At(hop'[G[a][i]]) = a[2],
           NEW p \in Proc, NEW q \in Proc, q = At(hop'[o]), Transfer(p, o, q),
           \A r \in Proc : G[<<"signal", r>>] = Queues[<<"signal", r>>],
           \A r \in Proc : stage[r] = "ended" => G[<<"held", r>>] = <<>>,
           \A r \in Proc : stage[r] # "ended" => G[<<"held", r>>] = held'[r]
    PROVE  /\ OnTheWay'
           /\ Knows(hash[p], matriz[p][q]) /\ Running(matriz[p][q]) # {} =>
                  stage' = stage /\ Objs(Queues') = Objs(G) \union {o}
<1>. DEFINE k == <<"signal", q>>
<1>1. k \in Keys /\ k[2] = q
  BY DEF Keys
<1>2. \/ Push(G, Queues', k, o) /\ stage' = stage
      \/ /\ \A a \in Keys : Queues'[a] \in {G[a], <<>>}
         /\ ~Knows(hash[p], matriz[p][q]) \/ Running(matriz[p][q]) = {}
  BY TransferQueues
<1>. HIDE DEF k
<1>3. CASE Push(G, Queues', k, o) /\ stage' = stage
  <2>1. /\ Alone(Queues') /\ Objs(Queues') = Objs(G) \union {o}
        /\ \A b \in Keys : \A i \in DOMAIN Queues'[b] :
               (i \in DOMAIN G[b] /\ Queues'[b][i] = G[b][i]) \/ (b = k /\ Queues'[b][i] = o)
    BY <1>1, <1>3, Pushed
  <2>2. \A b \in Keys : \A i \in DOMAIN Queues'[b] : At(hop'[Queues'[b][i]]) = b[2]
    BY <1>1, <2>1
  <2>. QED  BY <1>3, <2>1, <2>2, OnTheWayNext
<1>4. CASE /\ \A a \in Keys : Queues'[a] \in {G[a], <<>>}
           /\ ~Knows(hash[p], matriz[p][q]) \/ Running(matriz[p][q]) = {}
  <2>1. Queues' \in Families
    BY QueuesNext
  <2>2. /\ Alone(Queues') /\ Objs(Queues') \subseteq Objs(G)
        /\ \A b \in Keys : \A i \in DOMAIN Queues'[b] : i \in DOMAIN G[b] /\ Queues'[b][i] = G[b][i]
    BY <1>4, <2>1, Emptied
  <2>3. \A b \in Keys : \A i \in DOMAIN Queues'[b] : At(hop'[Queues'[b][i]]) = b[2]
    BY <2>2
  <2>. QED  BY <1>4, <2>2, <2>3, OnTheWayNext
<1>. QED  BY <1>2, <1>3, <1>4

(* The objects in the queues, and those they were before. *)
LEMMA QueuedObjects ==
    ASSUME Shapes, OnTheWay
    PROVE  /\ Queues \in Families /\ Alone(Queues)
           /\ \A a \in Keys : \A i \in DOMAIN Queues[a] :
                  /\ Queues[a][i] \in Objs(Queues) /\ Queues[a][i] \in inUse /\ Queues[a][i] \in Object
                  /\ hop[Queues[a][i]] > 0 /\ At(hop[Queues[a][i]]) = a[2]
<1>1. Queues \in Families
  BY QueuesTyped
<1>2. \A a \in Keys : \A i \in DOMAIN Queues[a] : Queues[a][i] \in Object
  BY <1>1 DEF Families
<1>. QED  BY <1>1, <1>2 DEF OnTheWay, Objs

(* OnTheWay, thread by thread: a request takes an object that is nowhere.  *)
LEMMA DispatchOnTheWay ==
    ASSUME Shapes, Shapes', OnTheWay, NEW o \in Object, Dispatch(o)
    PROVE  /\ OnTheWay'
           /\ LET x == matriz[GATEWAY][At(1)] IN
              Knows(hash[GATEWAY], x) /\ Running(x) # {} =>
                  stage' = stage /\ Objs(Queues') = Objs(Queues) \union {o}
<1>. DEFINE q == At(1)
            G == Queues
<1>1. /\ Transfer(GATEWAY, o, q) /\ o \notin inUse /\ inUse' = inUse \union {o}
      /\ hop' = [hop EXCEPT ![o] = 1] /\ held' = held /\ coordinator' = coordinator
      /\ hop \in [Object -> Nat] /\ inUse \subseteq Object
  BY ObjectTypes DEF Dispatch
<1>2. q \in Proc /\ GATEWAY \in Proc
  BY Ways, StageTypes
<1>3. /\ G \in Families /\ Alone(G) /\ Objs(G) \subseteq inUse
      /\ \A a \in Keys : \A i \in DOMAIN G[a] :
             G[a][i] \in inUse /\ G[a][i] \in Object /\ At(hop[G[a][i]]) = a[2]
  BY QueuedObjects DEF OnTheWay
<1>4. /\ \A r \in Proc : stage[r] = "ended" => G[<<"held", r>>] = <<>>
      /\ \A r \in Proc : stage[r] # "ended" => G[<<"held", r>>] = held'[r]
  BY <1>1, QueuesTyped
<1>5. \A r \in Proc : G[<<"signal", r>>] = Queues[<<"signal", r>>]
  OBVIOUS
<1>6. \A u \in inUse' : hop'[u] > 0
  BY <1>1 DEF OnTheWay
<1>7. hop'[o] = 1 /\ \A u \in Object \ {o} : hop'[u] = hop[u]
  BY <1>1
<1>. HIDE DEF G
<1>8. \A a \in Keys : \A i \in DOMAIN G[a] : At(hop'[G[a][i]]) = a[2]
  BY <1>1, <1>3, <1>7
<1>9. o \notin Objs(G) /\ Objs(G) \subseteq inUse' /\ o \in inUse'
  BY <1>1, <1>3
<1>10. q = At(hop'[o])
  BY <1>7
<1>. HIDE DEF q
<1>11. /\ OnTheWay'
       /\ Knows(hash[GATEWAY], matriz[GATEWAY][q]) /\ Running(matriz[GATEWAY][q]) # {} =>
                  stage' = stage /\ Objs(Queues') = Objs(G) \union {o}
  BY <1>1, <1>2, <1>3, <1>4, <1>5, <1>6, <1>8, <1>9, <1>10, PushedOnTheWay
<1>. QED  BY <1>11 DEF q, G

(* Where an object is that a function hands on. *)
LEMMA HeldIsQueued ==
    ASSUME Shapes, OnTheWay, NEW f \in Proc, stage[f] # "ended", held[f] # <<>>
    PROVE  LET k == <<"held", f>>
               o == Head(held[f])
           IN  /\ k \in Keys /\ Queues[k] = held[f] /\ Queues[k] # <<>>
               /\ o = Head(Queues[k]) /\ o \in Object /\ o \in inUse /\ hop[o] > 0 /\ At(hop[o]) = f
<1>. DEFINE k == <<"held", f>>
<1>1. k \in Keys /\ Queues[k] = held[f] /\ k[2] = f
  BY QueuesTyped
<1>2. Head(held[f]) = held[f][1] /\ 1 \in DOMAIN held[f]
  BY ObjectTypes, Tails
<1>. HIDE DEF k
<1>3. held[f][1] \in Object /\ held[f][1] \in inUse /\ hop[held[f][1]] > 0 /\ At(hop[held[f][1]]) = f
  BY <1>1, <1>2, QueuedObjects
<1>. QED  BY <1>1, <1>2, <1>3 DEF k

(* An object that is handed on leaves the hand of its owner.               *)
LEMMA HandOnOnTheWay ==
    ASSUME Shapes, Shapes', OnTheWay, NEW f \in Proc, HandOn(f)
    PROVE  LET o == Head(held[f])
               q == At(hop[o] + 1)
               x == matriz[f][q]
           IN  /\ o \in inUse /\ hop[o] \in Nat \ {0} /\ At(hop[o]) = f /\ f \in Fn
               /\ Transfer(f, o, q)
               /\ OnTheWay'
               /\ Knows(hash[f], x) /\ Running(x) # {} =>
                      stage' = stage /\ Objs(Queues') = Objs(Queues)
<1>. DEFINE k == <<"held", f>>
            o == Head(held[f])
            n == hop[o] + 1
            q == At(n)
            G == [a \in Keys |-> IF a = k THEN Tail(Queues[a]) ELSE Queues[a]]
<1>1. /\ held[f] # <<>> /\ stage[f] # "ended" /\ f \in Fn
      /\ UNCHANGED <<coordinator, inUse>>
      /\ hop' = [hop EXCEPT ![o] = NextHop(o)] /\ Transfer(f, Addr(o), At(NextHop(o)))
      /\ held' = [held EXCEPT ![f] = Tail(@)]
  BY DEF HandOn, Receives
<1>2. /\ k \in Keys /\ Queues[k] = held[f] /\ Queues[k] # <<>>
      /\ o = Head(Queues[k]) /\ o \in Object /\ o \in inUse /\ hop[o] > 0 /\ At(hop[o]) = f
  BY <1>1, HeldIsQueued
<1>3. hop[o] \in Nat \ {0} /\ hop \in [Object -> Nat] /\ held \in [Proc -> Seq(Object)]
      /\ inUse \subseteq Object
  BY <1>2, ObjectTypes
<1>4. NextHop(o) = n /\ Addr(o) = o
  BY <1>2, <1>3 DEF NextHop, Addr
<1>5. q \in Proc
  BY Ways, StageTypes
<1>6. Drop(Queues, G, k)
  <2>1. Queues \in Families
    BY QueuesTyped
  <2>2. Tail(held[f]) \in Seq(Object)
    BY <1>1, <1>3, Tails
  <2>3. \A a \in Keys : G[a] \in Seq(Object)
    BY <1>2, <2>1, <2>2 DEF Families
  <2>4. G \in Families
    BY <2>3 DEF Families
  <2>. QED  BY <1>2, <2>4 DEF Drop
<1>7. \A a \in Keys : G[a] = IF a = k THEN Tail(held[f]) ELSE Queues[a]
  BY <1>2
<1>. HIDE DEF G
<1>8. ASSUME NEW r \in Proc
      PROVE  /\ G[<<"signal", r>>] = Queues[<<"signal", r>>]
             /\ stage[r] = "ended" => G[<<"held", r>>] = <<>>
             /\ stage[r] # "ended" => G[<<"held", r>>] = held'[r]
  <2>1. /\ <<"signal", r>> \in Keys /\ <<"held", r>> \in Keys
        /\ stage[r] = "ended" => Queues[<<"held", r>>] = <<>>
        /\ stage[r] # "ended" => Queues[<<"held", r>>] = held[r]
    BY QueuesTyped
  <2>2. <<"signal", r>> # k /\ (r # f => <<"held", r>> # k)
    OBVIOUS
  <2>3. G[<<"signal", r>>] = Queues[<<"signal", r>>]
    BY <1>7, <2>1, <2>2
  <2>4. r # f => G[<<"held", r>>] = Queues[<<"held", r>>]
    BY <1>7, <2>1, <2>2
  <2>5. r = f => G[<<"held", r>>] = Tail(held[f])
    BY <1>7, <2>1
  <2>. QED  BY <1>1, <1>3, <2>1, <2>3, <2>4, <2>5
<1>. HIDE DEF k
<1>9. /\ G \in Families /\ Alone(G) /\ o \in Objs(Queues) /\ Objs(G) = Objs(Queues) \ {o}
      /\ \A b \in Keys : \A i \in DOMAIN G[b] : \E j \in DOMAIN Queues[b] : G[b][i] = Queues[b][j]
  BY <1>2, <1>6, QueuedObjects, Dropped
<1>. HIDE DEF o, q
<1>10. /\ \A u \in Object \ {o} : hop'[u] = hop[u]
       /\ hop'[o] = n
  BY <1>1, <1>2, <1>3, <1>4
<1>11. ASSUME NEW a \in Keys, NEW i \in DOMAIN G[a]
       PROVE  At(hop'[G[a][i]]) = a[2]
  <2>1. PICK j \in DOMAIN Queues[a] : G[a][i] = Queues[a][j]
    BY <1>9
  <2>2. G[a][i] \in Object
    BY <2>1, QueuedObjects
  <2>3. G[a][i] # o
    BY <1>9, <2>2 DEF Objs
  <2>. QED  BY <1>10, <2>1, <2>2, <2>3, QueuedObjects
<1>12. \A u \in inUse' : hop'[u] > 0
  BY <1>1, <1>3, <1>10 DEF OnTheWay
<1>13. Objs(G) \subseteq inUse' /\ o \in inUse' /\ o \notin Objs(G) /\ q = At(hop'[o])
  BY <1>1, <1>2, <1>9, <1>10 DEF OnTheWay, q
<1>14. Transfer(f, o, q)
  BY <1>1, <1>4 DEF q
<1>15. /\ \A r \in Proc : G[<<"signal", r>>] = Queues[<<"signal", r>>]
       /\ \A r \in Proc : stage[r] = "ended" => G[<<"held", r>>] = <<>>
       /\ \A r \in Proc : stage[r] # "ended" => G[<<"held", r>>] = held'[r]
       /\ \A a \in Keys : \A i \in DOMAIN G[a] : At(hop'[G[a][i]]) = a[2]
  BY <1>8, <1>11
<1>16. coordinator' = coordinator
  BY <1>1
<1>17. /\ OnTheWay'
       /\ Knows(hash[f], matriz[f][q]) /\ Running(matriz[f][q]) # {} =>
              stage' = stage /\ Objs(Queues') = Objs(G) \union {o}
  <2>. HIDE DEF n
  <2>. QED  BY <1>2, <1>5, <1>9, <1>12, <1>13, <1>14, <1>15, <1>16, PushedOnTheWay
<1>18. Objs(G) \union {o} = Objs(Queues)
  BY <1>9
<1>. QED  BY <1>1, <1>2, <1>3, <1>14, <1>17, <1>18 DEF o, q

(* An object that is received leaves the queue for the hand.               *)
LEMMA ReceiveOnTheWay ==
    ASSUME Shapes, Shapes', Rendezvous, Quiet, Apart, FirstKnows, Senders, OnTheWay,
           NEW p \in Proc, ReceiveSignal(p)
    PROVE  LET m == Head(signals[p])
           IN  /\ OnTheWay'
               /\ m.value \in inUse /\ At(hop[m.value]) = p
               /\ Knows(hash[p], m.from) => Objs(Queues') = Objs(Queues)
<1>. DEFINE m == Head(signals[p])
            v == m.value
            k == <<"signal", p>>
            l == <<"held", p>>
            G == [a \in Keys |-> IF a = k THEN Tail(Queues[a]) ELSE Queues[a]]
<1>1. /\ signals[p] # <<>> /\ v \in Object
      /\ signals' = [signals EXCEPT ![p] = Tail(@)] /\ stage' = stage
      /\ stage[p] \notin {"off", "ended"} /\ UNCHANGED <<inUse, hop>>
      /\ \/ Knows(hash[p], m.from) /\ held' = [held EXCEPT ![p] = Append(@, v)]
         \/ ~Knows(hash[p], m.from) /\ held' = held
  BY Obtained
<1>2. coordinator' = coordinator
  BY DEF ReceiveSignal
<1>3. signals[p] \in Seq(SignalOf(Object)) /\ held \in [Proc -> Seq(Object)]
      /\ signals \in [Proc -> Seq(SignalOf(Object))]
  BY StageTypes, ObjectTypes
<1>4. /\ k \in Keys /\ l \in Keys /\ k # l /\ k[2] = p /\ l[2] = p
      /\ Queues[k] = Values(signals[p]) /\ Queues[k] # <<>>
      /\ Values(Tail(signals[p])) = Tail(Queues[k]) /\ v = Head(Queues[k])
  BY <1>1, <1>3, QueuesTyped, ValueQueues
<1>5. Queues \in Families /\ Queues' \in Families /\ Alone(Queues)
  BY QueuesTyped, QueuesNext DEF OnTheWay
<1>6. Drop(Queues, G, k)
  <2>1. Tail(Queues[k]) \in Seq(Object)
    <3>1. Tail(signals[p]) \in Seq(SignalOf(Object))
      BY <1>1, <1>3
    <3>. QED  BY <1>4, <3>1, ValueQueues
  <2>2. \A a \in Keys : G[a] \in Seq(Object)
    BY <1>4, <1>5, <2>1 DEF Families
  <2>3. G \in Families
    BY <2>2 DEF Families
  <2>. QED  BY <1>4, <2>3 DEF Drop
<1>7. \A a \in Keys : G[a] = IF a = k THEN Values(Tail(signals[p])) ELSE Queues[a]
  BY <1>4
<1>. HIDE DEF G
<1>8. ASSUME NEW a \in Keys, a # l \/ held' = held
      PROVE  Queues'[a] = G[a]
  <2>1. PICK r \in Proc : a = <<"signal", r>> \/ a = <<"held", r>>
    BY QueuesTyped
  <2>2. /\ Queues[<<"signal", r>>] = Values(signals[r]) /\ Queues'[<<"signal", r>>] = Values(signals'[r])
        /\ stage[r] = "ended" => Queues[<<"held", r>>] = <<>> /\ Queues'[<<"held", r>>] = <<>>
        /\ stage[r] # "ended" => Queues[<<"held", r>>] = held[r] /\ Queues'[<<"held", r>>] = held'[r]
    BY <1>1, QueuesTyped, QueuesNext
  <2>3. CASE a = <<"signal", r>>
    <3>1. CASE r = p
      <4>1. signals'[p] = Tail(signals[p])
        BY <1>1, <1>3
      <4>. QED  BY <1>7, <2>2, <2>3, <3>1, <4>1
    <3>2. CASE r # p
      <4>1. signals'[r] = signals[r] /\ a # k
        BY <1>1, <1>3, <2>3, <3>2
      <4>. QED  BY <1>7, <2>2, <2>3, <4>1
    <3>. QED  BY <3>1, <3>2
  <2>4. CASE a = <<"held", r>>
    <3>1. a # k
      BY <2>4
    <3>2. held'[r] = held[r]
      BY <1>1, <1>3, <1>8, <2>4
    <3>. QED  BY <1>7, <2>2, <2>4, <3>1, <3>2
  <2>. QED  BY <2>1, <2>3, <2>4
<1>9. G[l] = held[p]
  BY <1>1, <1>4, <1>7, QueuesTyped
<1>10. Queues'[l] = held'[p]
  BY <1>1, QueuesNext
<1>. HIDE DEF k, l
<1>11. /\ G \in Families /\ Alone(G) /\ v \in Objs(Queues) /\ Objs(G) = Objs(Queues) \ {v}
       /\ \A b \in Keys : \A i \in DOMAIN G[b] : \E j \in DOMAIN Queues[b] : G[b][i] = Queues[b][j]
  BY <1>4, <1>5, <1>6, Dropped
<1>12. v \in inUse /\ At(hop[v]) = p
  <2>1. 1 \in DOMAIN Queues[k] /\ v = Queues[k][1]
    <3>1. Queues[k] \in Seq(Object)
      BY <1>4, <1>5 DEF Families
    <3>. QED  BY <1>4, <3>1, EmptySeq
  <2>. QED  BY <1>4, <2>1, QueuedObjects
<1>. HIDE DEF v
<1>13. \A a \in Keys : \A i \in DOMAIN G[a] : At(hop[G[a][i]]) = a[2]
  BY <1>11, QueuedObjects
<1>14. \A u \in inUse' : hop'[u] > 0
  BY <1>1 DEF OnTheWay
<1>15. CASE Knows(hash[p], m.from) /\ held' = [held EXCEPT ![p] = Append(@, v)]
  <2>1. held'[p] = Append(held[p], v)
    BY <1>3, <1>15
  <2>2. Push(G, Queues', l, v)
    BY <1>4, <1>5, <1>8, <1>9, <1>10, <2>1 DEF Push
  <2>3. v \notin Objs(G)
    BY <1>11
  <2>4. /\ Alone(Queues') /\ Objs(Queues') = Objs(G) \union {v}
        /\ \A b \in Keys : \A i \in DOMAIN Queues'[b] :
               (i \in DOMAIN G[b] /\ Queues'[b][i] = G[b][i]) \/ (b = l /\ Queues'[b][i] = v)
    BY <1>1, <1>4, <1>11, <2>2, <2>3, Pushed
  <2>5. Objs(Queues') = Objs(Queues)
    BY <1>11, <2>4
  <2>6. \A b \in Keys : \A i \in DOMAIN Queues'[b] : At(hop'[Queues'[b][i]]) = b[2]
    BY <1>1, <1>4, <1>12, <1>13, <2>4
  <2>7. Objs(Queues') \subseteq inUse'
    BY <1>1, <2>5 DEF OnTheWay
  <2>8. OnTheWay'
    BY <1>2, <1>14, <2>4, <2>6, <2>7, OnTheWayNext
  <2>. QED  BY <1>12, <2>5, <2>8 DEF v
<1>16. CASE ~Knows(hash[p], m.from) /\ held' = held
  <2>1. \A a \in Keys : Queues'[a] \in {G[a], <<>>}
    BY <1>8, <1>16
  <2>2. /\ Alone(Queues') /\ Objs(Queues') \subseteq Objs(G)
        /\ \A b \in Keys : \A i \in DOMAIN Queues'[b] : i \in DOMAIN G[b] /\ Queues'[b][i] = G[b][i]
    BY <1>5, <1>11, <2>1, Emptied
  <2>3. Objs(Queues') \subseteq inUse'
    BY <1>1, <1>11, <2>2 DEF OnTheWay
  <2>4. \A b \in Keys : \A i \in DOMAIN Queues'[b] : At(hop'[Queues'[b][i]]) = b[2]
    BY <1>1, <1>13, <2>2
  <2>5. OnTheWay'
    BY <1>2, <1>14, <2>2, <2>3, <2>4, OnTheWayNext
  <2>. QED  BY <1>12, <1>16, <2>5 DEF v
<1>. QED  BY <1>1, <1>15, <1>16

(* An object that is answered leaves the gateway's hand for the pool.      *)
LEMMA AnswerOnTheWay ==
    ASSUME Shapes, Shapes', OnTheWay, Answer
    PROVE  /\ OnTheWay'
           /\ inUse' = inUse \ {Head(held[GATEWAY])}
           /\ Objs(Queues') = Objs(Queues) \ {Head(held[GATEWAY])}
<1>. DEFINE o == Head(held[GATEWAY])
            k == <<"held", GATEWAY>>
<1>1. /\ inUse' = inUse \ {o} /\ held' = [held EXCEPT ![GATEWAY] = Tail(@)]
      /\ UNCHANGED <<coordinator, stage, signals, hop>>
      /\ stage[GATEWAY] # "ended" /\ held[GATEWAY] # <<>> /\ GATEWAY \in Proc
  BY StageTypes DEF Answer, Receives
<1>2. /\ k \in Keys /\ Queues[k] = held[GATEWAY] /\ Queues[k] # <<>> /\ o = Head(Queues[k])
  BY <1>1, HeldIsQueued
<1>3. Queues \in Families /\ Queues' \in Families /\ Alone(Queues) /\ held \in [Proc -> Seq(Object)]
  BY QueuesTyped, QueuesNext, ObjectTypes DEF OnTheWay
<1>4. ASSUME NEW a \in Keys, a # k PROVE Queues'[a] = Queues[a]
  <2>1. PICK r \in Proc : a = <<"signal", r>> \/ a = <<"held", r>>
    BY QueuesTyped
  <2>2. /\ Queues[<<"signal", r>>] = Values(signals[r]) /\ Queues'[<<"signal", r>>] = Values(signals'[r])
        /\ stage[r] = "ended" => Queues[<<"held", r>>] = <<>> /\ Queues'[<<"held", r>>] = <<>>
        /\ stage[r] # "ended" => Queues[<<"held", r>>] = held[r] /\ Queues'[<<"held", r>>] = held'[r]
    BY <1>1, QueuesTyped, QueuesNext
  <2>3. CASE a = <<"signal", r>>
    BY <1>1, <2>2, <2>3
  <2>4. CASE a = <<"held", r>>
    <3>1. held'[r] = held[r]
      BY <1>1, <1>3, <1>4, <2>4
    <3>. QED  BY <2>2, <2>4, <3>1
  <2>. QED  BY <2>1, <2>3, <2>4
<1>5. Queues'[k] = Tail(Queues[k])
  <2>1. Queues'[k] = held'[GATEWAY]
    BY <1>1, QueuesNext
  <2>. QED  BY <1>1, <1>2, <1>3, <2>1
<1>6. Drop(Queues, Queues', k)
  BY <1>3, <1>4, <1>5 DEF Drop
<1>. HIDE DEF k
<1>7. /\ Alone(Queues') /\ Objs(Queues') = Objs(Queues) \ {o}
      /\ \A b \in Keys : \A i \in DOMAIN Queues'[b] : \E j \in DOMAIN Queues[b] : Queues'[b][i] = Queues[b][j]
  BY <1>2, <1>3, <1>6, Dropped
<1>. HIDE DEF o
<1>8. Objs(Queues') \subseteq inUse'
  BY <1>1, <1>7 DEF OnTheWay
<1>9. \A b \in Keys : \A i \in DOMAIN Queues'[b] : At(hop'[Queues'[b][i]]) = b[2]
  BY <1>1, <1>7, QueuedObjects
<1>10. \A u \in inUse' : hop'[u] > 0
  BY <1>1 DEF OnTheWay
<1>11. OnTheWay'
  BY <1>1, <1>7, <1>8, <1>9, <1>10, OnTheWayNext
<1>. QED  BY <1>1, <1>7, <1>11 DEF o

-----------------------------------------------------------------------------
(* Handing, for the start-up and for the threads.                          *)
LEMMA InitHanding == Init => Handing
<1>. SUFFICES ASSUME Init PROVE Handing
  OBVIOUS
<1>. USE DEF Init
<1>1. coordinator \in {GATEWAY, FRONTEND} /\ Members \subseteq Proc /\ GATEWAY \in Proc /\ FRONTEND \in Proc
      /\ coordinator \in Proc
  BY Coordinators
<1>2. Goes
  BY <1>1 DEF Goes
<1>3. FirstKnows
  BY <1>1 DEF FirstKnows, Taken
<1>4. Senders
  BY DEF Senders
<1>5. OnTheWay
  <2>1. \A a \in Keys : a[2] \in Proc
    BY DEF Keys
  <2>2. \A a \in Keys : Queues[a] = <<>>
    BY <2>1 DEF Queues, Values
  <2>. QED  BY <2>2 DEF OnTheWay, Alone, Objs
<1>. QED  BY <1>2, <1>3, <1>4, <1>5 DEF Handing

(* What was in order before the step, if it is after it. *)
LEMMA QuietBefore ==
    ASSUME Shapes, Rendezvous, Quiet', Apart', mishaps \subseteq mishaps', used \subseteq used'
    PROVE  Quiet /\ Apart
  BY DEF Quiet, Apart

LEMMA ThreadsQuiet ==
    ASSUME Shapes, \/ \E p \in Proc : ReceiveSignal(p) \/ ReceiveGo(p) \/ HandOn(p)
                   \/ Answer
                   \/ \E o \in Object : Dispatch(o)
    PROVE  mishaps \subseteq mishaps' /\ used \subseteq used'
  BY ThreadSteps DEF tables

LEMMA StartUpHanding ==
    ASSUME Shapes, Shapes', Rendezvous, Handing, Quiet', Apart', StartUp
    PROVE  Handing'
<1>1. Calm
  BY CalmSteps
<1>2. Goes /\ FirstKnows /\ Senders /\ OnTheWay
  <2>1. Quiet /\ Apart
    BY <1>1, QuietBefore DEF Calm
  <2>. QED  BY <2>1 DEF Handing
<1>3. Goes' /\ Senders' /\ OnTheWay'
  BY <1>1, <1>2, StartUpGoes, CalmSenders, CalmOnTheWay
<1>4. (coordinator = GATEWAY => ChainKnows) /\ (Mute => MuteFrontend)
  BY <1>2, FirstKnowsParts
<1>5. coordinator = GATEWAY => ChainKnows'
  BY <1>4, StartUpChain
<1>6. Mute' => MuteFrontend'
  BY <1>1, <1>2, <1>4, CalmMute
<1>7. coordinator' = coordinator
  BY <1>1 DEF Calm
<1>8. FirstKnows'
  BY <1>5, <1>6, <1>7 DEF FirstKnows, ChainKnows, MuteFrontend
<1>. QED  BY <1>3, <1>8 DEF Handing

LEMMA ThreadHanding ==
    ASSUME Shapes, Shapes', Rendezvous, Handing, Quiet', Apart',
           \/ \E p \in Proc : ReceiveSignal(p) \/ ReceiveGo(p) \/ HandOn(p)
           \/ Answer
           \/ \E o \in Object : Dispatch(o)
    PROVE  Handing'
<1>. USE DEF rendezvous, tables
<1>1. /\ UNCHANGED <<coordinator, count, sent>>
      /\ \E p \in Proc :
             /\ stage[p] # "off" /\ stage' \in {stage, [stage EXCEPT ![p] = "ended"]}
             /\ \/ ready' = ready
                \/ p \in Members /\ ready[p] # <<>> /\ ready' = [ready EXCEPT ![p] = Tail(@)]
  BY ThreadSteps
<1>2. Quiet /\ Apart
  BY ThreadsQuiet, QuietBefore
<1>3. Goes /\ FirstKnows /\ Senders /\ OnTheWay
  BY <1>2 DEF Handing
<1>4. FirstKnows' /\ Senders'
  BY <1>2, <1>3, ThreadFirstKnows, ThreadSenders
<1>5. Goes'
  <2>1. \A f \in Members : stage'[f] = "running" => stage[f] = "running"
    BY <1>1, StageTypes
  <2>2. \A p \in Proc : ~ReceiveGo(p)
    BY <1>3, NoGoIsReceived
  <2>3. ready' = ready
    BY <2>2 DEF ReceiveSignal, HandOn, Answer, Dispatch
  <2>. QED  BY <1>1, <1>3, <2>1, <2>3, GoesKept
<1>6. OnTheWay'
  BY <1>2, <1>3, NoGoIsReceived, ReceiveOnTheWay, HandOnOnTheWay, AnswerOnTheWay, DispatchOnTheWay
<1>. QED  BY <1>4, <1>5, <1>6 DEF Handing

LEMMA NextHanding ==
    ASSUME Shapes, Shapes', Rendezvous, Handing, [Next]_vars
    PROVE  Handing'
<1>. SUFFICES ASSUME Quiet', Apart' PROVE Handing'
  BY DEF Handing
<1>1. CASE Next
  <2>1. \A f \in Fn : ~Restart(f)
    BY DEF Restart, Mishap, Quiet
  <2>2. \/ StartUp
        \/ \/ \E p \in Proc : ReceiveSignal(p) \/ ReceiveGo(p) \/ HandOn(p)
           \/ Answer
           \/ \E o \in Object : Dispatch(o)
    BY <1>1, <2>1, Steps, Zenon DEF StartUp
  <2>. QED  BY <2>2, StartUpHanding, ThreadHanding
<1>2. CASE UNCHANGED vars
  <2>1. UNCHANGED <<coordinator, pid, used, pidMap, matriz, hash, count, sent, stage, ready, mishaps,
                    signals, seen, deaf, held, inUse, hop>>
    BY <1>2 DEF vars, tables, rendezvous, objects
  <2>2. Quiet /\ Apart
    BY <2>1 DEF Quiet, Apart
  <2>3. Goes /\ FirstKnows /\ Senders /\ OnTheWay
    BY <2>2 DEF Handing
  <2>4. Goes'
    BY <2>1, <2>3 DEF Goes, GoesSent, Members
  <2>5. FirstKnows'
    BY <2>1, <2>3 DEF FirstKnows, Mute, Taken, Members
  <2>6. Senders'
    BY <2>1, <2>3, SendersKept
  <2>7. \A a \in Keys : Queues'[a] \in {Queues[a], <<>>}
    BY <2>1 DEF Queues, Values
  <2>8. OnTheWay'
    BY <2>1, <2>3, <2>7, EmptiedOnTheWay
  <2>. QED  BY <2>4, <2>5, <2>6, <2>8 DEF Handing
<1>. QED  BY <1>1, <1>2

-----------------------------------------------------------------------------
(* Smooth, action by action.                                               *)
LEMMA InitSmooth == Init => Smooth
<1>. SUFFICES ASSUME Init PROVE Smooth
  OBVIOUS
<1>. USE DEF Init
<1>1. coordinator \in {GATEWAY, FRONTEND} /\ GATEWAY \in Proc /\ FRONTEND \in Proc /\ Fn \subseteq Proc
  BY Coordinators
<1>2. Alive /\ Busy /\ InOrder /\ FromLast
  BY <1>1 DEF Alive, Busy, InOrder, FromLast
<1>3. GatewayIsKnown
  BY <1>1 DEF GatewayIsKnown
<1>. QED  BY <1>2, <1>3 DEF Smooth

(* While something is not up nobody has a request. *)
LEMMA StartUpIsBefore ==
    ASSUME Shapes, StartUp
    PROVE  ~AllRunning
<1>1. \A p \in Proc : StartStep(p) => \E q \in Proc : stage[q] # "running"
  BY StartStarts DEF StartStep, Starting, Start
<1>2. GatewayOpens \/ GatewayGathers \/ GatewayLooksUp => stage[GATEWAY] # "running"
  BY DEF GatewayOpens, GatewayGathers, GatewayLooksUp
<1>3. Gather \/ SendGo => stage[coordinator] # "running"
  BY DEF Gather, SendGo
<1>4. \A f \in Fn : GoStep(f) => stage[f] # "running" /\ f \in Proc
  BY StageTypes DEF GoStep, NfGoes, ServiceGoes, Waited
<1>. QED  BY <1>1, <1>2, <1>3, <1>4, StageTypes DEF StartUp, AllRunning

(* While no object is out, no signal is under way.                         *)
LEMMA NobodyIsServed ==
    ASSUME Shapes, OnTheWay, inUse = {}
    PROVE  \A p \in Proc : signals[p] = <<>>
<1>. SUFFICES ASSUME NEW p \in Proc, signals[p] # <<>> PROVE FALSE
  OBVIOUS
<1>1. signals[p] \in Seq(SignalOf(Object))
  BY StageTypes
<1>2. <<"signal", p>> \in Keys /\ Queues[<<"signal", p>>] = Values(signals[p])
  BY QueuesTyped
<1>3. Values(signals[p]) # <<>> /\ Values(signals[p]) \in Seq(Object)
  BY <1>1, ValueQueues
<1>4. 1 \in DOMAIN Queues[<<"signal", p>>]
  BY <1>2, <1>3, EmptySeq
<1>. QED  BY <1>2, <1>4, QueuedObjects

LEMMA SmoothKept ==
    ASSUME Shapes, Calm, Apart', mishaps' = {}, Apart, Smooth, OnTheWay, inUse = {},
           \A q \in Proc : stage'[q] = "ended" => stage[q] = "ended",
           \A f \in Fn : stage'[f] # "off" =>
               \/ stage[f] # "off" /\ matriz'[f][GATEWAY] = matriz[f][GATEWAY]
               \/ /\ ThereNext(coordinator) /\ stage'[GATEWAY] # "off"
                  /\ coordinator = GATEWAY \/ f = coordinator =>
                         There(GATEWAY) /\ matriz'[f][GATEWAY] = pid[GATEWAY] /\ Knows(hash'[f], pid[GATEWAY]),
           coordinator = FRONTEND /\ stage'[GATEWAY] = "running" =>
               \/ stage[GATEWAY] = "running" /\ matriz'[GATEWAY] = matriz[GATEWAY] /\ hash'[GATEWAY] = hash[GATEWAY]
               \/ There(FRONTEND) /\ matriz'[GATEWAY][FRONTEND] = pid[FRONTEND] /\ Knows(hash'[GATEWAY], pid[FRONTEND])
    PROVE  Smooth'
<1>1. /\ Alive /\ InOrder /\ GatewayIsKnown
      /\ UNCHANGED <<coordinator, inUse, deaf>>
      /\ \A q \in Proc : /\ stage[q] # "off" => stage'[q] # "off"
                         /\ There(q) => ThereNext(q) /\ pid'[q] = pid[q]
      /\ \A q \in Fn : stage[q] # "off" => \A x \in Used0 : Knows(hash[q], x) => Knows(hash'[q], x)
  BY DEF Smooth, Calm, objects, There
<1>2. /\ GATEWAY \in Proc /\ FRONTEND \in Proc /\ coordinator \in Proc /\ Fn \subseteq Proc /\ FRONTEND \in Fn
      /\ pid[GATEWAY] \in Used0 /\ coordinator \in {GATEWAY, FRONTEND} /\ GATEWAY # FRONTEND
  BY StageTypes, Coordinators, UsedPids
<1>3. Alive'
  BY <1>1 DEF Alive
<1>4. Busy'
  BY <1>1 DEF Busy
<1>5. InOrder'
  <2>1. \A f \in Fn : stage'[f] # "off" => ThereNext(coordinator) /\ stage'[GATEWAY] # "off"
    BY <1>1, <1>2 DEF InOrder
  <2>. QED  BY <1>1, <2>1 DEF InOrder, There, ThereNext
<1>6. FromLast'
  <2>1. signals'[GATEWAY] = <<>>
    <3>1. signals[GATEWAY] = <<>>
      BY <1>2, NobodyIsServed
    <3>. QED  BY <1>2, <3>1 DEF Calm
  <2>. QED  BY <2>1 DEF FromLast
<1>7. ASSUME NEW f \in Fn, stage'[f] # "off", coordinator = GATEWAY \/ f = coordinator
      PROVE  ThereNext(GATEWAY) /\ matriz'[f][GATEWAY] = pid'[GATEWAY] /\ Knows(hash'[f], pid'[GATEWAY])
  <2>1. CASE stage[f] # "off" /\ matriz'[f][GATEWAY] = matriz[f][GATEWAY]
    <3>1. There(GATEWAY) /\ matriz[f][GATEWAY] = pid[GATEWAY] /\ Knows(hash[f], pid[GATEWAY])
      BY <1>1, <1>2, <1>7, <2>1 DEF InOrder, GatewayIsKnown, HasGateway
    <3>. QED  BY <1>1, <1>2, <2>1, <3>1
  <2>2. CASE There(GATEWAY) /\ matriz'[f][GATEWAY] = pid[GATEWAY] /\ Knows(hash'[f], pid[GATEWAY])
    BY <1>1, <1>2, <2>2
  <2>. QED  BY <1>7, <2>1, <2>2
<1>8. ASSUME coordinator = FRONTEND, stage'[GATEWAY] = "running"
      PROVE  ThereNext(FRONTEND) /\ matriz'[GATEWAY][FRONTEND] = pid'[FRONTEND] /\ Knows(hash'[GATEWAY], pid'[FRONTEND])
  BY <1>1, <1>2, <1>8 DEF GatewayIsKnown, HasFrontend
<1>9. GatewayIsKnown'
  BY <1>1, <1>2, <1>7, <1>8 DEF GatewayIsKnown, HasGateway, HasFrontend, There, ThereNext
<1>. QED  BY <1>3, <1>4, <1>5, <1>6, <1>9 DEF Smooth

LEMMA StartSmooth ==
    ASSUME Shapes, Shapes', Rendezvous, Rendezvous', Quiet', Apart', mishaps' = {}, Apart, Smooth, OnTheWay,
           inUse = {}, NEW p \in Proc, NEW x \in PidsOf[p], NEW s, Starting(p, x, s)
    PROVE  Smooth'
<1>1. Calm
  BY StartCalm
<1>2. /\ Published /\ Published' /\ coordinator' = coordinator /\ stage[p] = "off" /\ pid[p] = 0
      /\ stage' = [stage EXCEPT ![p] = s]
  BY DEF Rendezvous, Quiet, Starting, Start, Published
<1>3. \A q \in Proc \ {p} : stage'[q] = stage[q] /\ matriz'[q] = matriz[q] /\ hash'[q] = hash[q]
  BY <1>2, StageTypes DEF Starting
<1>4. stage'[p] = s
  BY <1>2, StageTypes
<1>5. CASE p = GATEWAY
  <2>1. s = "pinned"
    BY <1>5 DEF Starting
  <2>2. \A q \in Proc : stage'[q] = "ended" => stage[q] = "ended"
    BY <1>3, <1>4, <2>1
  <2>3. \A f \in Fn : stage'[f] # "off" => stage[f] # "off" /\ matriz'[f][GATEWAY] = matriz[f][GATEWAY]
    BY <1>3, <1>5, StageTypes, Coordinators
  <2>4. stage'[GATEWAY] # "running"
    BY <1>4, <1>5, <2>1
  <2>. QED  BY <1>1, <2>2, <2>3, <2>4, SmoothKept
<1>6. CASE p # GATEWAY
  <2>1. /\ stage[GATEWAY] # "off" /\ s = IF p = coordinator THEN "gather" ELSE "waiting"
        /\ pidMap[IF p = coordinator THEN GATEWAY ELSE coordinator] # 0
    BY <1>6 DEF Starting
  <2>2. \A q \in Proc : pidMap[q] # 0 => There(q)
    BY <1>2 DEF Published, There
  <2>3. \A q \in Proc : There(q) => ThereNext(q)
    BY <1>1 DEF Calm
  <2>4. ThereNext(coordinator)
    <3>1. CASE p = coordinator
      <4>1. stage'[p] = "gather"
        BY <1>4, <2>1, <3>1
      <4>. QED  BY <1>2, <3>1, <4>1 DEF Published, There, ThereNext
    <3>2. CASE p # coordinator
      BY <2>1, <2>2, <2>3, <3>2, StageTypes
    <3>. QED  BY <3>1, <3>2
  <2>5. coordinator = GATEWAY \/ p = coordinator =>
            There(GATEWAY) /\ matriz'[p][GATEWAY] = pid[GATEWAY] /\ Knows(hash'[p], pid[GATEWAY])
    <3>1. coordinator = GATEWAY \/ p = coordinator => There(GATEWAY)
      BY <1>6, <2>1, <2>2, StageTypes
    <3>2. s \in {"gather", "waiting"} /\ (p = coordinator => s = "gather")
      BY <2>1
    <3>3. coordinator = GATEWAY \/ p = coordinator =>
              matriz'[p][GATEWAY] = pidMap[GATEWAY] /\ Knows(hash'[p], pidMap[GATEWAY])
      BY <3>2 DEF Starting
    <3>. QED  BY <3>1, <3>3 DEF There
  <2>6. \A q \in Proc : stage'[q] = "ended" => stage[q] = "ended"
    BY <1>3, <1>4, <2>1
  <2>7. stage'[GATEWAY] = stage[GATEWAY] /\ matriz'[GATEWAY] = matriz[GATEWAY] /\ hash'[GATEWAY] = hash[GATEWAY]
    BY <1>3, <1>6, StageTypes
  <2>8. ASSUME NEW f \in Fn, stage'[f] # "off"
        PROVE  \/ stage[f] # "off" /\ matriz'[f][GATEWAY] = matriz[f][GATEWAY]
               \/ /\ ThereNext(coordinator) /\ stage'[GATEWAY] # "off"
                  /\ coordinator = GATEWAY \/ f = coordinator =>
                         There(GATEWAY) /\ matriz'[f][GATEWAY] = pid[GATEWAY] /\ Knows(hash'[f], pid[GATEWAY])
    <3>1. CASE f = p
      BY <2>1, <2>4, <2>5, <2>7, <3>1
    <3>2. CASE f # p
      BY <1>3, <2>8, <3>2, StageTypes
    <3>. QED  BY <3>1, <3>2
  <2>. QED  BY <1>1, <2>6, <2>7, <2>8, SmoothKept
<1>. QED  BY <1>5, <1>6

(* The coordinator reaches every member. *)
LEMMA SendGoReaches ==
    ASSUME Shapes, Rendezvous, Quiet, Alive, SendGo
    PROVE  \A q \in Proc : stage'[q] = "ended" => stage[q] = "ended"
<1>. DEFINE c == coordinator
            f == NextMember
            there == Running(matriz[c][f])
<1>1. stage[c] = "send" /\ c \in Proc /\ f \in Members /\ f \in Proc
  BY NextIsMember, StageTypes DEF SendGo
<1>2. count = Expected /\ Gathered /\ Published
  BY <1>1 DEF Rendezvous, AllThere
<1>3. There(f) /\ matriz[c][f] = pid[f]
  BY <1>1, <1>2, Complete, StageTypes
<1>4. f \in there
  BY <1>1, <1>2, <1>3 DEF Running, There, Alive, Published
<1>5. stage' = stage \/ stage' = [stage EXCEPT ![c] = "running"]
  BY <1>4 DEF SendGo, NextMember
<1>. QED  BY <1>5, StageTypes

LEMMA StartUpSmooth ==
    ASSUME Shapes, Shapes', Rendezvous, Rendezvous', Handing, Smooth, Quiet', Apart', mishaps' = {}, StartUp
    PROVE  Smooth'
<1>. USE DEF rendezvous
<1>1. Calm
  BY CalmSteps
<1>2. mishaps = {} /\ Apart /\ Quiet
  BY <1>1, QuietBefore DEF Calm
<1>3. OnTheWay /\ Alive /\ Busy
  BY <1>2 DEF Handing, Smooth
<1>4. inUse = {}
  BY <1>3, StartUpIsBefore DEF Busy
<1>5. GATEWAY \notin Fn /\ GATEWAY \notin Members /\ GATEWAY # FRONTEND /\ GATEWAY \in Proc
      /\ coordinator \in {GATEWAY, FRONTEND} /\ FRONTEND \in Proc
  BY StageTypes, Coordinators
<1>6. ASSUME NEW p \in Proc, StartStep(p) PROVE Smooth'
  <2>0. PICK x \in PidsOf[p] : \E s : Starting(p, x, s)
    BY <1>6, StartStarts DEF StartStep
  <2>1. PICK s : Starting(p, x, s)
    BY <2>0
  <2>. QED  BY <1>2, <1>3, <1>4, <2>1, StartSmooth
<1>7. ASSUME GatewayOpens PROVE Smooth'
  <2>1. /\ stage' = [stage EXCEPT ![GATEWAY] = "open"] /\ matriz' = matriz
    BY <1>7 DEF GatewayOpens
  <2>2. /\ \A q \in Proc : stage'[q] = "ended" => stage[q] = "ended"
        /\ \A f \in Fn : stage'[f] # "off" => stage[f] # "off"
        /\ stage'[GATEWAY] # "running"
    BY <1>5, <2>1, StageTypes
  <2>. QED  BY <1>1, <1>2, <1>3, <1>4, <2>1, <2>2, SmoothKept
<1>8. ASSUME GatewayGathers PROVE Smooth'
  <2>1. /\ stage' = [stage EXCEPT ![GATEWAY] = "gather"]
        /\ matriz' = [matriz EXCEPT ![GATEWAY][GATEWAY] = pid[GATEWAY]]
    BY <1>8 DEF GatewayGathers
  <2>2. /\ \A q \in Proc : stage'[q] = "ended" => stage[q] = "ended"
        /\ \A f \in Fn : stage'[f] # "off" => stage[f] # "off" /\ matriz'[f][GATEWAY] = matriz[f][GATEWAY]
        /\ stage'[GATEWAY] # "running"
    BY <1>5, <2>1, StageTypes
  <2>. QED  BY <1>1, <1>2, <1>3, <1>4, <2>2, SmoothKept
<1>9. ASSUME GatewayLooksUp PROVE Smooth'
  <2>. DEFINE x == pidMap[FRONTEND]
              h == [hash[GATEWAY] EXCEPT ![FRONTEND % HashSize] = x]
  <2>1. /\ stage' = [stage EXCEPT ![GATEWAY] = "running"]
        /\ matriz' = [matriz EXCEPT ![GATEWAY][FRONTEND] = x]
        /\ hash' = [hash EXCEPT ![GATEWAY] = Learn(h, x)]
        /\ x # 0
    BY <1>9, StageTypes DEF GatewayLooksUp, Mishap
  <2>2. /\ \A q \in Proc : stage'[q] = "ended" => stage[q] = "ended"
        /\ \A f \in Fn : stage'[f] # "off" => stage[f] # "off" /\ matriz'[f][GATEWAY] = matriz[f][GATEWAY]
    BY <1>5, <2>1, StageTypes
  <2>3. There(FRONTEND) /\ x = pid[FRONTEND]
    BY <1>2, <1>5, <2>1 DEF Rendezvous, Published, There
  <2>4. x \in Pids /\ x \in Nat /\ hash[GATEWAY] \in [0 .. HashSize - 1 -> Pids] /\ FRONTEND % HashSize \in 0 .. HashSize - 1
    BY <1>5, StageTypes, PidsAreNaturals, Indices DEF FRONTEND
  <2>5. Knows(Learn(h, x), x)
    <3>1. h \in [0 .. HashSize - 1 -> Pids]
      BY <2>4
    <3>2. x % HashSize \in 0 .. HashSize - 1
      BY <2>4, Indices
    <3>. HIDE DEF h, x
    <3>. QED  BY <3>1, <3>2 DEF Knows, Learn
  <2>6. matriz'[GATEWAY][FRONTEND] = pid[FRONTEND] /\ Knows(hash'[GATEWAY], pid[FRONTEND])
    BY <1>5, <2>1, <2>3, <2>5, StageTypes
  <2>. QED  BY <1>1, <1>2, <1>3, <1>4, <2>2, <2>3, <2>6, SmoothKept
<1>10. ASSUME Gather PROVE Smooth'
  <2>. DEFINE c == coordinator
              m == Head(ready[c])
  <2>1. /\ stage' \in {stage, [stage EXCEPT ![c] = "send"]} /\ stage[c] = "gather" /\ ready[c] # <<>>
        /\ matriz' = [matriz EXCEPT ![c][m.value] = m.from]
        /\ hash' = [hash EXCEPT ![c] = Learn(@, m.from)]
    BY <1>10 DEF Gather
  <2>2. m.value \in Members
    <3>1. m = ready[c][1] /\ 1 \in DOMAIN ready[c]
      BY <2>1, StageTypes, Tails
    <3>. QED  BY <3>1 DEF Shapes, OwnPids
  <2>. HIDE DEF m
  <2>3. /\ \A q \in Proc : stage'[q] = "ended" => stage[q] = "ended"
        /\ \A f \in Fn : stage'[f] # "off" => stage[f] # "off" /\ matriz'[f][GATEWAY] = matriz[f][GATEWAY]
        /\ coordinator = FRONTEND /\ stage'[GATEWAY] = "running" =>
               stage[GATEWAY] = "running" /\ matriz'[GATEWAY] = matriz[GATEWAY] /\ hash'[GATEWAY] = hash[GATEWAY]
    BY <1>5, <2>1, <2>2, StageTypes
  <2>. QED  BY <1>1, <1>2, <1>3, <1>4, <2>3, SmoothKept
<1>11. ASSUME SendGo PROVE Smooth'
  <2>1. \A q \in Proc : stage'[q] = "ended" => stage[q] = "ended"
    BY <1>2, <1>3, <1>11, SendGoReaches
  <2>2. /\ \E s : stage' = [stage EXCEPT ![coordinator] = s]
        /\ stage[coordinator] = "send" /\ matriz' = matriz /\ hash' = hash
    BY <1>11, StageTypes DEF SendGo, End, tables
  <2>3. /\ \A f \in Fn : stage'[f] # "off" => stage[f] # "off" /\ matriz'[f][GATEWAY] = matriz[f][GATEWAY]
        /\ coordinator = FRONTEND /\ stage'[GATEWAY] = "running" =>
               stage[GATEWAY] = "running" /\ matriz'[GATEWAY] = matriz[GATEWAY] /\ hash'[GATEWAY] = hash[GATEWAY]
    BY <1>5, <2>2, StageTypes
  <2>. QED  BY <1>1, <1>2, <1>3, <1>4, <2>1, <2>3, SmoothKept
<1>12. ASSUME NEW f \in Fn, GoStep(f) PROVE Smooth'
  <2>1. Waited(f) /\ f \in Proc /\ f # GATEWAY
    BY <1>5, <1>12, StageTypes DEF GoStep, NfGoes, ServiceGoes
  <2>2. /\ stage' = [stage EXCEPT ![f] = "running"] /\ stage[f] = "waiting"
        /\ matriz' = [matriz EXCEPT ![f] = [q \in Proc |-> IF q = GATEWAY THEN @[q] ELSE pidMap[q]]]
    BY <2>1 DEF Waited
  <2>3. hash'[GATEWAY] = hash[GATEWAY]
    BY <1>5, <1>12, <2>1, StageTypes DEF GoStep, NfGoes, ServiceGoes
  <2>4. matriz'[f][GATEWAY] = matriz[f][GATEWAY] /\ \A q \in Proc \ {f} : matriz'[q] = matriz[q]
    BY <1>5, <2>1, <2>2, StageTypes
  <2>5. /\ \A q \in Proc : stage'[q] = "ended" => stage[q] = "ended"
        /\ \A g \in Fn : stage'[g] # "off" => stage[g] # "off" /\ matriz'[g][GATEWAY] = matriz[g][GATEWAY]
        /\ coordinator = FRONTEND /\ stage'[GATEWAY] = "running" =>
               stage[GATEWAY] = "running" /\ matriz'[GATEWAY] = matriz[GATEWAY] /\ hash'[GATEWAY] = hash[GATEWAY]
    BY <1>5, <2>1, <2>2, <2>3, <2>4, StageTypes
  <2>. QED  BY <1>1, <1>2, <1>3, <1>4, <2>5, SmoothKept
<1>. QED  BY <1>6, <1>7, <1>8, <1>9, <1>10, <1>11, <1>12, Zenon DEF StartUp

(* On the way of a request each knows the next, and the gateway the last.  *)
LEMMA NextIsKnown ==
    ASSUME Shapes, Rendezvous, Quiet, Apart, Alive, GatewayIsKnown, AllRunning,
           NEW k \in Nat, k <= Len(Path)
    PROVE  LET p == At(k)
               q == At(k + 1)
           IN  /\ p \in Proc /\ q \in Proc
               /\ matriz[p][q] = pid[q] /\ Knows(hash[p], pid[q]) /\ Running(pid[q]) # {}
<1>. DEFINE n == Len(Path)
            p == At(k)
            q == At(k + 1)
<1>1. /\ n \in Nat /\ n > 1 /\ p \in Proc /\ q \in Proc
      /\ \A j \in 1 .. n : At(j) \in Fn
      /\ \A j : j \notin 1 .. n => At(j) = GATEWAY
      /\ At(1) = FRONTEND
      /\ coordinator = FRONTEND => At(n) = FRONTEND
      /\ coordinator \in {GATEWAY, FRONTEND} /\ GATEWAY \notin Fn
  BY StageTypes, Ways, Coordinators
<1>2. TablesAgree
  BY RunningKnowsAll
<1>3. \A r \in Members \union {coordinator} : HasAll(r)
  BY <1>2, StageTypes DEF TablesAgree, Quiet, AllRunning
<1>4. Running(pid[q]) # {}
  <2>1. q \in Running(pid[q])
    BY <1>1 DEF Running, AllRunning
  <2>. QED  BY <2>1
<1>. HIDE DEF n, p, q
<1>5. CASE p \in Fn /\ q \in Fn
  <2>1. HasAll(p)
    BY <1>3, <1>5 DEF Members
  <2>. QED  BY <1>1, <1>4, <1>5, <2>1 DEF HasAll, p, q
<1>6. CASE p \notin Fn
  <2>1. k \notin 1 .. n
    BY <1>1, <1>6 DEF p
  <2>2. k = 0
    BY <1>1, <2>1 DEF n
  <2>3. p = GATEWAY /\ q = FRONTEND /\ FRONTEND \in Fn
    BY <1>1, <2>1, <2>2 DEF p, q
  <2>4. CASE coordinator = GATEWAY
    BY <1>1, <1>3, <1>4, <2>3, <2>4 DEF HasAll, p, q
  <2>5. CASE coordinator = FRONTEND
    <3>1. HasFrontend
      BY <1>1, <2>3, <2>5 DEF GatewayIsKnown, AllRunning
    <3>. QED  BY <1>1, <1>4, <2>3, <3>1 DEF HasFrontend, p, q
  <2>. QED  BY <1>1, <2>4, <2>5
<1>7. CASE q \notin Fn
  <2>1. k + 1 \notin 1 .. n
    BY <1>1, <1>7 DEF q
  <2>2. k = n
    BY <1>1, <2>1 DEF n
  <2>3. q = GATEWAY /\ p = At(n) /\ p \in Fn
    BY <1>1, <2>1, <2>2 DEF p, q
  <2>4. HasGateway(p)
    <3>1. stage[p] # "off"
      BY <1>1 DEF AllRunning
    <3>. QED  BY <1>1, <2>3, <3>1 DEF GatewayIsKnown
  <2>. QED  BY <1>1, <1>4, <2>3, <2>4 DEF HasGateway, p, q
<1>. QED  BY <1>5, <1>6, <1>7

LEMMA LastIsKnown ==
    ASSUME Shapes, Rendezvous, Quiet, Apart, GatewayIsKnown, AllRunning
    PROVE  Knows(hash[GATEWAY], pid[At(Len(Path))])
<1>1. /\ At(Len(Path)) \in Fn /\ (coordinator = FRONTEND => At(Len(Path)) = FRONTEND)
      /\ coordinator \in {GATEWAY, FRONTEND} /\ GATEWAY \in Proc
  BY StageTypes, Ways
<1>2. CASE coordinator = GATEWAY
  <2>1. HasAll(GATEWAY)
    BY <1>1, <1>2, RunningKnowsAll DEF TablesAgree, Quiet, AllRunning
  <2>. QED  BY <1>1, <2>1 DEF HasAll
<1>3. CASE coordinator = FRONTEND
  BY <1>1, <1>3 DEF GatewayIsKnown, AllRunning, HasFrontend
<1>. QED  BY <1>1, <1>2, <1>3

(* The tables and the stages stay, so what is known is still known.        *)
LEMMA ThreadKept ==
    ASSUME Shapes, UNCHANGED <<coordinator, tables>>, stage' = stage, InOrder, GatewayIsKnown
    PROVE  InOrder' /\ GatewayIsKnown'
  BY DEF tables, InOrder, GatewayIsKnown, HasGateway, HasFrontend, There

LEMMA FromLastSent ==
    ASSUME Shapes, UNCHANGED <<coordinator, pid>>, FromLast, NEW q \in Proc, NEW m \in SignalOf(Object),
           signals' = [signals EXCEPT ![q] = Append(@, m)],
           q = GATEWAY => m.from = pid[At(Len(Path))]
    PROVE  FromLast'
<1>0. signals \in [Proc -> Seq(SignalOf(Object))] /\ {q} \in SUBSET Proc
  BY StageTypes
<1>1. signals' = [r \in Proc |-> IF r \in {q} THEN Append(signals[r], m) ELSE signals[r]]
  BY <1>0
<1>2. \A r \in Proc : \A i \in DOMAIN signals'[r] :
          (i \in DOMAIN signals[r] /\ signals'[r][i] = signals[r][i]) \/ (r \in {q} /\ signals'[r][i] = m)
  BY <1>0, <1>1, Appends
<1>3. \A i \in DOMAIN signals'[GATEWAY] : signals'[GATEWAY][i].from = pid[At(Len(Path))]
  BY <1>2, StageTypes DEF FromLast
<1>. QED  BY <1>3 DEF FromLast, At, Path

(* The threads, when nothing went out of order: no receiver is gone, and no *)
(* sender is unknown.                                                      *)
LEMMA DispatchSmooth ==
    ASSUME Shapes, Shapes', Rendezvous, Quiet, Apart, OnTheWay, mishaps' = {},
           Alive, Busy, InOrder, GatewayIsKnown, FromLast, NEW o \in Object, Dispatch(o)
    PROVE  Smooth'
<1>. USE DEF rendezvous
<1>. DEFINE q == At(1)
            m == [from |-> pid[GATEWAY], value |-> o]
<1>1. /\ AllRunning /\ UNCHANGED <<coordinator, tables, deaf>> /\ inUse' = inUse \union {o}
      /\ Transfer(GATEWAY, o, q)
  BY DEF Dispatch, Mishap
<1>2. q \in Fn /\ q \in Proc /\ At(0) = GATEWAY /\ GATEWAY \in Proc /\ GATEWAY # q /\ Len(Path) \in Nat
  BY StageTypes, Ways, Coordinators
<1>3. Knows(hash[GATEWAY], matriz[GATEWAY][q]) /\ Running(matriz[GATEWAY][q]) # {}
  <2>1. 0 \in Nat /\ 0 <= Len(Path) /\ 0 + 1 = 1
    BY <1>2
  <2>2. matriz[GATEWAY][q] = pid[q] /\ Knows(hash[GATEWAY], pid[q]) /\ Running(pid[q]) # {}
    BY <1>1, <1>2, <2>1, NextIsKnown
  <2>. QED  BY <2>2
<1>4. stage' = stage /\ Objs(Queues') = Objs(Queues) \union {o}
  BY <1>3, DispatchOnTheWay
<1>5. signals' = [signals EXCEPT ![q] = Append(@, m)]
  BY <1>1, <1>2, <1>3, Transfers
<1>6. m \in SignalOf(Object)
  BY <1>2, StageTypes DEF SignalOf
<1>7. Alive' /\ Busy'
  BY <1>1, <1>4 DEF Alive, Busy, AllRunning
<1>8. InOrder' /\ GatewayIsKnown'
  BY <1>1, <1>4, ThreadKept
<1>9. FromLast'
  <2>. HIDE DEF m, q
  <2>. QED  BY <1>1, <1>2, <1>5, <1>6, FromLastSent DEF tables
<1>. QED  BY <1>7, <1>8, <1>9 DEF Smooth

LEMMA HandOnSmooth ==
    ASSUME Shapes, Shapes', Rendezvous, Quiet, Apart, OnTheWay,
           Alive, Busy, InOrder, GatewayIsKnown, FromLast, NEW f \in Proc, HandOn(f)
    PROVE  Smooth'
<1>. USE DEF rendezvous
<1>. DEFINE o == Head(held[f])
            k == hop[o]
            q == At(k + 1)
            m == [from |-> pid[f], value |-> o]
<1>1. /\ UNCHANGED <<coordinator, tables, deaf, inUse>>
  BY DEF HandOn
<1>2. /\ o \in inUse /\ k \in Nat \ {0} /\ At(k) = f /\ f \in Fn
      /\ Transfer(f, o, q)
      /\ Knows(hash[f], matriz[f][q]) /\ Running(matriz[f][q]) # {} =>
             stage' = stage /\ Objs(Queues') = Objs(Queues)
  BY HandOnOnTheWay
<1>3. /\ Len(Path) \in Nat /\ \A j : j \notin 1 .. Len(Path) => At(j) = GATEWAY
      /\ \A j \in 1 .. Len(Path) : At(j) \in Fn
      /\ GATEWAY \notin Fn /\ \A j : At(j) \in Proc
  BY StageTypes, Ways, Coordinators
<1>. HIDE DEF o, k, q
<1>4. k \in 1 .. Len(Path)
  BY <1>2, <1>3
<1>5. AllRunning
  BY <1>2 DEF Busy
<1>6. Knows(hash[f], matriz[f][q]) /\ Running(matriz[f][q]) # {}
  <2>1. k \in Nat /\ k <= Len(Path)
    BY <1>3, <1>4
  <2>2. matriz[f][q] = pid[q] /\ Knows(hash[f], pid[q]) /\ Running(pid[q]) # {}
    BY <1>2, <1>5, <2>1, NextIsKnown DEF q
  <2>. QED  BY <2>2
<1>7. stage' = stage /\ Objs(Queues') = Objs(Queues)
  BY <1>2, <1>6
<1>8. o \in Object /\ q \in Proc
  BY <1>2, <1>3, ObjectTypes DEF q
<1>9. signals' = [signals EXCEPT ![q] = Append(@, m)]
  BY <1>2, <1>6, <1>8, Transfers
<1>10. m \in SignalOf(Object) /\ m.from = pid[f]
  BY <1>8, StageTypes DEF SignalOf
<1>11. q = GATEWAY => f = At(Len(Path))
  <2>1. k + 1 \in 1 .. Len(Path) => q \in Fn
    BY <1>3 DEF q
  <2>2. q = GATEWAY => k = Len(Path)
    BY <1>3, <1>4, <2>1
  <2>. QED  BY <1>2, <2>2
<1>12. Alive' /\ Busy'
  BY <1>1, <1>5, <1>7 DEF Alive, Busy, AllRunning
<1>13. InOrder' /\ GatewayIsKnown'
  BY <1>1, <1>7, ThreadKept
<1>14. FromLast'
  <2>. HIDE DEF m
  <2>. QED  BY <1>1, <1>8, <1>9, <1>10, <1>11, FromLastSent DEF tables
<1>. QED  BY <1>12, <1>13, <1>14 DEF Smooth

LEMMA ReceiveSmooth ==
    ASSUME Shapes, Shapes', Rendezvous, Quiet, Apart, OnTheWay, FirstKnows, Senders,
           Alive, Busy, InOrder, GatewayIsKnown, FromLast, NEW p \in Proc, ReceiveSignal(p)
    PROVE  Smooth'
<1>. USE DEF rendezvous
<1>. DEFINE m == Head(signals[p])
<1>1. /\ signals[p] # <<>> /\ m = signals[p][1] /\ 1 \in DOMAIN signals[p]
      /\ signals' = [signals EXCEPT ![p] = Tail(@)] /\ stage' = stage /\ inUse' = inUse
      /\ \/ Knows(hash[p], m.from) /\ deaf' = deaf
         \/ ~Knows(hash[p], m.from) /\ (p = GATEWAY \/ (p = FRONTEND /\ Mute))
  BY Obtained
<1>2. UNCHANGED <<coordinator, tables>>
  BY DEF ReceiveSignal
<1>3. /\ m.value \in inUse
      /\ Knows(hash[p], m.from) => Objs(Queues') = Objs(Queues)
  BY ReceiveOnTheWay
<1>4. AllRunning
  BY <1>3 DEF Busy
<1>5. Knows(hash[p], m.from)
  <2>1. CASE p = GATEWAY
    <3>1. m.from = pid[At(Len(Path))]
      BY <1>1, <2>1 DEF FromLast
    <3>. QED  BY <1>4, <2>1, <3>1, LastIsKnown
  <2>2. ~Mute
    BY <1>4, StageTypes DEF GatewayIsKnown, HasGateway, Mute, There, AllRunning
  <2>. QED  BY <1>1, <2>1, <2>2
<1>. HIDE DEF m
<1>6. Alive' /\ Busy'
  BY <1>1, <1>3, <1>4, <1>5 DEF Alive, Busy, AllRunning
<1>7. InOrder' /\ GatewayIsKnown'
  BY <1>1, <1>2, ThreadKept
<1>8. FromLast'
  <2>1. /\ \A q \in Proc \ {p} : signals'[q] = signals[q]
        /\ \A i \in DOMAIN signals'[p] : signals'[p][i] = signals[p][i + 1] /\ i + 1 \in DOMAIN signals[p]
    BY <1>1, StageTypes, Tails
  <2>2. ASSUME NEW i \in DOMAIN signals'[GATEWAY]
        PROVE  signals'[GATEWAY][i].from = pid[At(Len(Path))]
    <3>1. CASE p = GATEWAY
      <4>1. signals'[p][i] = signals[p][i + 1] /\ i + 1 \in DOMAIN signals[p]
        BY <2>1, <3>1
      <4>. QED  BY <3>1, <4>1 DEF FromLast
    <3>2. CASE p # GATEWAY
      <4>1. signals'[GATEWAY] = signals[GATEWAY]
        BY <2>1, <3>2, StageTypes
      <4>. QED  BY <4>1 DEF FromLast
    <3>. QED  BY <3>1, <3>2
  <2>. QED  BY <1>2, <2>2 DEF FromLast, At, Path, tables
<1>. QED  BY <1>6, <1>7, <1>8 DEF Smooth

LEMMA AnswerSmooth ==
    ASSUME Shapes, Shapes', OnTheWay, Alive, Busy, InOrder, GatewayIsKnown, FromLast, Answer
    PROVE  Smooth'
<1>1. UNCHANGED <<coordinator, tables, stage, signals, deaf>>
  BY DEF Answer
<1>2. /\ inUse' = inUse \ {Head(held[GATEWAY])}
      /\ Objs(Queues') = Objs(Queues) \ {Head(held[GATEWAY])}
  BY AnswerOnTheWay
<1>3. Alive' /\ Busy'
  BY <1>1, <1>2 DEF Alive, Busy, AllRunning
<1>4. InOrder' /\ GatewayIsKnown'
  BY <1>1, ThreadKept
<1>5. FromLast'
  BY <1>1 DEF FromLast, At, Path, tables
<1>. QED  BY <1>3, <1>4, <1>5 DEF Smooth

LEMMA NextSmooth ==
    ASSUME Shapes, Shapes', Rendezvous, Rendezvous', Handing, Smooth, [Next]_vars
    PROVE  Smooth'
<1>. SUFFICES ASSUME mishaps' = {}, Apart' PROVE Smooth'
  BY DEF Smooth
<1>1. Quiet'
  BY DEF Quiet
<1>2. CASE StartUp
  BY <1>1, <1>2, StartUpSmooth
<1>3. CASE \/ \E p \in Proc : ReceiveSignal(p) \/ ReceiveGo(p) \/ HandOn(p)
           \/ Answer
           \/ \E o \in Object : Dispatch(o)
  <2>1. mishaps = {} /\ Quiet /\ Apart
    BY <1>1, <1>3, ThreadsQuiet, QuietBefore
  <2>2. Goes /\ FirstKnows /\ Senders /\ OnTheWay
    BY <2>1 DEF Handing
  <2>3. Alive /\ Busy /\ InOrder /\ GatewayIsKnown /\ FromLast
    BY <2>1 DEF Smooth
  <2>. QED  BY <1>3, <2>1, <2>2, <2>3, NoGoIsReceived, DispatchSmooth, HandOnSmooth, ReceiveSmooth, AnswerSmooth
<1>4. CASE Next
  <2>1. \A f \in Fn : ~Restart(f)
    BY <1>1 DEF Restart, Mishap, Quiet
  <2>. QED  BY <1>2, <1>3, <1>4, <2>1, Steps, Zenon DEF StartUp
<1>5. CASE UNCHANGED vars
  <2>1. UNCHANGED <<coordinator, tables, stage, mishaps, signals, deaf, held, inUse>>
    BY <1>5 DEF vars, objects
  <2>2. Alive /\ Busy /\ InOrder /\ GatewayIsKnown /\ FromLast
    BY <2>1 DEF Smooth, Apart, tables
  <2>3. Queues' = Queues
    BY <2>1 DEF Queues, Values
  <2>4. Alive' /\ Busy'
    BY <2>1, <2>2, <2>3 DEF Alive, Busy, AllRunning
  <2>5. InOrder' /\ GatewayIsKnown'
    BY <2>1, <2>2, ThreadKept
  <2>6. FromLast'
    BY <2>1, <2>2 DEF FromLast, At, Path, tables
  <2>. QED  BY <2>4, <2>5, <2>6 DEF Smooth
<1>. QED  BY <1>4, <1>5

(* A place is one of a queue, and one of a queue of a process that has not *)
(* ended is a place.                                                       *)
LEMMA PlacesAreQueued ==
    ASSUME Shapes, NEW o \in Object
    PROVE  /\ \A x \in Places(o) : \E k \in Keys : \E i \in DOMAIN Queues[k] :
                  Queues[k][i] = o /\ x = <<k[1], k[2], i>>
           /\ \A k \in Keys : \A i \in DOMAIN Queues[k] :
                  Queues[k][i] = o /\ stage[k[2]] # "ended" => Places(o) # {}
<1>1. ASSUME NEW p \in Proc
      PROVE  /\ <<"signal", p>> \in Keys /\ <<"held", p>> \in Keys
             /\ DOMAIN Queues[<<"signal", p>>] = DOMAIN signals[p]
             /\ \A i \in DOMAIN signals[p] : Queues[<<"signal", p>>][i] = signals[p][i].value
             /\ stage[p] # "ended" => Queues[<<"held", p>>] = held[p]
  <2>1. /\ <<"signal", p>> \in Keys /\ <<"held", p>> \in Keys
        /\ Queues[<<"signal", p>>] = Values(signals[p])
        /\ stage[p] # "ended" => Queues[<<"held", p>>] = held[p]
    BY QueuesTyped
  <2>. QED  BY <2>1 DEF Values
<1>2. ASSUME NEW x \in Places(o)
      PROVE  \E k \in Keys : \E i \in DOMAIN Queues[k] : Queues[k][i] = o /\ x = <<k[1], k[2], i>>
  <2>1. PICK p \in {q \in Proc : stage[q] # "ended"} :
            \/ x \in {<<"signal", p, i>> : i \in {j \in DOMAIN signals[p] : signals[p][j].value = o}}
            \/ x \in {<<"held", p, i>> : i \in {j \in DOMAIN held[p] : held[p][j] = o}}
    BY <1>2 DEF Places
  <2>2. CASE x \in {<<"signal", p, i>> : i \in {j \in DOMAIN signals[p] : signals[p][j].value = o}}
    <3>1. PICK i \in DOMAIN signals[p] : signals[p][i].value = o /\ x = <<"signal", p, i>>
      BY <2>2
    <3>2. LET k == <<"signal", p>>
          IN  k \in Keys /\ i \in DOMAIN Queues[k] /\ Queues[k][i] = o /\ x = <<k[1], k[2], i>>
      BY <1>1, <2>1, <3>1
    <3>. QED  BY <3>2
  <2>3. CASE x \in {<<"held", p, i>> : i \in {j \in DOMAIN held[p] : held[p][j] = o}}
    <3>1. PICK i \in DOMAIN held[p] : held[p][i] = o /\ x = <<"held", p, i>>
      BY <2>3
    <3>2. LET k == <<"held", p>>
          IN  k \in Keys /\ i \in DOMAIN Queues[k] /\ Queues[k][i] = o /\ x = <<k[1], k[2], i>>
      BY <1>1, <2>1, <3>1
    <3>. QED  BY <3>2
  <2>. QED  BY <2>1, <2>2, <2>3
<1>3. ASSUME NEW k \in Keys, NEW i \in DOMAIN Queues[k], Queues[k][i] = o, stage[k[2]] # "ended"
      PROVE  Places(o) # {}
  <2>1. PICK p \in Proc : k = <<"signal", p>> \/ k = <<"held", p>>
    BY QueuesTyped
  <2>2. stage[p] # "ended"
    BY <1>3, <2>1
  <2>3. CASE k = <<"signal", p>>
    <3>1. i \in DOMAIN signals[p] /\ signals[p][i].value = o
      BY <1>1, <1>3, <2>3
    <3>2. <<"signal", p, i>> \in Places(o)
      BY <2>2, <3>1 DEF Places
    <3>. QED  BY <3>2
  <2>4. CASE k = <<"held", p>>
    <3>1. i \in DOMAIN held[p] /\ held[p][i] = o
      BY <1>1, <1>3, <2>2, <2>4
    <3>2. <<"held", p, i>> \in Places(o)
      BY <2>2, <3>1 DEF Places
    <3>. QED  BY <3>2
  <2>. QED  BY <2>1, <2>3, <2>4
<1>. QED  BY <1>2, <1>3

(* The invariant says that nothing is astray.                              *)
LEMMA OrderlyMeansNothingAstray ==
    ASSUME Shapes, Handing, Smooth
    PROVE  NothingAstray
<1>1. ASSUME Quiet, Apart, NEW o \in Object
      PROVE  (\A x, y \in Places(o) : x = y) /\ (Places(o) # {} => o \in inUse)
  <2>1. Alone(Queues) /\ Objs(Queues) \subseteq inUse
    BY <1>1 DEF Handing, OnTheWay
  <2>2. ASSUME NEW x \in Places(o), NEW y \in Places(o)
        PROVE  x = y /\ o \in inUse
    <3>a. PICK k \in Keys : \E i \in DOMAIN Queues[k] : Queues[k][i] = o /\ x = <<k[1], k[2], i>>
      BY PlacesAreQueued
    <3>1. PICK i \in DOMAIN Queues[k] : Queues[k][i] = o /\ x = <<k[1], k[2], i>>
      BY <3>a
    <3>b. PICK l \in Keys : \E j \in DOMAIN Queues[l] : Queues[l][j] = o /\ y = <<l[1], l[2], j>>
      BY PlacesAreQueued
    <3>2. PICK j \in DOMAIN Queues[l] : Queues[l][j] = o /\ y = <<l[1], l[2], j>>
      BY <3>b
    <3>3. k = l /\ i = j
      BY <2>1, <3>1, <3>2 DEF Alone
    <3>4. o \in Objs(Queues)
      BY <3>1 DEF Objs
    <3>. QED  BY <2>1, <3>1, <3>2, <3>3, <3>4
  <2>. QED  BY <2>2
<1>2. ASSUME mishaps = {}, Apart, NEW o \in inUse
      PROVE  Places(o) # {}
  <2>1. Alive /\ Busy /\ o \in Object
    BY <1>2, ObjectTypes DEF Smooth
  <2>a. PICK k \in Keys : \E i \in DOMAIN Queues[k] : Queues[k][i] = o
    BY <2>1 DEF Busy, Objs
  <2>2. PICK i \in DOMAIN Queues[k] : Queues[k][i] = o
    BY <2>a
  <2>3. stage[k[2]] # "ended"
    BY <2>1 DEF Alive, Keys
  <2>. QED  BY <2>1, <2>2, <2>3, PlacesAreQueued
<1>3. mishaps = {} /\ Apart => Alive
  BY DEF Smooth
<1>. QED  BY <1>1, <1>2, <1>3 DEF NothingAstray, Quiet, Alive

(* Unless pids have collided, a member was killed or took a transfer for   *)
(* go, no object is in two hands and nobody has one without a request; and *)
(* when nothing went out of order none is lost, and nobody ended or deaf.  *)
THEOREM ObjectsKeepToTheirWay == Spec => []NothingAstray
<1>1. Init => Shapes /\ Rendezvous /\ Handing /\ Smooth
  BY InitShapes, InitRendezvous, InitHanding, InitSmooth
<1>2. Shapes /\ Rendezvous /\ Handing /\ Smooth /\ [Next]_vars => (Shapes /\ Rendezvous /\ Handing /\ Smooth)'
  BY NextShapes, NextRendezvous, NextHanding, NextSmooth
<1>3. Shapes /\ Handing /\ Smooth => NothingAstray
  BY OrderlyMeansNothingAstray
<1>. QED  BY <1>1, <1>2, <1>3, PTL DEF Spec

=============================================================================
