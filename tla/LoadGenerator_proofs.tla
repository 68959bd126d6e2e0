------------------------ MODULE LoadGenerator_proofs ------------------------
(***************************************************************************)
(* Proofs about the traffic generators, for any number of requests and     *)
(* connections and any clock.  The argument: a connection is the sender's  *)
(* until epoll watches it and the receiver's from then on, so each thread  *)
(* finds in fdtab and in inflight what the one that had the descriptor     *)
(* before has left there, though neither holds a lock from one to the next.*)
(***************************************************************************)
EXTENDS LoadGenerator, FiniteSetTheorems, TLAPS

Request == [i : 0 .. Total - 1, sent : Second,
            req : {RequestOf(kind) : kind \in Kind} \union {GivenPath}]
SampleType == [recv : Second, sent : Second \union {0}, type : Kind, of : Request]

Holds(fd) == request[fd] # Nothing
Of(fd) == request[fd][1]

(* TypeOK, and the types of the history. *)
Shapes ==
    /\ TypeOK
    /\ sender.at \notin {"pace", "ended"} => sender.i < Total
    /\ request \in [Fd -> {Nothing} \union {<<r>> : r \in Request}]
    /\ samples \in Seq(SampleType)

(* The kind in fdtab is that of the request. *)
KindIs(fd, req) == req \in {RequestOf(fdtab[fd].request_type), GivenPath}

(* The descriptor of the sender is open and nobody else's; what it has     *)
(* done so far is in fdtab.                                                *)
Sending ==
    /\ sender.at \in {"count", "choose", "send", "stamp", "add", "clear", "undo"} =>
            sender.fd \in Open \ watched
    /\ program = "chain" => sender.req = GivenPath /\ sender.at # "choose"
    /\ sender.at = "send" => KindIs(sender.fd, sender.req)
    /\ sender.at \in {"stamp", "add"} =>
            Holds(sender.fd) /\ KindIs(sender.fd, Of(sender.fd).req)
    /\ sender.at = "add" =>
            fdtab[sender.fd].active /\ Of(sender.fd).sent <= fdtab[sender.fd].send_ns

(* The receiver is at work on a descriptor that is watched, with the time  *)
(* its request was stamped.                                                *)
Taking == receiver.at \in {"recv", "sample", "close"}
Receiving ==
    /\ Taking => receiver.fd \in watched \ receiver.events
    /\ receiver.events \subseteq watched
    /\ receiver.at \in {"recv", "sample"} =>
            receiver.have_ts /\ Of(receiver.fd).sent <= receiver.send_ns
    /\ receiver.send_ns <= clock

(* What is watched was sent, marked and stamped, and the stamp is there    *)
(* unless the receiver has it.                                             *)
Watching ==
    /\ watched \subseteq Open
    /\ \A fd \in Fd : fdtab[fd].send_ns <= clock /\ (Holds(fd) => Of(fd).sent <= clock)
    /\ \A fd \in watched :
        /\ Holds(fd) /\ KindIs(fd, Of(fd).req)
        /\ ~(Taking /\ receiver.fd = fd) =>
                fdtab[fd].active /\ Of(fd).sent <= fdtab[fd].send_ns

(* The sender has counted, or is about to count, no more than it may. *)
Pacing ==
    inflight + (IF sender.at \in {"connect", "count"} THEN 1 ELSE 0) <= MaxInflight

(* A request is on one connection or in one sample. *)
Apart ==
    /\ \A fd \in Open : Holds(fd) =>
        \/ Of(fd).i < sender.i
        \/ /\ fd = sender.fd /\ sender.at \in {"stamp", "add", "clear", "undo"}
           /\ Of(fd).i = sender.i
    /\ \A fd, g \in Open : fd # g /\ Holds(fd) /\ Holds(g) => Of(fd).i # Of(g).i
    /\ \A k \in 1 .. Len(samples) :
        /\ samples[k].of.i < sender.i
        /\ \A fd \in Open :
            Holds(fd) /\ ~(receiver.at = "close" /\ receiver.fd = fd)
                => Of(fd).i # samples[k].of.i

LoadInv ==
    /\ Shapes /\ Sending /\ Receiving /\ Watching /\ Pacing /\ Apart
    /\ OpenAreCounted /\ SamplesAreTrue

(***************************************************************************)
(* Facts.                                                                  *)
(***************************************************************************)
LEMMA FdIsFinite == IsFiniteSet(Fd) /\ Cardinality(Fd) = MaxInflight + 1
  BY FS_Interval, LoadAssumption DEF Fd

LEMMA OpenIsFinite ==
    /\ IsFiniteSet(Open) /\ Cardinality(Open) \in Nat
<1>1. Open \in SUBSET Fd
  BY DEF Open
<1>2. IsFiniteSet(Open)
  BY <1>1, FdIsFinite, FS_Subset
<1>. QED  BY <1>2, FS_CardinalityType

LEMMA HeldIsRequest ==
    ASSUME Shapes, NEW fd \in Fd, Holds(fd)
    PROVE  Of(fd) \in Request /\ request[fd] = <<Of(fd)>>
<1>1. PICK r \in Request : request[fd] = <<r>>
  BY DEF Shapes, Holds
<1>. QED  BY <1>1 DEF Of

LEMMA IndicesAreInt ==
    ASSUME Shapes
    PROVE  /\ sender.i \in Int
           /\ \A fd \in Open : Holds(fd) => Of(fd).i \in Int
           /\ \A k \in 1 .. Len(samples) : samples[k].of.i \in Int
<1>1. sender.i \in Int
  BY LoadAssumption DEF Shapes, TypeOK, SenderType
<1>2. \A fd \in Open : Holds(fd) => Of(fd).i \in Int
  BY HeldIsRequest, LoadAssumption DEF Open, Request
<1>3. \A k \in 1 .. Len(samples) : samples[k] \in SampleType
  BY DEF Shapes
<1>. QED  BY <1>1, <1>2, <1>3, LoadAssumption DEF SampleType, Request

LEMMA SetEntry ==
    ASSUME Shapes, NEW fd \in Fd, NEW time \in Second \union {0}, FdtabSet(fd, time)
    PROVE  /\ fdtab' \in [Fd -> EntryType]
           /\ fdtab'[fd].send_ns = time /\ fdtab'[fd].active
           /\ \A g \in Fd : fdtab'[g].request_type = fdtab[g].request_type
           /\ \A g \in Fd \ {fd} : fdtab'[g] = fdtab[g]
<1>1. fdtab \in [Fd -> EntryType]
  BY DEF Shapes, TypeOK
<1>2. /\ [fdtab EXCEPT ![fd].send_ns = time] \in [Fd -> EntryType]
      /\ fdtab' = [[fdtab EXCEPT ![fd].send_ns = time] EXCEPT ![fd].active = TRUE]
  BY <1>1 DEF FdtabSet, EntryType
<1>. QED  BY <1>1, <1>2 DEF EntryType

LEMMA ClearEntry ==
    ASSUME Shapes, NEW fd \in Fd, FdtabClear(fd)
    PROVE  /\ fdtab' \in [Fd -> EntryType]
           /\ \A g \in Fd : /\ fdtab'[g].request_type = fdtab[g].request_type
                             /\ fdtab'[g].send_ns = fdtab[g].send_ns
           /\ \A g \in Fd \ {fd} : fdtab'[g] = fdtab[g]
<1>1. fdtab \in [Fd -> EntryType]
  BY DEF Shapes, TypeOK
<1>. QED  BY <1>1 DEF FdtabClear, EntryType

(* What Goto, NextRequest and the moves of the receiver leave as it was.   *)
LEMMA SenderMoves ==
    ASSUME Shapes, NEW at, Goto(at),
           at \in {"connect", "count", "choose", "send", "stamp", "add",
                   "clear", "undo", "uncount", "ended"}
    PROVE  /\ sender' \in SenderType /\ sender'.at = at /\ sender'.i = sender.i
           /\ sender'.fd = sender.fd /\ sender'.req = sender.req
  BY DEF Goto, Shapes, TypeOK, SenderType

LEMMA SenderTurns ==
    ASSUME Shapes, sender.at \notin {"pace", "ended"}, NextRequest
    PROVE  /\ sender' \in SenderType /\ sender'.at = "pace"
           /\ sender'.i = sender.i + 1 /\ sender'.req = sender.req
<1>1. sender \in SenderType /\ sender.i + 1 \in 0 .. Total
  BY LoadAssumption DEF Shapes, TypeOK, SenderType
<1>. QED  BY <1>1 DEF NextRequest, SenderType

LEMMA ReceiverMoves ==
    ASSUME Shapes, NEW at \in {"next", "sample", "close", "uncount"},
           receiver' = [receiver EXCEPT !.at = at]
    PROVE  /\ receiver' \in ReceiverType /\ receiver'.at = at
           /\ receiver'.events = receiver.events /\ receiver'.fd = receiver.fd
           /\ receiver'.have_ts = receiver.have_ts /\ receiver'.send_ns = receiver.send_ns
  BY DEF Shapes, TypeOK, ReceiverType

(* Of any set of naturals there is a least; so the kernel finds the lowest *)
(* free descriptor whenever one is free.                                   *)
LEMMA Least ==
    ASSUME NEW S \in SUBSET Nat, S # {}
    PROVE  \E x \in S : \A y \in S : x <= y
<1>. DEFINE Up(x) == 1 .. x
            T == {Up(x) : x \in S}
<1>1. T \subseteq FiniteSubsetsOf(Nat)
  <2>1. \A x \in S : IsFiniteSet(Up(x)) /\ Up(x) \in SUBSET Nat
    BY FS_Interval
  <2>. QED  BY <2>1 DEF FiniteSubsetsOf
<1>2. T # {}
  OBVIOUS
<1>3. PICK U \in T : \A V \in T : <<V, U>> \notin StrictSubsetOrdering(Nat)
  BY <1>1, <1>2, FS_StrictSubsetOrderingWellFounded, WFMin
<1>4. PICK x \in S : U = Up(x)
  OBVIOUS
<1>5. ASSUME NEW y \in S PROVE x <= y
  <2>1. <<Up(y), Up(x)>> \notin StrictSubsetOrdering(Nat)
    BY <1>3, <1>4
  <2>2. SUFFICES ASSUME y < x PROVE FALSE
    BY y \in Nat, x \in Nat
  <2>3. x \in Up(x) /\ x \notin Up(y) /\ Up(y) \subseteq Up(x) /\ Up(x) \subseteq Nat
    BY <2>2
  <2>. QED  BY <2>1, <2>3 DEF StrictSubsetOrdering
<1>. QED  BY <1>5

LEMMA LowestIsFree ==
    ASSUME Cardinality(Open) <= MaxInflight
    PROVE  LowestFree \in Fd \ Open
<1>1. Fd \ Open # {}
  <2>1. Cardinality(Open) # Cardinality(Fd)
    BY FdIsFinite, OpenIsFinite, LoadAssumption
  <2>. QED  BY <2>1 DEF Open
<1>2. Fd \ Open \in SUBSET Nat
  BY LoadAssumption DEF Fd
<1>3. \E fd \in Fd \ Open : \A g \in Fd \ Open : fd <= g
  BY <1>1, <1>2, Least
<1>. QED  BY <1>3 DEF LowestFree

(***************************************************************************)
(* The steps of the sender.                                                *)
(***************************************************************************)
LEMMA InitInv == Init => LoadInv
<1>. SUFFICES ASSUME Init PROVE LoadInv
  OBVIOUS
<1>. USE DEF Init, Nothing
<1>1. Open = {} /\ Cardinality(Open) = 0
  BY FS_EmptySet DEF Open
<1>2. 0 \in Kind /\ RequestOf(0) \in {RequestOf(kind) : kind \in Kind}
  BY DEF Kind
<1>3. TypeOK
  <2>1. sender \in SenderType
    BY <1>2, LoadAssumption DEF SenderType
  <2>2. receiver \in ReceiverType
    BY LoadAssumption DEF ReceiverType
  <2>3. fdtab \in [Fd -> EntryType]
    BY <1>2, LoadAssumption DEF EntryType
  <2>4. inflight \in 0 .. MaxInflight /\ clock \in Second /\ faults \in 0 .. MaxFaults
    BY LoadAssumption DEF Second
  <2>5. Len(samples) <= Total /\ answered \subseteq 0 .. Total - 1
    BY LoadAssumption
  <2>6. conn \in [Fd -> {"closed", "waiting", "answered", "shut", "reset"}] /\ watched \subseteq Fd
    OBVIOUS
  <2>. QED  BY <2>1, <2>2, <2>3, <2>4, <2>5, <2>6 DEF TypeOK
<1>3a. Shapes
  BY <1>3, LoadAssumption DEF Shapes
<1>4. Sending /\ Receiving /\ Watching
  BY <1>2, LoadAssumption DEF Sending, Receiving, Watching, Taking, Second, Holds
<1>5. Pacing /\ OpenAreCounted
  BY <1>1, LoadAssumption DEF Pacing, OpenAreCounted
<1>6. Apart /\ SamplesAreTrue
  BY <1>1 DEF Apart, SamplesAreTrue
<1>. QED  BY <1>3a, <1>4, <1>5, <1>6 DEF LoadInv

LEMMA PaceInv == ASSUME LoadInv, Pace PROVE LoadInv'
<1>. USE DEF LoadInv, Pace, generator, kernel, history
<1>1. Open' = Open /\ \A fd : Holds(fd)' = Holds(fd) /\ Of(fd)' = Of(fd)
  BY DEF Open, Holds, Of
<1>2. /\ sender' \in SenderType /\ sender'.at = "connect"
      /\ sender'.fd = sender.fd /\ sender'.i = sender.i /\ sender'.req = sender.req
  BY SenderMoves
<1>3. Shapes'
  BY <1>2, LoadAssumption DEF Shapes, TypeOK, Pacing
<1>4. Sending' /\ Receiving' /\ Watching'
  BY <1>1, <1>2 DEF Sending, Receiving, Watching, Taking, KindIs
<1>5. Pacing' /\ OpenAreCounted'
  BY <1>1, <1>2, OpenIsFinite, LoadAssumption DEF Pacing, OpenAreCounted, Shapes, TypeOK
<1>6. Apart' /\ SamplesAreTrue'
  BY <1>1, <1>2 DEF Apart, SamplesAreTrue
<1>. QED  BY <1>3, <1>4, <1>5, <1>6

LEMMA ConnectInv == ASSUME LoadInv, Connect PROVE LoadInv'
<1>. USE DEF LoadInv
<1>1. CASE /\ conn' = [conn EXCEPT ![LowestFree] = "waiting"]
           /\ request' = [request EXCEPT ![LowestFree] = Nothing]
           /\ sender' = [sender EXCEPT !.at = "count", !.fd = LowestFree]
           /\ UNCHANGED faults
  <2>. DEFINE new == LowestFree
  <2>1. new \in Fd /\ new \notin Open /\ new \notin watched
    BY LowestIsFree DEF OpenAreCounted, Watching
  <2>. HIDE DEF new
  <2>2. /\ Open' = Open \union {new} /\ Cardinality(Open') = Cardinality(Open) + 1
        /\ Cardinality(Open) \in Nat
    <3>1. Open' = Open \union {new}
      BY <1>1, <2>1 DEF Open, Shapes, TypeOK, new
    <3>. QED  BY <2>1, <3>1, OpenIsFinite, FS_AddElement
  <2>3. /\ sender.at = "connect" /\ sender'.at = "count" /\ sender'.fd = new
        /\ sender'.i = sender.i /\ sender'.req = sender.req /\ sender' \in SenderType
    BY <1>1, <2>1 DEF Connect, Shapes, TypeOK, SenderType, new
  <2>4. /\ request'[new] = Nothing /\ \A fd \in Fd \ {new} : request'[fd] = request[fd]
        /\ request' \in [Fd -> {Nothing} \union {<<r>> : r \in Request}]
    BY <1>1, <2>1 DEF Shapes, new
  <2>5. UNCHANGED <<program, receiver, generator, watched, clock, answered>>
    BY DEF Connect
  <2>. USE <2>5 DEF generator
  <2>6. Shapes'
    <3>1. conn' \in [Fd -> {"closed", "waiting", "answered", "shut", "reset"}]
      BY <1>1 DEF Shapes, TypeOK
    <3>. QED  BY <1>1, <2>3, <2>4, <3>1 DEF Shapes, TypeOK
  <2>7. Sending'
    BY <2>1, <2>2, <2>3 DEF Sending
  <2>8. Receiving'
    BY <2>1, <2>4 DEF Receiving, Taking, Of, Watching, Open
  <2>9. Watching'
    BY <2>1, <2>2, <2>4 DEF Watching, Taking, KindIs, Holds, Of, Open
  <2>10. Pacing' /\ OpenAreCounted'
    BY <2>2, <2>3, LoadAssumption DEF Pacing, OpenAreCounted, Shapes, TypeOK
  <2>11. Apart'
    BY <2>1, <2>2, <2>3, <2>4 DEF Apart, Holds, Of, Open
  <2>12. SamplesAreTrue'
    BY <2>1, <2>4 DEF SamplesAreTrue, Receiving, Taking, Watching, Open
  <2>. QED  BY <2>6, <2>7, <2>8, <2>9, <2>10, <2>11, <2>12
<1>2. CASE Fails /\ NextRequest /\ UNCHANGED <<conn, request>>
  <2>1. Open' = Open /\ \A fd : Holds(fd)' = Holds(fd) /\ Of(fd)' = Of(fd)
    BY <1>2 DEF Open, Holds, Of
  <2>2. /\ sender.at = "connect" /\ sender'.at = "pace"
        /\ sender'.i = sender.i + 1 /\ sender'.req = sender.req
    BY <1>2 DEF Connect, NextRequest, Shapes, TypeOK, SenderType
  <2>3. UNCHANGED <<program, receiver, generator, watched, clock, answered, conn, request>>
    BY <1>2 DEF Connect
  <2>. USE <2>3 DEF generator
  <2>4. Shapes'
    <3>1. sender' \in SenderType
      <4>1. sender \in SenderType /\ sender.i + 1 \in 0 .. Total
        BY <2>2, LoadAssumption DEF Shapes, TypeOK, SenderType
      <4>. QED  BY <1>2, <4>1 DEF NextRequest, SenderType
    <3>2. faults' \in 0 .. MaxFaults
      BY <1>2, LoadAssumption DEF Fails, Shapes, TypeOK
    <3>. QED  BY <2>2, <3>1, <3>2 DEF Shapes, TypeOK
  <2>5. Sending' /\ Receiving' /\ Watching'
    BY <2>1, <2>2 DEF Sending, Receiving, Watching, Taking, KindIs
  <2>6. Pacing' /\ OpenAreCounted'
    BY <2>1, <2>2, LoadAssumption DEF Pacing, OpenAreCounted, Shapes, TypeOK
  <2>7. Apart'
    BY <2>1, <2>2, IndicesAreInt DEF Apart
  <2>8. SamplesAreTrue'
    BY DEF SamplesAreTrue
  <2>. QED  BY <2>4, <2>5, <2>6, <2>7, <2>8
<1>. QED  BY <1>1, <1>2 DEF Connect

LEMMA CountInv == ASSUME LoadInv, Count PROVE LoadInv'
<1>. USE DEF LoadInv, Count, kernel, history
<1>1. Open' = Open /\ \A fd : Holds(fd)' = Holds(fd) /\ Of(fd)' = Of(fd)
  BY DEF Open, Holds, Of
<1>2. /\ sender' \in SenderType
      /\ sender'.at = IF program = "shop" THEN "choose" ELSE "send"
      /\ sender'.fd = sender.fd /\ sender'.i = sender.i /\ sender'.req = sender.req
  BY SenderMoves
<1>3. Shapes'
  BY <1>2, LoadAssumption DEF Shapes, TypeOK, Pacing
<1>4. Sending' /\ Receiving' /\ Watching'
  BY <1>1, <1>2 DEF Sending, Receiving, Watching, Taking, KindIs, Shapes, TypeOK
<1>5. Pacing' /\ OpenAreCounted'
  BY <1>1, <1>2, OpenIsFinite, LoadAssumption DEF Pacing, OpenAreCounted, Shapes, TypeOK
<1>6. Apart' /\ SamplesAreTrue'
  BY <1>1, <1>2 DEF Apart, SamplesAreTrue
<1>. QED  BY <1>3, <1>4, <1>5, <1>6

LEMMA ChooseInv == ASSUME LoadInv, Choose PROVE LoadInv'
<1>. USE DEF LoadInv, Choose, kernel, history
<1>1. Open' = Open /\ \A fd : Holds(fd)' = Holds(fd) /\ Of(fd)' = Of(fd)
  BY DEF Open, Holds, Of
<1>2. sender.fd \in Fd /\ sender.fd \in Open \ watched /\ sender.ch \in Kind
  BY DEF Sending, Open, Shapes, TypeOK, SenderType, Kind
<1>3. /\ sender' \in SenderType /\ sender'.at = "send" /\ sender'.fd = sender.fd
      /\ sender'.i = sender.i /\ sender'.req = RequestOf(sender.ch)
  <2>1. PICK ch \in Drawn : sender' = [sender EXCEPT !.at = "send",
            !.req = RequestOf(sender.ch), !.ch = ch]
    OBVIOUS
  <2>2. sender \in SenderType /\ ch \in 0 .. 4
    BY LoadAssumption DEF Shapes, TypeOK
  <2>3. RequestOf(sender.ch) \in {RequestOf(kind) : kind \in Kind}
    BY <1>2
  <2>. QED  BY <2>1, <2>2, <2>3 DEF SenderType
<1>4. /\ fdtab' \in [Fd -> EntryType] /\ fdtab'[sender.fd].request_type = sender.ch
      /\ \A g \in Fd : /\ fdtab'[g].send_ns = fdtab[g].send_ns
                       /\ fdtab'[g].active = fdtab[g].active
      /\ \A g \in Fd \ {sender.fd} : fdtab'[g] = fdtab[g]
  BY <1>2 DEF Shapes, TypeOK, EntryType
<1>5. Shapes'
  BY <1>3, <1>4 DEF Shapes, TypeOK
<1>6. Sending'
  BY <1>1, <1>2, <1>3, <1>4 DEF Sending, KindIs
<1>7. Receiving'
  BY <1>1 DEF Receiving, Taking
<1>8. Watching'
  BY <1>1, <1>2, <1>4 DEF Watching, Taking, KindIs, Open
<1>9. Pacing' /\ OpenAreCounted'
  BY <1>1, <1>3 DEF Pacing, OpenAreCounted
<1>10. Apart' /\ SamplesAreTrue'
  BY <1>1, <1>3 DEF Apart, SamplesAreTrue
<1>. QED  BY <1>5, <1>6, <1>7, <1>8, <1>9, <1>10

LEMMA SendInv == ASSUME LoadInv, Send PROVE LoadInv'
<1>. USE DEF LoadInv
<1>0. /\ UNCHANGED <<program, receiver, generator, kernel, answered, faults>>
      /\ sender.at = "send"
  BY DEF Send
<1>1. CASE /\ request' = [request EXCEPT ![sender.fd] =
                <<[i |-> sender.i, sent |-> clock, req |-> sender.req]>>]
           /\ Goto("stamp")
  <2>. DEFINE own == sender.fd
              new == [i |-> sender.i, sent |-> clock, req |-> sender.req]
  <2>1. own \in Fd /\ own \in Open \ watched /\ KindIs(own, new.req)
    BY <1>0 DEF Sending, Open
  <2>2. new \in Request
    BY <1>0, LoadAssumption DEF Shapes, TypeOK, SenderType, Request
  <2>. HIDE DEF new
  <2>3. /\ request'[own] = <<new>> /\ \A fd \in Fd \ {own} : request'[fd] = request[fd]
        /\ request' \in [Fd -> {Nothing} \union {<<r>> : r \in Request}]
    BY <1>1, <2>1, <2>2 DEF Shapes, new
  <2>4. /\ Holds(own)' /\ Of(own)' = new
        /\ \A fd \in Fd : fd # own => Holds(fd)' = Holds(fd) /\ Of(fd)' = Of(fd)
        /\ \A fd \in Fd : fd = own => Of(fd)' = new
    <3>1. sender'.fd = own
      BY <1>1 DEF Goto, Shapes, TypeOK, SenderType
    <3>. QED  BY <2>3, <3>1 DEF Holds, Of, Nothing
  <2>5. /\ sender' \in SenderType /\ sender'.at = "stamp" /\ sender'.fd = own
        /\ sender'.i = sender.i /\ sender'.req = sender.req
    BY <1>1 DEF Goto, Shapes, TypeOK, SenderType
  <2>6. Open' = Open
    BY <1>0 DEF Open, kernel
  <2>. USE <1>0 DEF generator, kernel
  <2>7. Shapes'
    BY <2>3, <2>5 DEF Shapes, TypeOK
  <2>8. Sending'
    BY <2>1, <2>4, <2>5, <2>6 DEF Sending, KindIs
  <2>9. Receiving'
    BY <2>1, <2>4 DEF Receiving, Taking, Watching, Open
  <2>10. Watching'
    <3>1. new.sent <= clock
      BY LoadAssumption DEF new, Shapes, TypeOK, Second
    <3>2. \A fd \in watched : fd \in Fd \ {own}
      BY <2>1 DEF Watching, Open
    <3>3. \A fd \in Fd : Holds(fd)' => Of(fd)'.sent <= clock
      BY <2>1, <2>4, <3>1 DEF Watching
    <3>. QED  BY <2>4, <2>6, <3>2, <3>3 DEF Watching, Taking, KindIs
  <2>11. Pacing' /\ OpenAreCounted'
    BY <2>5, <2>6 DEF Pacing, OpenAreCounted
  <2>12. Apart'
    BY <2>1, <2>4, <2>5, <2>6, IndicesAreInt DEF Apart, Open, new
  <2>13. SamplesAreTrue'
    BY <2>1, <2>3 DEF SamplesAreTrue, Receiving, Taking, Watching, Open
  <2>. QED  BY <2>7, <2>8, <2>9, <2>10, <2>11, <2>12, <2>13
<1>2. CASE Goto("undo") /\ UNCHANGED request
  <2>1. Open' = Open /\ \A fd : Holds(fd)' = Holds(fd) /\ Of(fd)' = Of(fd)
    BY <1>0, <1>2 DEF Open, Holds, Of, kernel
  <2>2. /\ sender' \in SenderType /\ sender'.at = "undo" /\ sender'.fd = sender.fd
        /\ sender'.i = sender.i /\ sender'.req = sender.req
    BY <1>2 DEF Goto, Shapes, TypeOK, SenderType
  <2>. USE <1>0, <1>2 DEF generator, kernel
  <2>3. Shapes'
    BY <2>2 DEF Shapes, TypeOK
  <2>4. Sending' /\ Receiving' /\ Watching'
    BY <2>1, <2>2 DEF Sending, Receiving, Watching, Taking, KindIs
  <2>5. Pacing' /\ OpenAreCounted'
    BY <2>1, <2>2 DEF Pacing, OpenAreCounted
  <2>6. Apart' /\ SamplesAreTrue'
    BY <2>1, <2>2 DEF Apart, SamplesAreTrue
  <2>. QED  BY <2>3, <2>4, <2>5, <2>6
<1>. QED  BY <1>1, <1>2 DEF Send

LEMMA StampInv == ASSUME LoadInv, Stamp PROVE LoadInv'
<1>. USE DEF LoadInv, Stamp, Goto, kernel, history
<1>0. Open' = Open /\ \A fd : Holds(fd)' = Holds(fd) /\ Of(fd)' = Of(fd)
  BY DEF Open, Holds, Of
<1>1. /\ sender.fd \in Fd /\ sender.fd \in Open \ watched /\ clock \in Second
      /\ Holds(sender.fd) /\ Of(sender.fd) \in Request
  BY HeldIsRequest DEF Sending, Open, Shapes, TypeOK
<1>2. /\ sender' = [sender EXCEPT !.at = "add"] /\ sender'.at = "add"
      /\ sender'.fd = sender.fd /\ sender'.i = sender.i /\ sender'.req = sender.req
  BY DEF Shapes, TypeOK, SenderType
<1>3. /\ fdtab' \in [Fd -> EntryType]
      /\ fdtab'[sender.fd].send_ns = clock /\ fdtab'[sender.fd].active
      /\ \A g \in Fd : fdtab'[g].request_type = fdtab[g].request_type
      /\ \A g \in Fd \ {sender.fd} : fdtab'[g] = fdtab[g]
  BY <1>1, SetEntry
<1>4. Shapes'
  <2>1. sender' \in SenderType
    BY <1>2 DEF Shapes, TypeOK, SenderType
  <2>2. TypeOK'
    BY <1>3, <2>1 DEF Shapes, TypeOK
  <2>. QED  BY <1>2, <2>2 DEF Shapes
<1>5. Sending'
  <2>1. Of(sender.fd).sent <= clock
    BY <1>1 DEF Watching
  <2>. QED  BY <1>0, <1>1, <1>2, <1>3, <2>1 DEF Sending, KindIs
<1>6. Receiving'
  BY <1>0 DEF Receiving, Taking
<1>7. Watching'
  <2>1. \A fd \in Fd : fdtab'[fd].send_ns <= clock
    BY <1>1, <1>3, LoadAssumption DEF Watching, Second
  <2>. QED  BY <1>0, <1>1, <1>3, <2>1 DEF Watching, Taking, KindIs, Open
<1>8. Pacing' /\ OpenAreCounted'
  BY <1>0, <1>2 DEF Pacing, OpenAreCounted
<1>9. Apart'
  BY <1>0, <1>2 DEF Apart
<1>10. SamplesAreTrue'
  BY DEF SamplesAreTrue
<1>. QED  BY <1>4, <1>5, <1>6, <1>7, <1>8, <1>9, <1>10

LEMMA AddInv == ASSUME LoadInv, Add PROVE LoadInv'
<1>. USE DEF LoadInv
<1>0. /\ UNCHANGED <<program, receiver, generator, conn, clock, request, answered>>
      /\ sender.at = "add"
  BY DEF Add
<1>. USE <1>0 DEF generator
<1>1. Open' = Open /\ \A fd : Holds(fd)' = Holds(fd) /\ Of(fd)' = Of(fd)
  BY DEF Open, Holds, Of
<1>2. CASE watched' = watched \union {sender.fd} /\ NextRequest /\ UNCHANGED faults
  <2>1. /\ sender' \in SenderType /\ sender'.at = "pace"
        /\ sender'.i = sender.i + 1 /\ sender'.req = sender.req
    BY <1>2, SenderTurns
  <2>2. sender.fd \in Open \ watched /\ Open \subseteq Fd
    BY DEF Sending, Open
  <2>3. Shapes'
    BY <1>2, <2>1, <2>2 DEF Shapes, TypeOK
  <2>4. Sending' /\ Receiving'
    BY <1>1, <1>2, <2>1, <2>2 DEF Sending, Receiving, Taking
  <2>5. Watching'
    BY <1>1, <1>2, <2>2 DEF Watching, Sending, Taking, KindIs
  <2>6. Pacing' /\ OpenAreCounted'
    BY <1>1, <2>1 DEF Pacing, OpenAreCounted
  <2>7. Apart' /\ SamplesAreTrue'
    BY <1>1, <2>1, IndicesAreInt DEF Apart, SamplesAreTrue
  <2>. QED  BY <2>3, <2>4, <2>5, <2>6, <2>7
<1>3. CASE Fails /\ Goto("clear") /\ UNCHANGED watched
  <2>1. /\ sender' \in SenderType /\ sender'.at = "clear" /\ sender'.fd = sender.fd
        /\ sender'.i = sender.i /\ sender'.req = sender.req
    BY <1>3, SenderMoves
  <2>2. faults' \in 0 .. MaxFaults
    BY <1>3, LoadAssumption DEF Fails, Shapes, TypeOK
  <2>3. Shapes'
    BY <1>3, <2>1, <2>2 DEF Shapes, TypeOK
  <2>4. Sending' /\ Receiving' /\ Watching'
    BY <1>1, <1>3, <2>1 DEF Sending, Receiving, Watching, Taking, KindIs
  <2>5. Pacing' /\ OpenAreCounted'
    BY <1>1, <2>1 DEF Pacing, OpenAreCounted
  <2>6. Apart' /\ SamplesAreTrue'
    BY <1>1, <2>1 DEF Apart, SamplesAreTrue
  <2>. QED  BY <2>3, <2>4, <2>5, <2>6
<1>. QED  BY <1>2, <1>3 DEF Add

LEMMA ClearStampInv == ASSUME LoadInv, ClearStamp PROVE LoadInv'
<1>. USE DEF LoadInv, ClearStamp, kernel, history
<1>1. Open' = Open /\ \A fd : Holds(fd)' = Holds(fd) /\ Of(fd)' = Of(fd)
  BY DEF Open, Holds, Of
<1>2. /\ sender' \in SenderType /\ sender'.at = "undo"
      /\ sender'.fd = sender.fd /\ sender'.i = sender.i /\ sender'.req = sender.req
  BY SenderMoves
<1>3. sender.fd \in Fd /\ sender.fd \in Open \ watched
  BY DEF Sending, Open
<1>4. /\ fdtab' \in [Fd -> EntryType]
      /\ \A g \in Fd : fdtab'[g].send_ns = fdtab[g].send_ns
      /\ \A g \in Fd \ {sender.fd} : fdtab'[g] = fdtab[g]
  BY <1>3, ClearEntry
<1>5. Shapes'
  BY <1>2, <1>4 DEF Shapes, TypeOK
<1>6. Sending' /\ Receiving'
  BY <1>1, <1>2 DEF Sending, Receiving, Taking
<1>7. Watching'
  BY <1>1, <1>3, <1>4 DEF Watching, Taking, KindIs, Open
<1>8. Pacing' /\ OpenAreCounted'
  BY <1>1, <1>2 DEF Pacing, OpenAreCounted
<1>9. Apart' /\ SamplesAreTrue'
  BY <1>1, <1>2 DEF Apart, SamplesAreTrue
<1>. QED  BY <1>5, <1>6, <1>7, <1>8, <1>9

LEMMA UndoCloseInv == ASSUME LoadInv, UndoClose PROVE LoadInv'
<1>. USE DEF LoadInv, UndoClose, generator, history
<1>1. \A fd : Holds(fd)' = Holds(fd) /\ Of(fd)' = Of(fd)
  BY DEF Holds, Of
<1>2. /\ sender' \in SenderType /\ sender'.at = "uncount"
      /\ sender'.fd = sender.fd /\ sender'.i = sender.i /\ sender'.req = sender.req
  BY SenderMoves
<1>3. sender.fd \in Open /\ sender.fd \notin watched /\ Open' = Open \ {sender.fd}
  BY DEF Sending, Open, Shapes, TypeOK
<1>4. /\ Cardinality(Open) \in Nat /\ Cardinality(Open') = Cardinality(Open) - 1
  BY <1>3, OpenIsFinite, FS_RemoveElement
<1>5. Shapes'
  BY <1>2 DEF Shapes, TypeOK
<1>6. Sending' /\ Receiving' /\ Watching'
  BY <1>1, <1>2, <1>3 DEF Sending, Receiving, Watching, Taking, KindIs
<1>7. Pacing' /\ OpenAreCounted'
  BY <1>2, <1>4, LoadAssumption DEF Pacing, OpenAreCounted, Shapes, TypeOK
<1>8. Apart' /\ SamplesAreTrue'
  BY <1>1, <1>2, <1>3 DEF Apart, SamplesAreTrue
<1>. QED  BY <1>5, <1>6, <1>7, <1>8

LEMMA UncountInv == ASSUME LoadInv, Uncount PROVE LoadInv'
<1>. USE DEF LoadInv, Uncount, kernel, history
<1>1. Open' = Open /\ \A fd : Holds(fd)' = Holds(fd) /\ Of(fd)' = Of(fd)
  BY DEF Open, Holds, Of
<1>2. /\ sender' \in SenderType /\ sender'.at = "pace"
      /\ sender'.i = sender.i + 1 /\ sender'.req = sender.req
  BY SenderTurns
<1>3. Shapes'
  BY <1>2, OpenIsFinite, LoadAssumption DEF Shapes, TypeOK, OpenAreCounted
<1>4. Sending' /\ Receiving' /\ Watching'
  BY <1>1, <1>2 DEF Sending, Receiving, Watching, Taking, KindIs
<1>5. Pacing' /\ OpenAreCounted'
  BY <1>1, <1>2, OpenIsFinite, LoadAssumption DEF Pacing, OpenAreCounted, Shapes, TypeOK
<1>6. Apart' /\ SamplesAreTrue'
  <2>1. Apart'
    BY <1>1, <1>2, IndicesAreInt DEF Apart
  <2>2. SamplesAreTrue'
    BY DEF SamplesAreTrue
  <2>. QED  BY <2>1, <2>2
<1>. QED  BY <1>3, <1>4, <1>5, <1>6

LEMMA SenderEndsInv == ASSUME LoadInv, SenderEnds PROVE LoadInv'
<1>. USE DEF LoadInv, SenderEnds, kernel, history
<1>1. Open' = Open /\ \A fd : Holds(fd)' = Holds(fd) /\ Of(fd)' = Of(fd)
  BY DEF Open, Holds, Of
<1>2. /\ sender' \in SenderType /\ sender'.at = "ended"
      /\ sender'.fd = sender.fd /\ sender'.i = sender.i /\ sender'.req = sender.req
  BY SenderMoves
<1>3. Shapes'
  BY <1>2, LoadAssumption DEF Shapes, TypeOK, Pacing
<1>4. Sending' /\ Receiving' /\ Watching'
  BY <1>1, <1>2 DEF Sending, Receiving, Watching, Taking, KindIs
<1>5. Pacing' /\ OpenAreCounted'
  BY <1>1, <1>2, OpenIsFinite, LoadAssumption DEF Pacing, OpenAreCounted, Shapes, TypeOK
<1>6. Apart' /\ SamplesAreTrue'
  BY <1>1, <1>2 DEF Apart, SamplesAreTrue
<1>. QED  BY <1>3, <1>4, <1>5, <1>6

(***************************************************************************)
(* The steps of the receiver.                                              *)
(***************************************************************************)
LEMMA WaitInv == ASSUME LoadInv, Wait PROVE LoadInv'
<1>. USE DEF LoadInv
<1>0. /\ UNCHANGED <<program, sender, generator, kernel, request, answered>>
      /\ receiver.at = "wait"
  BY DEF Wait
<1>1. Open' = Open /\ \A fd : Holds(fd)' = Holds(fd) /\ Of(fd)' = Of(fd)
  BY <1>0 DEF Open, Holds, Of, kernel
<1>2. PICK E \in SUBSET watched : receiver' = [receiver EXCEPT !.at = "next", !.events = E]
  <2>1. Ready \subseteq watched
    BY DEF Ready
  <2>. QED  BY <2>1 DEF Wait
<1>3. /\ receiver' \in ReceiverType /\ receiver'.at = "next" /\ receiver'.events = E
      /\ receiver'.fd = receiver.fd /\ receiver'.send_ns = receiver.send_ns
  BY <1>2 DEF Shapes, TypeOK, ReceiverType
<1>4. faults' \in 0 .. MaxFaults
  <2>1. CASE UNCHANGED faults
    BY <2>1 DEF Shapes, TypeOK
  <2>2. CASE Fails
    BY <2>2, LoadAssumption DEF Fails, Shapes, TypeOK
  <2>. QED  BY <2>1, <2>2 DEF Wait
<1>. USE <1>0 DEF generator, kernel
<1>5. Shapes'
  BY <1>3, <1>4 DEF Shapes, TypeOK
<1>6. Sending' /\ Receiving' /\ Watching'
  BY <1>1, <1>3 DEF Sending, Receiving, Watching, Taking, KindIs
<1>7. Pacing' /\ OpenAreCounted'
  BY <1>1, <1>3 DEF Pacing, OpenAreCounted
<1>8. Apart' /\ SamplesAreTrue'
  BY <1>1, <1>3 DEF Apart, SamplesAreTrue
<1>. QED  BY <1>5, <1>6, <1>7, <1>8


LEMMA NextEventInv == ASSUME LoadInv, NextEvent PROVE LoadInv'
<1>. USE DEF LoadInv
<1>0. /\ UNCHANGED <<program, sender, inflight, sender_done, samples, report, kernel, history>>
      /\ receiver.at = "next"
  BY DEF NextEvent
<1>1. Open' = Open /\ \A fd : Holds(fd)' = Holds(fd) /\ Of(fd)' = Of(fd)
  BY <1>0 DEF Open, Holds, Of, kernel, history
<1>. USE <1>0 DEF kernel, history
<1>2. ASSUME NEW fd \in receiver.events, FdtabClear(fd),
             receiver' = [receiver EXCEPT !.at = "recv", !.events = @ \ {fd},
                    !.fd = fd, !.have_ts = fdtab[fd].active,
                    !.send_ns = IF fdtab[fd].active THEN fdtab[fd].send_ns ELSE 0]
      PROVE  LoadInv'
  <2>1. /\ fd \in Fd /\ fd \in watched /\ fdtab[fd].active /\ fdtab[fd] \in EntryType
        /\ Of(fd).sent <= fdtab[fd].send_ns /\ fdtab[fd].send_ns <= clock
    BY DEF Receiving, Watching, Taking, Shapes, TypeOK
  <2>2. /\ receiver' \in ReceiverType /\ receiver'.at = "recv" /\ receiver'.fd = fd
        /\ receiver'.events = receiver.events \ {fd} /\ receiver'.have_ts
        /\ receiver'.send_ns = fdtab[fd].send_ns
    <3>1. receiver' = [receiver EXCEPT !.at = "recv", !.events = @ \ {fd}, !.fd = fd,
                            !.have_ts = TRUE, !.send_ns = fdtab[fd].send_ns]
      BY <1>2, <2>1 DEF EntryType
    <3>2. /\ receiver \in ReceiverType /\ receiver.events \ {fd} \in SUBSET Fd
          /\ fdtab[fd].send_ns \in Second \union {0}
      BY <2>1 DEF Shapes, TypeOK, ReceiverType, EntryType
    <3>. QED  BY <2>1, <3>1, <3>2 DEF ReceiverType
  <2>3. /\ fdtab' \in [Fd -> EntryType]
        /\ \A g \in Fd : /\ fdtab'[g].request_type = fdtab[g].request_type
                         /\ fdtab'[g].send_ns = fdtab[g].send_ns
        /\ \A g \in Fd \ {fd} : fdtab'[g] = fdtab[g]
    BY <1>2, <2>1, ClearEntry
  <2>4. Shapes'
    BY <2>2, <2>3 DEF Shapes, TypeOK
  <2>5. Sending'
    <3>1. \A own \in Open \ watched : own \in Fd \ {fd}
      BY <2>1 DEF Open
    <3>. QED  BY <1>1, <2>3, <3>1 DEF Sending, KindIs, Open
  <2>6. Receiving'
    BY <1>1, <2>1, <2>2 DEF Receiving, Taking
  <2>7. Watching'
    <3>1. watched \subseteq Fd
      BY DEF Shapes, TypeOK
    <3>. QED  BY <1>1, <2>2, <2>3, <3>1 DEF Watching, Taking, KindIs
  <2>8. Pacing' /\ OpenAreCounted'
    BY <1>1, <2>2 DEF Pacing, OpenAreCounted
  <2>9. Apart' /\ SamplesAreTrue'
    BY <1>1, <2>2 DEF Apart, SamplesAreTrue
  <2>. QED  BY <2>4, <2>5, <2>6, <2>7, <2>8, <2>9
<1>3. ASSUME UNCHANGED fdtab, receiver' = [receiver EXCEPT !.fd = 0, !.at =
                IF sender_done /\ inflight = 0 THEN "ended" ELSE "wait"]
      PROVE  LoadInv'
  <2>1. /\ receiver' \in ReceiverType /\ receiver'.at \in {"ended", "wait"}
        /\ receiver'.events = receiver.events /\ receiver'.send_ns = receiver.send_ns
    BY <1>3 DEF Shapes, TypeOK, ReceiverType
  <2>2. Shapes'
    BY <1>3, <2>1 DEF Shapes, TypeOK
  <2>3. Sending' /\ Receiving' /\ Watching'
    BY <1>1, <1>3, <2>1 DEF Sending, Receiving, Watching, Taking, KindIs
  <2>4. Pacing' /\ OpenAreCounted'
    BY <1>1, <2>1 DEF Pacing, OpenAreCounted
  <2>5. Apart' /\ SamplesAreTrue'
    BY <1>1, <2>1 DEF Apart, SamplesAreTrue
  <2>. QED  BY <2>2, <2>3, <2>4, <2>5
<1>. QED  BY <1>2, <1>3 DEF NextEvent


LEMMA RecvInv == ASSUME LoadInv, Recv PROVE LoadInv'
<1>. USE DEF LoadInv
<1>0. /\ UNCHANGED <<program, sender, inflight, sender_done, samples, report, kernel,
                     request, faults>>
      /\ receiver.at = "recv"
  BY DEF Recv
<1>1. Open' = Open /\ \A fd : Holds(fd)' = Holds(fd) /\ Of(fd)' = Of(fd)
  BY <1>0 DEF Open, Holds, Of, kernel
<1>. USE <1>0 DEF kernel
<1>2. /\ receiver.fd \in Fd /\ receiver.fd \in watched \ receiver.events
      /\ Holds(receiver.fd) /\ Of(receiver.fd) \in Request /\ receiver.have_ts
      /\ receiver.send_ns \in Second \union {0}
      /\ Of(receiver.fd).sent <= receiver.send_ns
  BY HeldIsRequest DEF Receiving, Watching, Taking, Shapes, TypeOK, ReceiverType
<1>3. PICK at :
        /\ receiver' = [receiver EXCEPT !.at = at]
        /\ \/ /\ at = "sample" /\ UNCHANGED fdtab
              /\ answered' = answered \union {Of(receiver.fd).i}
           \/ at = "next" /\ FdtabSet(receiver.fd, receiver.send_ns) /\ UNCHANGED answered
           \/ at = "close" /\ UNCHANGED <<answered, fdtab>>
  BY <1>2 DEF Recv, Of
<1>4. /\ at \in {"sample", "next", "close"}
      /\ receiver' \in ReceiverType /\ receiver'.at = at /\ receiver'.fd = receiver.fd
      /\ receiver'.events = receiver.events /\ receiver'.have_ts = receiver.have_ts
      /\ receiver'.send_ns = receiver.send_ns
  BY <1>3 DEF Shapes, TypeOK, ReceiverType
<1>5. /\ fdtab' \in [Fd -> EntryType]
      /\ \A g \in Fd : fdtab'[g].request_type = fdtab[g].request_type
      /\ \A g \in Fd \ {receiver.fd} : fdtab'[g] = fdtab[g]
      /\ \/ UNCHANGED fdtab /\ at # "next"
         \/ /\ fdtab'[receiver.fd].send_ns = receiver.send_ns /\ fdtab'[receiver.fd].active
            /\ at = "next"
  <2>1. CASE UNCHANGED fdtab /\ at # "next"
    BY <2>1 DEF Shapes, TypeOK
  <2>2. CASE FdtabSet(receiver.fd, receiver.send_ns) /\ at = "next"
    BY <1>2, <2>2, SetEntry
  <2>. QED  BY <1>3, <2>1, <2>2
<1>6. /\ at = "sample" => answered' = answered \union {Of(receiver.fd).i}
      /\ at # "sample" => answered' = answered
  BY <1>3
<1>7. Shapes'
  <2>1. answered' \subseteq 0 .. Total - 1
    BY <1>2, <1>6 DEF Shapes, TypeOK, Request
  <2>. QED  BY <1>4, <1>5, <2>1 DEF Shapes, TypeOK
<1>8. Sending'
  <2>1. \A own \in Open \ watched : own \in Fd \ {receiver.fd}
    BY <1>2 DEF Open
  <2>. QED  BY <1>1, <1>5, <2>1 DEF Sending, KindIs, Open
<1>9. Receiving'
  BY <1>1, <1>2, <1>4 DEF Receiving, Taking
<1>10. Watching'
  <2>1. watched \subseteq Fd
    BY DEF Shapes, TypeOK
  <2>2. \A g \in Fd : fdtab'[g].send_ns <= clock
    BY <1>5 DEF Watching, Receiving
  <2>. QED  BY <1>1, <1>2, <1>4, <1>5, <2>1, <2>2 DEF Watching, Taking, KindIs
<1>11. Pacing' /\ OpenAreCounted'
  BY <1>1, <1>4 DEF Pacing, OpenAreCounted
<1>12. Apart'
  BY <1>1, <1>4 DEF Apart
<1>13. SamplesAreTrue'
  BY <1>4, <1>6 DEF SamplesAreTrue, Of
<1>. QED  BY <1>7, <1>8, <1>9, <1>10, <1>11, <1>12, <1>13


LEMMA SampleInv == ASSUME LoadInv, Sample PROVE LoadInv'
<1>. DEFINE own == receiver.fd
            new == [recv |-> clock, sent |-> receiver.send_ns,
                    type |-> fdtab[own].request_type, of |-> Of(own)]
            last == Len(samples) + 1
<1>. USE DEF LoadInv
<1>0. /\ UNCHANGED <<program, sender, fdtab, inflight, sender_done, report, kernel, history>>
      /\ receiver.at = "sample" /\ receiver' = [receiver EXCEPT !.at = "close"]
  BY DEF Sample
<1>1. Open' = Open /\ \A fd : Holds(fd)' = Holds(fd) /\ Of(fd)' = Of(fd)
  BY <1>0 DEF Open, Holds, Of, kernel, history
<1>. USE <1>0 DEF kernel, history
<1>2. /\ own \in Fd /\ own \in watched /\ own \in Open /\ Holds(own) /\ Of(own) \in Request
      /\ Of(own).sent <= receiver.send_ns /\ receiver.send_ns <= clock
      /\ KindIs(own, Of(own).req)
  BY HeldIsRequest DEF Receiving, Watching, Taking, Shapes, TypeOK
<1>3. new \in SampleType
  BY <1>2 DEF Shapes, TypeOK, ReceiverType, EntryType, SampleType
<1>4. /\ Len(samples) \in Nat /\ \A k \in 1 .. Len(samples) : samples[k] \in SampleType
      /\ \A k \in 1 .. Len(samples) : samples[k].of.i # Of(own).i
  BY <1>2 DEF Shapes, Apart
<1>5. Len(samples) < Total
  <2>. DEFINE index == [k \in 1 .. last |-> IF k = last THEN Of(own).i ELSE samples[k].of.i]
  <2>1. index \in [1 .. last -> 0 .. Total - 1]
    <3>1. \A k \in 1 .. last : k # last => k \in 1 .. Len(samples)
      BY <1>4
    <3>. QED  BY <1>2, <1>4, <3>1 DEF Request, SampleType
  <2>2. ASSUME NEW k \in 1 .. last, NEW l \in 1 .. last, k # l PROVE index[k] # index[l]
    <3>1. \A j \in 1 .. last : j # last => j \in 1 .. Len(samples)
      BY <1>4
    <3>. QED  BY <1>4, <2>2, <3>1 DEF SamplesAreTrue
  <2>. HIDE DEF index
  <2>3. /\ IsFiniteSet(1 .. last) /\ Cardinality(1 .. last) = last
        /\ IsFiniteSet(0 .. Total - 1) /\ Cardinality(0 .. Total - 1) = Total
    <3>1. 1 \in Int /\ last \in Int /\ 0 \in Int /\ Total - 1 \in Int /\ last >= 1
      BY <1>4, LoadAssumption
    <3>2. IsFiniteSet(1 .. last) /\ Cardinality(1 .. last) = last
      BY <3>1, FS_Interval
    <3>3. IsFiniteSet(0 .. Total - 1) /\ Cardinality(0 .. Total - 1) =
                IF 0 > Total - 1 THEN 0 ELSE Total - 1 - 0 + 1
      BY <3>1, FS_Interval
    <3>. QED  BY <3>2, <3>3, LoadAssumption
  <2>4. ~ (Total < last)
    <3>1. SUFFICES ASSUME Cardinality(0 .. Total - 1) < Cardinality(1 .. last) PROVE FALSE
      BY <2>3
    <3>2. \E k, l \in 1 .. last : k # l /\ index[k] = index[l]
      <4>. DEFINE S == 1 .. last  T == 0 .. Total - 1
      <4>1. /\ IsFiniteSet(S) /\ IsFiniteSet(T) /\ index \in [S -> T]
            /\ Cardinality(T) < Cardinality(S)
        BY <2>1, <2>3, <3>1
      <4>. HIDE DEF S, T
      <4>2. \E k, l \in S : k # l /\ index[k] = index[l]
        BY <4>1, FS_PigeonHole
      <4>. QED  BY <4>2 DEF S
    <3>. QED  BY <2>2, <3>2
  <2>. QED  BY <1>4, <2>4, LoadAssumption
<1>. HIDE DEF new
<1>6. /\ samples' = Append(samples, new) /\ samples' \in Seq(SampleType)
      /\ Len(samples') = last /\ samples'[last] = new
      /\ \A k \in 1 .. Len(samples) : samples'[k] = samples[k]
      /\ \A k \in 1 .. last : k # last => k \in 1 .. Len(samples)
  BY <1>3, <1>4, <1>5 DEF Sample, Shapes, new, Of
<1>7. /\ receiver' \in ReceiverType /\ receiver'.at = "close" /\ receiver'.fd = own
      /\ receiver'.events = receiver.events /\ receiver'.send_ns = receiver.send_ns
  BY DEF Shapes, TypeOK, ReceiverType
<1>8. Shapes'
  BY <1>4, <1>5, <1>6, <1>7, LoadAssumption DEF Shapes, TypeOK
<1>9. Sending' /\ Receiving' /\ Watching'
  BY <1>1, <1>7 DEF Sending, Receiving, Watching, Taking, KindIs
<1>10. Pacing' /\ OpenAreCounted'
  BY <1>1, <1>7 DEF Pacing, OpenAreCounted
<1>11. Apart'
  <2>1. Of(own).i < sender.i
    BY <1>2 DEF Apart, Sending
  <2>2. \A fd \in Open : Holds(fd) /\ fd # own => Of(fd).i # Of(own).i
    BY <1>2 DEF Apart
  <2>3. new.of = Of(own)
    BY DEF new
  <2>4. ASSUME NEW k \in 1 .. last
        PROVE  /\ samples'[k].of.i < sender.i
               /\ \A fd \in Open : Holds(fd) /\ fd # own => Of(fd).i # samples'[k].of.i
    BY <1>4, <1>6, <2>1, <2>2, <2>3 DEF Apart
  <2>. QED  BY <1>1, <1>6, <1>7, <2>4 DEF Apart
<1>12. SamplesAreTrue'
  <2>1. /\ new.of = Of(own) /\ new.of.sent <= new.sent /\ new.sent <= new.recv
        /\ new.of.req \in {RequestOf(new.type), GivenPath}
    BY <1>2 DEF new, KindIs
  <2>2. \A k \in 1 .. last :
            /\ samples'[k].of.sent <= samples'[k].sent
            /\ samples'[k].sent <= samples'[k].recv
            /\ samples'[k].of.req \in {RequestOf(samples'[k].type), GivenPath}
    BY <1>6, <2>1 DEF SamplesAreTrue
  <2>3. \A k, l \in 1 .. last : k # l => samples'[k].of.i # samples'[l].of.i
    BY <1>4, <1>6, <2>1 DEF SamplesAreTrue
  <2>4. answered = {samples[k].of.i : k \in 1 .. Len(samples)} \union {Of(own).i}
    BY DEF SamplesAreTrue, Of
  <2>5. {samples'[k].of.i : k \in 1 .. last} =
            {samples[k].of.i : k \in 1 .. Len(samples)} \union {Of(own).i}
    <3>1. 1 .. last = (1 .. Len(samples)) \union {last}
      BY <1>4
    <3>. QED  BY <1>6, <2>1, <3>1
  <2>6. answered' = {samples'[k].of.i : k \in 1 .. last}
    BY <2>4, <2>5 DEF history
  <2>. HIDE DEF LoadInv, last
  <2>. QED  BY <1>6, <1>7, <2>2, <2>3, <2>6 DEF SamplesAreTrue
<1>. QED  BY <1>8, <1>9, <1>10, <1>11, <1>12


LEMMA CloseInv == ASSUME LoadInv, Close PROVE LoadInv'
<1>. USE DEF LoadInv, Close, generator, history
<1>1. \A fd : Holds(fd)' = Holds(fd) /\ Of(fd)' = Of(fd)
  BY DEF Holds, Of
<1>2. /\ receiver' \in ReceiverType /\ receiver'.at = "uncount"
      /\ receiver'.events = receiver.events /\ receiver'.fd = receiver.fd
      /\ receiver'.send_ns = receiver.send_ns
  BY ReceiverMoves
<1>3. /\ receiver.fd \in Open /\ receiver.fd \in watched \ receiver.events
      /\ Open' = Open \ {receiver.fd}
  BY DEF Receiving, Taking, Watching, Open, Shapes, TypeOK
<1>4. /\ Cardinality(Open) \in Nat /\ Cardinality(Open') = Cardinality(Open) - 1
  BY <1>3, OpenIsFinite, FS_RemoveElement
<1>5. Shapes'
  BY <1>2 DEF Shapes, TypeOK
<1>6. Sending' /\ Receiving' /\ Watching'
  BY <1>1, <1>2, <1>3 DEF Sending, Receiving, Watching, Taking, KindIs
<1>7. Pacing' /\ OpenAreCounted'
  BY <1>2, <1>4, LoadAssumption DEF Pacing, OpenAreCounted, Shapes, TypeOK
<1>8. Apart' /\ SamplesAreTrue'
  BY <1>1, <1>2, <1>3 DEF Apart, SamplesAreTrue
<1>. QED  BY <1>5, <1>6, <1>7, <1>8

LEMMA CountDownInv == ASSUME LoadInv, CountDown PROVE LoadInv'
<1>. USE DEF LoadInv, CountDown, kernel, history
<1>1. Open' = Open /\ \A fd : Holds(fd)' = Holds(fd) /\ Of(fd)' = Of(fd)
  BY DEF Open, Holds, Of
<1>2. /\ receiver' \in ReceiverType /\ receiver'.at = "next"
      /\ receiver'.events = receiver.events /\ receiver'.fd = receiver.fd
      /\ receiver'.send_ns = receiver.send_ns
  BY ReceiverMoves
<1>3. Shapes'
  <2>1. sender.at = "count" => Cardinality(Open) # 0
    BY OpenIsFinite, FS_EmptySet DEF Sending
  <2>2. inflight' \in 0 .. MaxInflight
    BY <2>1, OpenIsFinite, LoadAssumption DEF Shapes, TypeOK, OpenAreCounted
  <2>. QED  BY <1>2, <2>2 DEF Shapes, TypeOK
<1>4. Sending' /\ Receiving' /\ Watching'
  BY <1>1, <1>2 DEF Sending, Receiving, Watching, Taking, KindIs
<1>5. Pacing' /\ OpenAreCounted'
  BY <1>1, <1>2, OpenIsFinite, LoadAssumption DEF Pacing, OpenAreCounted, Shapes, TypeOK
<1>6. Apart' /\ SamplesAreTrue'
  BY <1>1, <1>2 DEF Apart, SamplesAreTrue
<1>. QED  BY <1>3, <1>4, <1>5, <1>6

(***************************************************************************)
(* The steps of main, of the server and of the clock.                      *)
(***************************************************************************)
LEMMA MainInv == ASSUME LoadInv, Main PROVE LoadInv'
<1>. USE DEF LoadInv, kernel, history
<1>0. UNCHANGED <<program, sender, receiver, fdtab, inflight, sender_done, samples,
                  kernel, history>>
  BY DEF Main
<1>. USE <1>0
<1>1. Open' = Open /\ \A fd : Holds(fd)' = Holds(fd) /\ Of(fd)' = Of(fd)
  BY DEF Open, Holds, Of
<1>2. Shapes' /\ Sending' /\ Receiving' /\ Watching'
  BY <1>1 DEF Shapes, TypeOK, Sending, Receiving, Watching, Taking, KindIs
<1>3. Pacing' /\ OpenAreCounted' /\ Apart' /\ SamplesAreTrue'
  BY <1>1 DEF Pacing, OpenAreCounted, Apart, SamplesAreTrue
<1>. QED  BY <1>2, <1>3

LEMMA ServeInv == ASSUME LoadInv, NEW server \in Fd, Serve(server) PROVE LoadInv'
<1>. USE DEF LoadInv, Serve, generator, history
<1>1. Open' = Open /\ \A fd : Holds(fd)' = Holds(fd) /\ Of(fd)' = Of(fd)
  BY DEF Open, Holds, Of, Shapes, TypeOK
<1>2. Shapes' /\ Sending' /\ Receiving' /\ Watching'
  BY <1>1 DEF Shapes, TypeOK, Sending, Receiving, Watching, Taking, KindIs
<1>3. Pacing' /\ OpenAreCounted' /\ Apart' /\ SamplesAreTrue'
  BY <1>1 DEF Pacing, OpenAreCounted, Apart, SamplesAreTrue
<1>. QED  BY <1>2, <1>3

LEMMA TickInv == ASSUME LoadInv, Tick PROVE LoadInv'
<1>. USE DEF LoadInv, Tick, generator, history
<1>0. Open' = Open /\ \A fd : Holds(fd)' = Holds(fd) /\ Of(fd)' = Of(fd)
  BY DEF Open, Holds, Of
<1>1. clock \in Nat /\ clock' = clock + 1 /\ clock' \in Second
  BY LoadAssumption DEF Shapes, TypeOK, Second
<1>2. receiver.send_ns \in Nat /\ \A fd \in Fd : fdtab[fd].send_ns \in Nat
  BY LoadAssumption DEF Shapes, TypeOK, ReceiverType, EntryType, Second
<1>3. \A fd \in Fd : Holds(fd) => Of(fd).sent \in Nat
  BY HeldIsRequest, LoadAssumption DEF Request, Second
<1>4. Shapes'
  BY <1>1 DEF Shapes, TypeOK
<1>5. Sending'
  BY <1>0 DEF Sending, KindIs
<1>6. Receiving'
  BY <1>0, <1>1, <1>2 DEF Receiving, Taking
<1>7. Watching'
  BY <1>0, <1>1, <1>2, <1>3 DEF Watching, Taking, KindIs
<1>8. Pacing' /\ OpenAreCounted'
  BY <1>0 DEF Pacing, OpenAreCounted
<1>9. Apart' /\ SamplesAreTrue'
  BY <1>0 DEF Apart, SamplesAreTrue
<1>. QED  BY <1>4, <1>5, <1>6, <1>7, <1>8, <1>9

LEMMA StutterInv == ASSUME LoadInv, UNCHANGED vars PROVE LoadInv'
<1>. USE DEF LoadInv, vars, generator, kernel, history
<1>1. Open' = Open /\ \A fd : Holds(fd)' = Holds(fd) /\ Of(fd)' = Of(fd)
  BY DEF Open, Holds, Of
<1>2. Shapes' /\ Sending' /\ Receiving' /\ Watching'
  BY <1>1 DEF Shapes, TypeOK, Sending, Receiving, Watching, Taking, KindIs
<1>3. Pacing' /\ OpenAreCounted' /\ Apart' /\ SamplesAreTrue'
  BY <1>1 DEF Pacing, OpenAreCounted, Apart, SamplesAreTrue
<1>. QED  BY <1>2, <1>3

(***************************************************************************)
(* The inductive invariant, and what follows from it.                      *)
(***************************************************************************)
LEMMA SenderInv == ASSUME LoadInv, SenderStep PROVE LoadInv'
  BY PaceInv, ConnectInv, CountInv, ChooseInv, SendInv, StampInv, AddInv,
     ClearStampInv, UndoCloseInv, UncountInv, SenderEndsInv DEF SenderStep

LEMMA ReceiverInv == ASSUME LoadInv, ReceiverStep PROVE LoadInv'
  BY WaitInv, NextEventInv, RecvInv, SampleInv, CloseInv, CountDownInv
  DEF ReceiverStep, CleanUp

THEOREM Invariance == Spec => []LoadInv
<1>1. LoadInv /\ [Next]_vars => LoadInv'
  BY SenderInv, ReceiverInv, MainInv, ServeInv, TickInv, StutterInv DEF Next, Over
<1>. QED  BY <1>1, InitInv, PTL DEF Spec

(* The variables of the generator keep their types: no index of the result *)
(* arrays is past total_requests, and inflight never leaves its range.     *)
THEOREM TypeCorrect == Spec => []TypeOK
<1>1. LoadInv => TypeOK
  BY DEF LoadInv, Shapes
<1>. QED  BY <1>1, Invariance, PTL

(* sender_thread never has more than max_inflight connections open, though *)
(* each thread changes inflight at another moment than the descriptor.     *)
THEOREM Counted == Spec => []OpenAreCounted
<1>1. LoadInv => OpenAreCounted
  BY DEF LoadInv
<1>. QED  BY <1>1, Invariance, PTL

(* Each sample is of a request of its own, with the time and the kind of   *)
(* that request, however often its descriptor was used before; and no      *)
(* answer that was received is missing.                                    *)
THEOREM SamplesTrue == Spec => []SamplesAreTrue
<1>1. LoadInv => SamplesAreTrue
  BY DEF LoadInv
<1>. QED  BY <1>1, Invariance, PTL
=============================================================================
