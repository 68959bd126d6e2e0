---------------------------- MODULE LoadGenerator ----------------------------
(***************************************************************************)
(* The traffic generators.  A sending thread opens a connection for each   *)
(* request, at most max_inflight at a time, and hands it to epoll; a       *)
(* receiving thread takes the answers, times them and closes.  The threads *)
(* share fdtab, indexed by descriptor, and the counter inflight.  The two  *)
(* programs are the same but for the mix of requests: nf-trafficgen sends  *)
(* one, onlineboutique-trafficgen draws the next one each time.            *)
(* The sockets are external: the kernel gives the lowest free descriptor,  *)
(* the server answers, hangs up or resets as it likes, or never.  ctx.stop *)
(* is only set when main could not start a thread, and stays out.          *)
(***************************************************************************)
EXTENDS Integers, FiniteSets, SequencesExt, Reports

CONSTANTS
    Total,          \* total_requests.
    MaxInflight,    \* max_inflight.
    Drawn,          \* The kinds that are drawn after the first request.
    Seconds,        \* The bound of the clock, which starts at second 1.
    MaxFaults       \* The bound of the calls that fail.

Kind == 0 .. 5
Second == 1 .. Seconds
Fd == 1 .. MaxInflight + 1   \* One more than are to be open at a time.

ASSUME LoadAssumption ==
    /\ Total \in Nat \ {0} /\ MaxInflight \in Nat \ {0}
    /\ Seconds \in Nat \ {0} /\ MaxFaults \in Nat
    /\ Drawn \subseteq 0 .. 4 /\ Word > Seconds

VARIABLES
    program,        \* "shop" or "chain".
    sender,         \* at, i, ch, req and fd of sender_thread.
    receiver,       \* at, events, fd, have_ts and send_ns of receiver_thread.
    fdtab,          \* fdtab[fd]: send_ns, active, request_type.
    inflight,
    sender_done,
    samples,        \* What the first lat_idx places of the result arrays hold.
    report,         \* The files main writes; no field before that.
    \* The kernel and the server:
    conn,           \* conn[fd]: closed, waiting, answered, shut or reset.
    watched,        \* The descriptors in the epoll set.
    clock,
    \* History:
    request,        \* request[fd]: the request sent there; no field if none was.
    answered,       \* The requests whose answer was received.
    faults          \* The calls that failed.

generator == <<fdtab, inflight, sender_done, samples, report>>
kernel == <<conn, watched, clock>>
history == <<request, answered, faults>>
vars == <<program, sender, receiver, generator, kernel, history>>

Nothing == <<>>

\* What set_req writes for each kind, and the path given by the caller.
RequestOf(kind) ==
    <<"GET /1", "POST /1/setCurrency", "GET /1/product", "GET /1/cart",
      "POST /1/cart", "POST /1/cart/checkout">>[kind + 1]

GivenPath == "GET path"

Open == {fd \in Fd : conn[fd] # "closed"}

LowestFree == CHOOSE fd \in Fd \ Open : \A g \in Fd \ Open : fd <= g

Init ==
    /\ program \in {"shop", "chain"}
    /\ sender = [at |-> "pace", i |-> 0, ch |-> 0, fd |-> 0,
                 req |-> IF program = "shop" THEN RequestOf(0) ELSE GivenPath]
    /\ receiver = [at |-> "wait", events |-> {}, fd |-> 0,
                   have_ts |-> FALSE, send_ns |-> 0]
    /\ fdtab = [fd \in Fd |-> [send_ns |-> 0, active |-> FALSE, request_type |-> 0]]
    /\ inflight = 0 /\ sender_done = FALSE
    /\ samples = <<>> /\ report = Nothing
    /\ conn = [fd \in Fd |-> "closed"] /\ watched = {} /\ clock = 1
    /\ request = [fd \in Fd |-> Nothing] /\ answered = {} /\ faults = 0

(***************************************************************************)
(* fdtab, under fdtab_mu.                                                  *)
(***************************************************************************)
FdtabSet(fd, send_ns) ==
    fdtab' = [fdtab EXCEPT ![fd].send_ns = send_ns, ![fd].active = TRUE]

FdtabClear(fd) == fdtab' = [fdtab EXCEPT ![fd].active = FALSE]

(***************************************************************************)
(* sender_thread.                                                          *)
(***************************************************************************)
Fails == faults < MaxFaults /\ faults' = faults + 1

Goto(at) == sender' = [sender EXCEPT !.at = at]
NextRequest == sender' = [sender EXCEPT !.at = "pace", !.i = @ + 1, !.fd = 0]

\* It waits while as many connections are open as there may be.
Pace ==
    /\ sender.at = "pace" /\ sender.i < Total
    /\ inflight < MaxInflight
    /\ Goto("connect")
    /\ UNCHANGED <<program, receiver, generator, kernel, history>>

\* resolve_and_connect_blocking and set_nonblocking.
Connect ==
    /\ sender.at = "connect"
    /\ UNCHANGED <<program, receiver, generator, watched, clock, answered>>
    /\ \/ /\ conn' = [conn EXCEPT ![LowestFree] = "waiting"]
          /\ request' = [request EXCEPT ![LowestFree] = Nothing]
          /\ sender' = [sender EXCEPT !.at = "count", !.fd = LowestFree]
          /\ UNCHANGED faults
       \/ Fails /\ NextRequest /\ UNCHANGED <<conn, request>>

Count ==
    /\ sender.at = "count"
    /\ inflight' = inflight + 1
    /\ Goto(IF program = "shop" THEN "choose" ELSE "send")
    /\ UNCHANGED <<program, receiver, fdtab, sender_done, samples, report,
                   kernel, history>>

\* Mutant of Choose: the place of the next request is marked.
ChooseNext ==
    /\ sender.at = "choose"
    /\ \E ch \in Drawn :
        /\ fdtab' = [fdtab EXCEPT ![sender.fd].request_type = ch]
        /\ sender' = [sender EXCEPT !.at = "send", !.req = RequestOf(sender.ch),
                                    !.ch = ch]
    /\ UNCHANGED <<program, receiver, inflight, sender_done, samples, report,
                   kernel, history>>

\* onlineboutique-trafficgen: the request that was drawn, and the next draw.
Choose ==
    /\ sender.at = "choose"
    /\ fdtab' = [fdtab EXCEPT ![sender.fd].request_type = sender.ch]
    /\ \E ch \in Drawn :
        sender' = [sender EXCEPT !.at = "send", !.req = RequestOf(sender.ch), !.ch = ch]
    /\ UNCHANGED <<program, receiver, inflight, sender_done, samples, report,
                   kernel, history>>

\* A connection the server has reset takes nothing.
Send ==
    /\ sender.at = "send"
    /\ UNCHANGED <<program, receiver, generator, kernel, answered, faults>>
    /\ \/ /\ conn[sender.fd] # "reset"
          /\ request' = [request EXCEPT ![sender.fd] =
                <<[i |-> sender.i, sent |-> clock, req |-> sender.req]>>]
          /\ Goto("stamp")
       \/ /\ conn[sender.fd] = "reset"
          /\ Goto("undo") /\ UNCHANGED request

Stamp ==
    /\ sender.at = "stamp"
    /\ FdtabSet(sender.fd, clock)
    /\ Goto("add")
    /\ UNCHANGED <<program, receiver, inflight, sender_done, samples, report,
                   kernel, history>>

\* From here on the descriptor is the receiver's, unless epoll refuses it.
Add ==
    /\ sender.at = "add"
    /\ UNCHANGED <<program, receiver, generator, conn, clock, request, answered>>
    /\ \/ watched' = watched \union {sender.fd} /\ NextRequest /\ UNCHANGED faults
       \/ Fails /\ Goto("clear") /\ UNCHANGED watched

ClearStamp ==
    /\ sender.at = "clear"
    /\ FdtabClear(sender.fd)
    /\ Goto("undo")
    /\ UNCHANGED <<program, receiver, inflight, sender_done, samples, report,
                   kernel, history>>

\* Mutant of UndoClose: it is counted down here already.
UndoCloseCounts ==
    /\ sender.at = "undo"
    /\ conn' = [conn EXCEPT ![sender.fd] = "closed"]
    /\ inflight' = inflight - 1
    /\ Goto("uncount")
    /\ UNCHANGED <<program, receiver, fdtab, sender_done, samples, report,
                   watched, clock, history>>

UndoClose ==
    /\ sender.at = "undo"
    /\ conn' = [conn EXCEPT ![sender.fd] = "closed"]
    /\ Goto("uncount")
    /\ UNCHANGED <<program, receiver, generator, watched, clock, history>>

\* Mutant of Uncount: the count is left as it is.
UncountNot ==
    /\ sender.at = "uncount"
    /\ NextRequest
    /\ UNCHANGED <<program, receiver, generator, kernel, history>>

Uncount ==
    /\ sender.at = "uncount"
    /\ inflight' = inflight - 1
    /\ NextRequest
    /\ UNCHANGED <<program, receiver, fdtab, sender_done, samples, report,
                   kernel, history>>

SenderEnds ==
    /\ sender.at = "pace" /\ sender.i = Total
    /\ sender_done' = TRUE
    /\ Goto("ended")
    /\ UNCHANGED <<program, receiver, fdtab, inflight, samples, report,
                   kernel, history>>

SenderStep ==
    \/ Pace \/ Connect \/ Count \/ Choose \/ Send \/ Stamp \/ Add
    \/ ClearStamp \/ UndoClose \/ Uncount \/ SenderEnds

(***************************************************************************)
(* receiver_thread.                                                        *)
(***************************************************************************)
Ready == {fd \in watched : conn[fd] \in {"answered", "shut", "reset"}}

\* epoll_wait, which may name a descriptor that has nothing to read.
Wait ==
    /\ receiver.at = "wait"
    /\ UNCHANGED <<program, sender, generator, kernel, request, answered>>
    /\ \/ /\ receiver' = [receiver EXCEPT !.at = "next", !.events = Ready]
          /\ UNCHANGED faults
       \/ \E fd \in watched \ Ready :
            /\ Fails
            /\ receiver' = [receiver EXCEPT !.at = "next", !.events = Ready \union {fd}]

\* The next event, whose time is taken from fdtab; the last test of the loop
\* when there is none.
NextEvent ==
    /\ receiver.at = "next"
    /\ UNCHANGED <<program, sender, inflight, sender_done, samples, report,
                   kernel, history>>
    /\ \/ \E fd \in receiver.events :
            /\ receiver' = [receiver EXCEPT !.at = "recv", !.events = @ \ {fd},
                    !.fd = fd, !.have_ts = fdtab[fd].active,
                    !.send_ns = IF fdtab[fd].active THEN fdtab[fd].send_ns ELSE 0]
            /\ FdtabClear(fd)
       \/ /\ receiver.events = {}
          /\ receiver' = [receiver EXCEPT !.fd = 0, !.at =
                IF sender_done /\ inflight = 0 THEN "ended" ELSE "wait"]
          /\ UNCHANGED fdtab

\* An answer or the end of the stream is sampled, an error is not; with nothing
\* there the time is put back.
Recv ==
    /\ receiver.at = "recv"
    /\ UNCHANGED <<program, sender, inflight, sender_done, samples, report,
                   kernel, request, faults>>
    /\ LET fd == receiver.fd IN
       \/ /\ conn[fd] \in {"answered", "shut"}
          /\ receiver' = [receiver EXCEPT !.at =
                IF receiver.have_ts THEN "sample" ELSE "close"]
          /\ answered' = answered \union {request[fd][1].i}
          /\ UNCHANGED fdtab
       \/ /\ conn[fd] = "waiting"
          /\ IF receiver.have_ts THEN FdtabSet(fd, receiver.send_ns) ELSE UNCHANGED fdtab
          /\ receiver' = [receiver EXCEPT !.at = "next"]
          /\ UNCHANGED answered
       \/ /\ conn[fd] = "reset"
          /\ receiver' = [receiver EXCEPT !.at = "close"]
          /\ UNCHANGED <<answered, fdtab>>

\* The place lat_idx of the result arrays; "of" is the history of the sample.
Sample ==
    /\ receiver.at = "sample"
    /\ samples' = IF Len(samples) < Total
                  THEN Append(samples,
                        [recv |-> clock, sent |-> receiver.send_ns,
                         type |-> fdtab[receiver.fd].request_type,
                         of |-> request[receiver.fd][1]])
                  ELSE samples
    /\ receiver' = [receiver EXCEPT !.at = "close"]
    /\ UNCHANGED <<program, sender, fdtab, inflight, sender_done, report,
                   kernel, history>>

\* close_and_cleanup: the descriptor is free before the count goes down.
Close ==
    /\ receiver.at = "close"
    /\ watched' = watched \ {receiver.fd}
    /\ conn' = [conn EXCEPT ![receiver.fd] = "closed"]
    /\ receiver' = [receiver EXCEPT !.at = "uncount"]
    /\ UNCHANGED <<program, sender, generator, clock, history>>

CountDown ==
    /\ receiver.at = "uncount"
    /\ inflight' = inflight - 1
    /\ receiver' = [receiver EXCEPT !.at = "next"]
    /\ UNCHANGED <<program, sender, fdtab, sender_done, samples, report,
                   kernel, history>>

\* Mutant of CleanUp: the count goes down before the descriptor is free.
CleanUpLate ==
    \/ /\ receiver.at = "close"
       /\ inflight' = inflight - 1
       /\ receiver' = [receiver EXCEPT !.at = "uncount"]
       /\ UNCHANGED <<program, sender, fdtab, sender_done, samples, report,
                      kernel, history>>
    \/ /\ receiver.at = "uncount"
       /\ watched' = watched \ {receiver.fd}
       /\ conn' = [conn EXCEPT ![receiver.fd] = "closed"]
       /\ receiver' = [receiver EXCEPT !.at = "next"]
       /\ UNCHANGED <<program, sender, generator, clock, history>>

CleanUp == Close \/ CountDown

ReceiverStep == Wait \/ NextEvent \/ Recv \/ Sample \/ CleanUp

(***************************************************************************)
(* main, once it has joined both threads.  Every file has total_requests   *)
(* entries, whatever lat_idx is; calloc left the rest 0.                   *)
(***************************************************************************)
Padded(values) == values \o [k \in 1 .. Total - Len(values) |-> 0]

Taken(Field(_)) == [k \in 1 .. Len(samples) |-> Field(samples[k])]

Main ==
    /\ sender.at = "ended" /\ receiver.at = "ended" /\ report = Nothing
    /\ LET latency == Taken(LAMBDA s : s.recv - s.sent)
       IN report' =
            <<[stats     |-> Stats(latency),
               sent      |-> EventsPerSecond(Padded(Taken(LAMBDA s : s.sent))),
               recv      |-> EventsPerSecond(Padded(Taken(LAMBDA s : s.recv))),
               latencies |-> Latencies(Padded(latency), Padded(Taken(LAMBDA s : s.type)))]>>
    /\ UNCHANGED <<program, sender, receiver, fdtab, inflight, sender_done, samples,
                   kernel, history>>

(***************************************************************************)
(* The server and the clock.                                               *)
(***************************************************************************)
\* It answers what was sent; it may hang up or reset a connection at any time.
Serve(fd) ==
    /\ conn[fd] = "waiting"
    /\ \E outcome \in {"shut", "reset"} \union
                (IF request[fd] # Nothing THEN {"answered"} ELSE {}) :
            conn' = [conn EXCEPT ![fd] = outcome]
    /\ UNCHANGED <<program, sender, receiver, generator, watched, clock, history>>

Tick ==
    /\ clock < Seconds
    /\ clock' = clock + 1
    /\ UNCHANGED <<program, sender, receiver, generator, conn, watched, history>>

\* The generator has ended: the program is over.
Over == report # Nothing /\ UNCHANGED vars

Next ==
    \/ SenderStep \/ ReceiverStep \/ Main
    \/ \E fd \in Fd : Serve(fd)
    \/ Tick \/ Over

Spec == Init /\ [][Next]_vars

\* The kernel runs both threads, and main after them; the server owes nothing.
FairSpec == Spec /\ WF_vars(SenderStep) /\ WF_vars(ReceiverStep) /\ WF_vars(Main)

(***************************************************************************)
(* Properties.                                                             *)
(***************************************************************************)
SenderType ==
    [at : {"pace", "connect", "count", "choose", "send", "stamp", "add",
           "clear", "undo", "uncount", "ended"},
     i : 0 .. Total, ch : 0 .. 4, fd : Fd \union {0},
     req : {RequestOf(kind) : kind \in Kind} \union {GivenPath}]

ReceiverType ==
    [at : {"wait", "next", "recv", "sample", "close", "uncount", "ended"},
     events : SUBSET Fd, fd : Fd \union {0}, have_ts : BOOLEAN,
     send_ns : Second \union {0}]

EntryType == [send_ns : Second \union {0}, active : BOOLEAN, request_type : Kind]

TypeOK ==
    /\ program \in {"shop", "chain"}
    /\ sender \in SenderType /\ receiver \in ReceiverType
    /\ fdtab \in [Fd -> EntryType]
    /\ inflight \in 0 .. MaxInflight /\ sender_done \in BOOLEAN
    /\ Len(samples) <= Total
    /\ conn \in [Fd -> {"closed", "waiting", "answered", "shut", "reset"}]
    /\ watched \subseteq Fd /\ clock \in Second
    /\ answered \subseteq 0 .. Total - 1 /\ faults \in 0 .. MaxFaults

\* inflight is the number of connections that are open, but for one the sender
\* has not counted yet and one each thread has closed and not counted down; so
\* the pause of sender_thread bounds the open connections by max_inflight.
OpenAreCounted ==
    /\ Cardinality(Open) <= MaxInflight
    /\ inflight = Cardinality(Open)
            + (IF receiver.at = "uncount" THEN 1 ELSE 0)
            + (IF sender.at = "uncount" THEN 1 ELSE 0)
            - (IF sender.at = "count" THEN 1 ELSE 0)

\* When every request was sampled, the two files of events have each of them in
\* the second it was sent or received, and the one of the received a line for
\* each second and no second twice.
LinesOf(file, second) == {k \in 1 .. Len(file) : file[k].second = second}

ReportTrue ==
    report # Nothing /\ Len(samples) = Total =>
        LET recv == report[1].recv
            sent == report[1].sent
            At(Field(_), s) == Cardinality({k \in 1 .. Total : Field(samples[k]) = s})
        IN /\ \A s \in samples[1].recv .. samples[Total].recv :
                LET Lines == LinesOf(recv, s - samples[1].recv)
                IN Cardinality(Lines) = 1 /\ \A k \in Lines :
                        recv[k].count = At(LAMBDA x : x.recv, s)
           /\ \A s \in Second :
                FoldLeft(LAMBDA n, k : n + sent[k].count, 0,
                    SetToSeq(LinesOf(sent, (s - samples[1].sent) % Word)))
                    = At(LAMBDA x : x.sent, s)

\* Each sample is of a request of its own, taken for as long as that request
\* took since the sender stamped it, and the kind it is reported under is the
\* kind that was sent: descriptors are used again, and the thread that samples
\* is not the one that filled the table.  And an answer that was received is in
\* the samples, unless the receiver is about to put it there.
SamplesAreTrue ==
    /\ \A k \in 1 .. Len(samples) :
        /\ samples[k].of.sent <= samples[k].sent /\ samples[k].sent <= samples[k].recv
        /\ samples[k].of.req \in {RequestOf(samples[k].type), GivenPath}
    /\ \A k, l \in 1 .. Len(samples) : k # l => samples[k].of.i # samples[l].of.i
    /\ answered = {samples[k].of.i : k \in 1 .. Len(samples)} \union
            (IF receiver.at = "sample" THEN {request[receiver.fd][1].i} ELSE {})

\* The generator ends, with files that say what was sampled, if no connection is
\* left without an answer for ever: there is no time limit on a request, and both
\* the end of receiver_thread and the pause of sender_thread wait for inflight to
\* come down.
Ends ==
    (\A fd \in Fd : []<>(conn[fd] # "waiting")) => <>(report # Nothing /\ ReportTrue)
=============================================================================
