------------------------------- MODULE Config -------------------------------
(***************************************************************************)
(* shm_mgr.c: the manager of the shared memory reads the configuration     *)
(* file into the region that the gateway and the functions map.  The       *)
(* region outlives the manager, as cfg_exit stands after a loop that never *)
(* ends: the next manager writes its file over what the last has left.     *)
(***************************************************************************)
EXTENDS Integers, Sequences, Functions

CONSTANTS
    Files,      \* The configuration files.
    Host,       \* The name of this host.
    Unset,      \* The zeroes of a new region.
    MaxId,      \* Bound: the ids of functions, routes, nodes and tenants (255).
    Hops,       \* Bound: the hops of a route (256).
    MaxLoads    \* Bound: how often the manager is started.

Sections == {"nfs", "routes", "nodes", "tenants"}
Id == 0 .. MaxId

(* What the code does not check of a section: that its ids and the hops of *)
(* its routes have their places in the region, and that a byte can count   *)
(* the entries and the hops.  The functions are numbered from 1.           *)
Fits(s, list) ==
    /\ list \in Seq(Range(list)) /\ Len(list) < 255
    /\ \A k \in DOMAIN list :
        /\ "id" \in DOMAIN list[k] => list[k].id \in Id /\ (s = "nfs" => list[k].id # 0)
        /\ s = "routes" /\ "hops" \in DOMAIN list[k] =>
               /\ list[k].hops \in Seq(Range(list[k].hops))
               /\ Len(list[k].hops) <= Hops /\ Len(list[k].hops) < 256

ASSUME ConfigAssumption ==
    /\ MaxId \in Nat /\ Hops \in Nat
    /\ \A f \in Files : \A s \in Sections \intersect DOMAIN f : Fits(s, f[s])

(* What is read of an entry, in this order; an entry in a file is a record *)
(* without the settings it lacks, and a file one without such sections.    *)
Fields == [nfs     |-> <<"id", "name", "n_threads", "memory_mb", "sleep_ns", "compute">>,
           routes  |-> <<"id", "name", "hops">>,
           nodes   |-> <<"id", "hostname", "ip_address", "port">>,
           tenants |-> <<"id", "weight">>]

VARIABLES
    cfg,        \* The struct spright_cfg_s in shared memory.
    file,       \* What config_read_file has made of the file.
    at,         \* Where the manager is: section, entry and hop.
    before,     \* History: the region when the manager was started.
    loads

configVars == <<cfg, file, at, before, loads>>

NoRoute == [name |-> Unset, length |-> 0, hop |-> [j \in 1 .. Hops |-> Unset]]

NewRegion ==
    [name    |-> Unset,
     count   |-> [s \in Sections |-> 0],
     nfs     |-> [i \in Id |-> [f \in (Range(Fields.nfs) \ {"id"}) \union {"node"} |-> Unset]],
     routes  |-> [i \in Id |-> NoRoute],
     nodes   |-> [i \in Id |-> [f \in Range(Fields.nodes) \ {"id"} |-> Unset]],
     tenants |-> [i \in Id |-> [weight |-> Unset]],
     local_node_idx |-> 0,
     inter_node_rt  |-> [i \in Id |-> 0]]

ConfigInit ==
    /\ cfg = NewRegion /\ before = NewRegion
    /\ file = [name |-> Unset]
    /\ at = [section |-> "down"]
    /\ loads = 0

Reads(section) == at.section = section
GoTo(section) == at' = [section |-> section, entry |-> 0]
Go(section, entry) == at' = [section |-> section, entry |-> entry]

(* error_1, error_2 and the end: whichever it is, cfg_init returns 0, and  *)
(* the manager sleeps for as long as it lives.                             *)
Serve == GoTo("served")

(* The settings an entry is read up to the first it lacks.  Route 0 is not *)
(* to be configured.                                                       *)
Got(section, e) ==
    LET has == DOMAIN e \ {f \in {"id"} : section = "routes" /\ e.id = 0}
        F == Fields[section]
    IN {F[i] : i \in {j \in DOMAIN F : \A h \in 1 .. j : F[h] \in has}}

Whole(section, e) == Got(section, e) = Range(Fields[section])

\* main and shm_mgr: the region as it is, and a file.
Start(f) ==
    /\ Reads("down") /\ loads < MaxLoads
    /\ loads' = loads + 1
    /\ file' = f
    /\ before' = cfg
    /\ GoTo("name")
    /\ UNCHANGED cfg

ReadName ==
    /\ Reads("name")
    /\ IF "name" \in DOMAIN file
       THEN cfg' = [cfg EXCEPT !.name = file.name] /\ GoTo("nfs")
       ELSE Serve /\ UNCHANGED cfg
    /\ UNCHANGED <<file, before, loads>>

\* The head of a section; that of the routes writes the default route.  The
\* tenants are counted by an int, the others by a byte.
ReadHead(s) ==
    /\ Reads(s) /\ at.entry = 0
    /\ IF s \notin DOMAIN file THEN Serve /\ UNCHANGED cfg
       ELSE /\ cfg' = IF s = "routes"
                      THEN [cfg EXCEPT !.count[s] = (Len(file[s]) + 1) % 256,
                                       !.routes[0].name = "Default", !.routes[0].length = 0]
                      ELSE [cfg EXCEPT !.count[s] =
                                IF s = "tenants" THEN Len(file[s]) ELSE Len(file[s]) % 256]
            /\ Go(s, 1)
    /\ UNCHANGED <<file, before, loads>>

\* The settings of an entry that are read, in their place.
Filled(s, i, e) ==
    [cfg EXCEPT ![s][i] = [f \in DOMAIN @ |-> IF f \in Got(s, e) THEN e[f] ELSE @[f]]]

\* A function without a node is on node 0.
NfWritten(e) ==
    LET read == Filled("nfs", e.id - 1, e)
        node == IF "node" \in DOMAIN e THEN e.node ELSE 0
    IN IF Whole("nfs", e)
       THEN [read EXCEPT !.nfs[e.id - 1].node = node, !.inter_node_rt[e.id] = node]
       ELSE read

\* The local node is the place of its entry in the list.
NodeWritten(e, place) ==
    LET read == Filled("nodes", e.id, e)
    IN IF "hostname" \in Got("nodes", e) /\ e.hostname = Host
       THEN [read EXCEPT !.local_node_idx = place] ELSE read

TenantWritten(e) == Filled("tenants", e.id, e)

(* An entry of a section other than the routes. *)
ReadEntry(s) ==
    /\ Reads(s) /\ s # "routes" /\ at.entry > 0 /\ at.entry <= Len(file[s])
    /\ LET e == file[s][at.entry] IN
        /\ cfg' = IF "id" \notin DOMAIN e THEN cfg
                  ELSE CASE s = "nfs"     -> NfWritten(e)
                         [] s = "nodes"   -> NodeWritten(e, at.entry - 1)
                         [] s = "tenants" -> TenantWritten(e)
        /\ IF Whole(s, e) THEN Go(s, at.entry + 1) ELSE Serve
    /\ UNCHANGED <<file, before, loads>>

(* The name and the length of a route, before its hops. *)
ReadRoute ==
    /\ Reads("routes") /\ "hop" \notin DOMAIN at
    /\ at.entry > 0 /\ at.entry <= Len(file.routes)
    /\ LET e == file.routes[at.entry]
           got == Got("routes", e)
           named == IF "name" \in got THEN [cfg EXCEPT !.routes[e.id].name = e.name] ELSE cfg
       IN  IF Whole("routes", e)
           THEN /\ cfg' = [named EXCEPT !.routes[e.id].length = Len(e.hops) % 256]
                /\ at' = [section |-> "routes", entry |-> at.entry, hop |-> 1]
           ELSE cfg' = named /\ Serve
    /\ UNCHANGED <<file, before, loads>>

\* Mutant of LastHop: the loop ends one hop early.
HopBeforeLast(e) == Len(e.hops) - 1

LastHop(e) == Len(e.hops)

ReadHop ==
    /\ Reads("routes") /\ "hop" \in DOMAIN at
    /\ LET e == file.routes[at.entry] IN
        IF at.hop <= LastHop(e)
        THEN /\ cfg' = [cfg EXCEPT !.routes[e.id].hop[at.hop] = e.hops[at.hop]]
             /\ at' = [at EXCEPT !.hop = @ + 1]
        ELSE Go("routes", at.entry + 1) /\ UNCHANGED cfg
    /\ UNCHANGED <<file, before, loads>>

(* After its last entry, the next section.  Whether the host was among the *)
(* nodes is looked at after the tenants, and makes no difference.          *)
ReadEnd(s) ==
    /\ Reads(s) /\ s \in DOMAIN file /\ at.entry = Len(file[s]) + 1
    /\ GoTo(CASE s = "nfs" -> "routes" [] s = "routes" -> "nodes"
              [] s = "nodes" -> "tenants" [] s = "tenants" -> "served")
    /\ UNCHANGED <<cfg, file, before, loads>>

\* The manager is ended from outside, wherever it is.
Kill ==
    /\ at.section # "down"
    /\ at' = [section |-> "down"]
    /\ UNCHANGED <<cfg, file, before, loads>>

ConfigNext ==
    \/ \E f \in Files : Start(f)
    \/ ReadName
    \/ \E s \in Sections : ReadHead(s) \/ ReadEntry(s) \/ ReadEnd(s)
    \/ ReadRoute \/ ReadHop
    \/ Kill

ConfigSpec == ConfigInit /\ [][ConfigNext]_configVars

-----------------------------------------------------------------------------
\* The sections that were read to their end, when the manager is done.
WholeSection(s) == s \in DOMAIN file /\ \A k \in DOMAIN file[s] : Whole(s, file[s][k])
Reached(s) ==
    /\ "name" \in DOMAIN file
    /\ s \in {"routes", "nodes", "tenants"} => WholeSection("nfs")
    /\ s \in {"nodes", "tenants"} => WholeSection("routes")
    /\ s = "tenants" => WholeSection("nodes")

\* The entries of a section that are for i, and the last of them.
For(s, i) == {k \in DOMAIN file[s] : "id" \in DOMAIN file[s][k] /\ file[s][k].id = i}
LastFor(s, i) == file[s][CHOOSE k \in For(s, i) : \A h \in For(s, i) : h <= k]
PlaceOf(s, i) == IF s = "nfs" THEN i - 1 ELSE i

RouteIs(r, e) ==
    /\ r.name = e.name /\ r.length = Len(e.hops)
    /\ \A j \in DOMAIN e.hops : r.hop[j] = e.hops[j]

(* However often the manager was killed while it wrote, and whatever its   *)
(* files lack: once it is done, a section that is whole and was reached is *)
(* in the region as written, the last entry of an id being the one that    *)
(* counts; what is in no entry, and a section that was not reached, is as  *)
(* the last manager left it; and the local node is this host, where the    *)
(* nodes are numbered by their places.  Before that, a route that is not   *)
(* being written is one of the file, or as it was, and never half of each. *)
SetUpAsWritten ==
    /\ Reads("served") => \A s \in Sections :
        IF ~Reached(s) \/ s \notin DOMAIN file THEN cfg[s] = before[s]
        ELSE WholeSection(s) =>
            /\ cfg.count[s] = Len(file[s]) + (IF s = "routes" THEN 1 ELSE 0)
            /\ \A i \in Id : For(s, i) # {} =>
                LET e == LastFor(s, i)
                    now == cfg[s][PlaceOf(s, i)]
                IN IF s = "routes" THEN RouteIs(now, e)
                   ELSE /\ \A f \in Range(Fields[s]) \ {"id"} : now[f] = e[f]
                        /\ s = "nfs" => cfg.inter_node_rt[i] = now.node
            /\ \A i \in Id :
                  For(s, i) = {} /\ PlaceOf(s, i) \in Id /\ <<s, i>> # <<"routes", 0>> =>
                      cfg[s][PlaceOf(s, i)] = before[s][PlaceOf(s, i)]
            /\ s = "nodes" /\ (\A k \in DOMAIN file.nodes : file.nodes[k].id = k - 1)
                  => ((\E k \in DOMAIN file.nodes : file.nodes[k].hostname = Host)
                        => cfg.nodes[cfg.local_node_idx].hostname = Host)
    /\ Reads("routes") /\ "routes" \in DOMAIN file => \A i \in Id \ {0} :
        \/ at.entry \in DOMAIN file.routes /\ file.routes[at.entry].id = i
        \/ cfg.routes[i] = before.routes[i]
        \/ \E k \in For("routes", i) : RouteIs(cfg.routes[i], file.routes[k])
=============================================================================
