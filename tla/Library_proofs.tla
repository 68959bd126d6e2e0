--------------------------- MODULE Library_proofs ---------------------------
(***************************************************************************)
(* What the programs are built on: the configuration in shared memory, for *)
(* any files, and what the functions compute, for any input.               *)
(*                                                                         *)
(* The configuration.  The manager may be killed at every step and started *)
(* again with another file, over what it has left.  The invariant says of  *)
(* each place the manager may be at what the region holds there: of the    *)
(* sections before, everything the file has (Written, Entered), of the     *)
(* section that is read, its first entries, of the route that is read, its *)
(* first hops (Reading), and of the sections after, what the last manager  *)
(* has left (Underway).  Where the manager is done, early or not, this is  *)
(* what SetUpAsWritten asks for (Done).                                    *)
(*                                                                         *)
(* The functions.  Each is a loop, and what the loop has after k turns is  *)
(* a function of k.  Induct shows by the least number that is not in a set *)
(* that every k is in it: so that such a function exists (Recursion), and  *)
(* that it is what the loop is to have after k turns.                      *)
(***************************************************************************)
EXTENDS Config, Computed, FiniteSetTheorems, WellFoundedInduction, TLAPS

-----------------------------------------------------------------------------
(* The invariant of the configuration. *)
Stored == [nfs     |-> {"name", "n_threads", "memory_mb", "sleep_ns", "compute", "node"},
           routes  |-> {"name", "length", "hop"},
           nodes   |-> {"hostname", "ip_address", "port"},
           tenants |-> {"weight"}]

(* The region has its fields, whatever is in them. *)
Shape(c) ==
    /\ DOMAIN c = Sections \union {"name", "count", "local_node_idx", "inter_node_rt"}
    /\ DOMAIN c.count = Sections /\ DOMAIN c.inter_node_rt = Id
    /\ \A s \in Sections : DOMAIN c[s] = Id /\ \A i \in Id : DOMAIN c[s][i] = Stored[s]
    /\ \A i \in Id : DOMAIN c.routes[i].hop = 1 .. Hops

Places ==
    {[section |-> "down"]}
    \union [section : {"name", "served"}, entry : {0}]
    \union [section : Sections, entry : Nat]
    \union [section : {"routes"}, entry : Nat \ {0}, hop : Nat \ {0}]

FileOK ==
    \A s \in Sections \intersect DOMAIN file : Fits(s, file[s])

ConfigTypeOK ==
    /\ Shape(cfg)
    /\ at \in Places
    /\ FileOK

(* The entries of a section for i among the first n. *)
UpTo(s, i, n) == {k \in For(s, i) : k <= n}

Agrees(c, s, i, e) ==
    LET now == c[s][PlaceOf(s, i)]
    IN  IF s = "routes" THEN RouteIs(now, e)
        ELSE /\ \A f \in Range(Fields[s]) \ {"id"} : now[f] = e[f]
             /\ s = "nfs" => c.inter_node_rt[i] = now.node

(* What i has after the first n entries of its section. *)
Entered(s, i, n) ==
    \/ /\ UpTo(s, i, n) = {}
       /\ PlaceOf(s, i) \in Id /\ <<s, i>> # <<"routes", 0>> =>
              cfg[s][PlaceOf(s, i)] = before[s][PlaceOf(s, i)]
    \/ \E k \in UpTo(s, i, n) : (\A h \in UpTo(s, i, n) : h <= k) /\ Agrees(cfg, s, i, file[s][k])

Counted(s) == cfg.count[s] = Len(file[s]) + (IF s = "routes" THEN 1 ELSE 0)

(* The local node is one of the first n with the name of this host. *)
InPlace == \A k \in DOMAIN file.nodes : "id" \in DOMAIN file.nodes[k] /\ file.nodes[k].id = k - 1
HostKnown(n) ==
    InPlace =>
        \/ \A k \in 1 .. n : file.nodes[k].hostname # Host
        \/ \E k \in 1 .. n : cfg.local_node_idx = k - 1 /\ file.nodes[k].hostname = Host

(* The first n entries of a section are in the region. *)
Written(s, n) ==
    /\ s \in DOMAIN file /\ n <= Len(file[s])
    /\ \A k \in 1 .. n : Whole(s, file[s][k])
    /\ Counted(s)
    /\ s = "nodes" => HostKnown(n)

Order == [nfs |-> 1, routes |-> 2, nodes |-> 3, tenants |-> 4]

(* The sections before the one that is read are written, those after it    *)
(* are not touched.                                                        *)
Underway(s) ==
    /\ "name" \in DOMAIN file
    /\ \A u \in Sections : Order[u] < Order[s] =>
           Written(u, Len(file[u])) /\ \A i \in Id : Entered(u, i, Len(file[u]))
    /\ \A u \in Sections : Order[u] > Order[s] => cfg[u] = before[u]

Reading(s) ==
    /\ Underway(s)
    /\ IF at.entry = 0 THEN cfg[s] = before[s]
       ELSE /\ Written(s, at.entry - 1)
            /\ IF "hop" \in DOMAIN at
               THEN LET e == file.routes[at.entry] IN
                    /\ at.entry <= Len(file.routes) /\ Whole("routes", e)
                    /\ at.hop <= Len(e.hops) + 1
                    /\ \A i \in Id \ {e.id} : Entered("routes", i, at.entry - 1)
                    /\ cfg.routes[e.id].name = e.name /\ cfg.routes[e.id].length = Len(e.hops)
                    /\ \A j \in 1 .. at.hop - 1 : cfg.routes[e.id].hop[j] = e.hops[j]
               ELSE \A i \in Id : Entered(s, i, at.entry - 1)

Done ==
    \A s \in Sections :
        IF ~Reached(s) \/ s \notin DOMAIN file THEN cfg[s] = before[s]
        ELSE WholeSection(s) =>
                Written(s, Len(file[s])) /\ \A i \in Id : Entered(s, i, Len(file[s]))

ConfigInv ==
    /\ ConfigTypeOK
    /\ Reads("name") => \A s \in Sections : cfg[s] = before[s]
    /\ \A s \in Sections : Reads(s) => Reading(s)
    /\ Reads("served") => Done

-----------------------------------------------------------------------------
(* What is read of an entry, as a set. *)
LEMMA FieldsAre ==
    /\ Range(Fields["nfs"]) = {"id", "name", "n_threads", "memory_mb", "sleep_ns", "compute"}
    /\ Range(Fields["routes"]) = {"id", "name", "hops"}
    /\ Range(Fields["nodes"]) = {"id", "hostname", "ip_address", "port"}
    /\ Range(Fields["tenants"]) = {"id", "weight"}
  BY DEF Range, Fields

(* What is read of an entry has its place in the region. *)
LEMMA StoredFields ==
    ASSUME NEW s \in Sections
    PROVE  s # "routes" => Range(Fields[s]) \ {"id"} \subseteq Stored[s]
  BY FieldsAre DEF Sections, Stored

(* An entry that is read to its end has all the settings, and an id. *)
LEMMA WholeHasAll ==
    ASSUME NEW s \in Sections, NEW e, Whole(s, e)
    PROVE  /\ Got(s, e) = Range(Fields[s])
           /\ Range(Fields[s]) \subseteq DOMAIN e /\ "id" \in DOMAIN e
           /\ s = "routes" => e.id # 0
<1>1. Got(s, e) = Range(Fields[s]) /\ "id" \in Got(s, e)
  BY FieldsAre DEF Whole, Sections
<1>2. Got(s, e) \subseteq DOMAIN e /\ (s = "routes" => ("id" \in Got(s, e) => e.id # 0))
  <2>1. \A j \in DOMAIN Fields[s] : j \in 1 .. j
    BY DEF Fields, Sections
  <2>. QED  BY <2>1 DEF Got
<1>. QED  BY <1>1, <1>2

(* A new region has its fields. *)
LEMMA InitShape == Shape(NewRegion)
  BY FieldsAre DEF Shape, NewRegion, Sections, Stored, NoRoute

(* What is known of an entry of a file: its place, its id, its hops. *)
LEMMA Entry ==
    ASSUME FileOK, NEW s \in Sections, s \in DOMAIN file, NEW k \in 1 .. Len(file[s])
    PROVE  /\ k \in DOMAIN file[s] /\ DOMAIN file[s] = 1 .. Len(file[s])
           /\ Len(file[s]) \in Nat /\ Len(file[s]) < 255
           /\ "id" \in DOMAIN file[s][k] =>
                  file[s][k].id \in Id /\ (s = "nfs" => file[s][k].id # 0)
           /\ s = "routes" /\ "hops" \in DOMAIN file[s][k] =>
                  /\ DOMAIN file[s][k].hops = 1 .. Len(file[s][k].hops)
                  /\ Len(file[s][k].hops) \in Nat
                  /\ Len(file[s][k].hops) <= Hops /\ Len(file[s][k].hops) < 256
<1>1. Fits(s, file[s])
  BY DEF FileOK
<1>2. DOMAIN file[s] = 1 .. Len(file[s]) /\ Len(file[s]) \in Nat
  BY <1>1 DEF Fits
<1>3. Hops \in Nat
  BY ConfigAssumption
<1>. QED  BY <1>1, <1>2, <1>3 DEF Fits

-----------------------------------------------------------------------------
(* Where the manager is. *)
LEMMA AtFacts ==
    ASSUME at \in Places
    PROVE  /\ at.section \in Sections \union {"down", "name", "served"}
           /\ at.section \in Sections => at.entry \in Nat
           /\ at.section = "name" => at.entry = 0
           /\ "hop" \in DOMAIN at => at.section = "routes" /\ at.hop \in Nat \ {0} /\ at.entry \in Nat \ {0}
  BY DEF Places, Sections

(* The place the manager goes to. *)
LEMMA GoneTo ==
    ASSUME NEW s \in Sections \union {"name", "served"}, NEW n \in Nat, Go(s, n), s \notin Sections => n = 0
    PROVE  at' \in Places /\ at'.section = s /\ at'.entry = n /\ "hop" \notin DOMAIN at'
  BY DEF Go, Places

(* The same for the start of a section. *)
LEMMA GoneToSection ==
    ASSUME NEW s \in Sections \union {"name", "served"}, GoTo(s)
    PROVE  at' \in Places /\ at'.section = s /\ at'.entry = 0 /\ "hop" \notin DOMAIN at'
  BY DEF GoTo, Places

(* The settings of an entry go to its place, the rest of the region stays. *)
LEMMA FilledShape ==
    ASSUME Shape(cfg), NEW s \in Sections, NEW p \in Id, NEW e
    PROVE  /\ Shape(Filled(s, p, e))
           /\ \A f \in DOMAIN cfg \ {s} : Filled(s, p, e)[f] = cfg[f]
           /\ \A i \in Id \ {p} : Filled(s, p, e)[s][i] = cfg[s][i]
           /\ \A f \in Stored[s] : Filled(s, p, e)[s][p][f] = IF f \in Got(s, e) THEN e[f] ELSE cfg[s][p][f]
<1>. DEFINE c == Filled(s, p, e)
            r == [f \in DOMAIN cfg[s][p] |-> IF f \in Got(s, e) THEN e[f] ELSE cfg[s][p][f]]
<1>1. c = [cfg EXCEPT ![s] = [cfg[s] EXCEPT ![p] = r]]
  BY DEF Filled
<1>2. DOMAIN r = Stored[s]
  BY DEF Shape
<1>. HIDE DEF r
<1>3. /\ DOMAIN c = DOMAIN cfg /\ c[s] = [cfg[s] EXCEPT ![p] = r]
      /\ \A f \in DOMAIN cfg \ {s} : c[f] = cfg[f]
  BY <1>1 DEF Shape
<1>4. DOMAIN c[s] = Id /\ c[s][p] = r /\ \A i \in Id \ {p} : c[s][i] = cfg[s][i]
  BY <1>3 DEF Shape
<1>. HIDE DEF c
<1>5. \A f \in Stored[s] : c[s][p][f] = IF f \in Got(s, e) THEN e[f] ELSE cfg[s][p][f]
  BY <1>4 DEF Shape, r
<1>6. Shape(c)
  <2>1. s \notin {"name", "count", "local_node_idx", "inter_node_rt"}
    BY DEF Sections
  <2>2. c.count = cfg.count /\ c.inter_node_rt = cfg.inter_node_rt
    BY <1>3, <2>1 DEF Shape
  <2>3. \A u \in Sections : DOMAIN c[u] = Id /\ \A i \in Id : DOMAIN c[u][i] = Stored[u]
    <3>1. Sections \subseteq DOMAIN cfg
      BY DEF Shape
    <3>2. ASSUME NEW u \in Sections \ {s}
          PROVE  DOMAIN c[u] = Id /\ \A i \in Id : DOMAIN c[u][i] = Stored[u]
      <4>1. c[u] = cfg[u]
        BY <1>3, <3>1
      <4>. QED  BY <4>1 DEF Shape
    <3>3. DOMAIN c[s] = Id /\ \A i \in Id : DOMAIN c[s][i] = Stored[s]
      BY <1>2, <1>4 DEF Shape
    <3>. QED  BY <3>2, <3>3
  <2>4. \A i \in Id : DOMAIN c.routes[i].hop = 1 .. Hops
    <3>1. CASE s = "routes"
      <4>1. "hop" \in Stored[s] /\ "hop" \notin Got(s, e)
        <5>1. "hop" \notin Range(Fields["routes"])
          BY FieldsAre
        <5>2. Got(s, e) \subseteq Range(Fields[s])
          BY DEF Got, Range
        <5>. QED  BY <3>1, <5>1, <5>2 DEF Stored
      <4>. QED  BY <1>4, <1>5, <3>1, <4>1 DEF Shape
    <3>2. CASE s # "routes"
      BY <1>3, <3>2 DEF Shape, Sections
    <3>. QED  BY <3>1, <3>2
  <2>. QED  BY <1>3, <2>2, <2>3, <2>4 DEF Shape
<1>. QED  BY <1>3, <1>4, <1>5, <1>6 DEF c

-----------------------------------------------------------------------------
(* What stays when an entry of another id, or another section, is read.    *)
LEMMA EnteredKept ==
    ASSUME FileOK, UNCHANGED <<file, before>>, NEW s \in Sections, s \in DOMAIN file,
           NEW i \in Id, NEW n,
           PlaceOf(s, i) \in Id => cfg'[s][PlaceOf(s, i)] = cfg[s][PlaceOf(s, i)],
           s = "nfs" => cfg'.inter_node_rt[i] = cfg.inter_node_rt[i],
           Entered(s, i, n)
    PROVE  Entered(s, i, n)'
<1>. DEFINE p == PlaceOf(s, i)
<1>1. UpTo(s, i, n)' = UpTo(s, i, n) /\ PlaceOf(s, i)' = p
  BY DEF UpTo, For, PlaceOf
<1>2. CASE /\ UpTo(s, i, n) = {}
           /\ p \in Id /\ <<s, i>> # <<"routes", 0>> => cfg[s][p] = before[s][p]
  BY <1>1, <1>2 DEF Entered
<1>3. ASSUME NEW k \in UpTo(s, i, n), \A h \in UpTo(s, i, n) : h <= k, Agrees(cfg, s, i, file[s][k])
      PROVE  Entered(s, i, n)'
  <2>1. p \in Id
    <3>1. k \in 1 .. Len(file[s]) /\ "id" \in DOMAIN file[s][k] /\ file[s][k].id = i
      BY DEF UpTo, For, FileOK, Fits
    <3>2. s = "nfs" => i # 0
      BY <3>1, Entry
    <3>. QED  BY <3>2, ConfigAssumption DEF PlaceOf, Id
  <2>2. cfg'[s][p] = cfg[s][p] /\ (s = "nfs" => cfg'.inter_node_rt[i] = cfg.inter_node_rt[i])
    BY <2>1
  <2>. HIDE DEF p
  <2>3. Agrees(cfg', s, i, file[s][k])
    BY <1>1, <1>3, <2>2 DEF Agrees, RouteIs, p
  <2>. QED  BY <1>1, <1>3, <2>3 DEF Entered
<1>. QED  BY <1>2, <1>3 DEF Entered

(* A section in which nothing was written is as it was. *)
LEMMA SectionKept ==
    ASSUME FileOK, UNCHANGED <<file, before>>, NEW s \in Sections, s \in DOMAIN file, NEW n,
           cfg'[s] = cfg[s], cfg'.count[s] = cfg.count[s],
           s = "nfs" => cfg'.inter_node_rt = cfg.inter_node_rt,
           s = "nodes" => cfg'.local_node_idx = cfg.local_node_idx
    PROVE  /\ Written(s, n) => Written(s, n)'
           /\ \A i \in Id : Entered(s, i, n) => Entered(s, i, n)'
<1>1. Written(s, n) => Written(s, n)'
  BY DEF Written, Counted, HostKnown, InPlace
<1>2. ASSUME NEW i \in Id, Entered(s, i, n) PROVE Entered(s, i, n)'
  BY <1>2, EnteredKept
<1>. QED  BY <1>1, <1>2

(* What an entry of this id adds. *)
LEMMA EnteredNext ==
    ASSUME FileOK, UNCHANGED <<file, before>>, NEW s \in Sections, s \in DOMAIN file,
           NEW n \in 1 .. Len(file[s]), "id" \in DOMAIN file[s][n],
           Agrees(cfg', s, file[s][n].id, file[s][n]),
           \A i \in Id \ {file[s][n].id} : (Entered(s, i, n - 1))'
    PROVE  \A i \in Id : (Entered(s, i, n))'
<1>. DEFINE e == file[s][n]
<1>1. n \in Nat /\ For(s, e.id)' = For(s, e.id) /\ n \in DOMAIN file[s] /\ \A i : For(s, i) \subseteq Nat
  BY Entry DEF For
<1>2. (Entered(s, e.id, n))'
  <2>1. n \in UpTo(s, e.id, n)' /\ \A h \in UpTo(s, e.id, n)' : h <= n
    BY <1>1 DEF UpTo, For
  <2>. QED  BY <2>1 DEF Entered
<1>3. ASSUME NEW i \in Id \ {e.id} PROVE (Entered(s, i, n))'
  <2>1. UpTo(s, i, n)' = UpTo(s, i, n - 1)'
    BY <1>1 DEF UpTo, For
  <2>. QED  BY <2>1 DEF Entered
<1>. QED  BY <1>2, <1>3

-----------------------------------------------------------------------------
Entries == {"nfs", "nodes", "tenants"}

(* What one entry of a section other than the routes writes. *)
LEMMA EntryRead ==
    ASSUME ConfigTypeOK, NEW s \in Sections, s \in DOMAIN file, ReadEntry(s)
    PROVE  LET e == file[s][at.entry] IN
           /\ s \in Entries /\ at.entry \in 1 .. Len(file[s]) /\ UNCHANGED <<file, before>>
           /\ Shape(cfg')
           /\ \A f \in DOMAIN cfg \ {s, "inter_node_rt", "local_node_idx"} : cfg'[f] = cfg[f]
           /\ s # "nfs" => cfg'.inter_node_rt = cfg.inter_node_rt
           /\ s # "nodes" => cfg'.local_node_idx = cfg.local_node_idx
           /\ IF Whole(s, e) THEN Go(s, at.entry + 1) ELSE Serve
           /\ Whole(s, e) =>
                /\ "id" \in DOMAIN e /\ e.id \in Id
                /\ \A i \in Id \ {e.id} :
                      /\ PlaceOf(s, i) \in Id => cfg'[s][PlaceOf(s, i)] = cfg[s][PlaceOf(s, i)]
                      /\ cfg'.inter_node_rt[i] = cfg.inter_node_rt[i]
                /\ Agrees(cfg', s, e.id, e)
                /\ s = "nodes" => cfg'.local_node_idx =
                       IF e.hostname = Host THEN at.entry - 1 ELSE cfg.local_node_idx
<1>. DEFINE e == file[s][at.entry]
            p == PlaceOf(s, e.id)
            c == Filled(s, p, e)
<1>1. /\ s \in Entries /\ at.entry \in 1 .. Len(file[s]) /\ UNCHANGED <<file, before>>
      /\ IF Whole(s, e) THEN Go(s, at.entry + 1) ELSE Serve
  BY AtFacts DEF ReadEntry, Reads, Sections, Entries, ConfigTypeOK
<1>2. Shape(cfg) /\ FileOK /\ Sections \subseteq DOMAIN cfg
  BY DEF ConfigTypeOK, Shape
<1>3. CASE "id" \notin DOMAIN e
  <2>1. cfg' = cfg /\ ~Whole(s, e)
    BY <1>3, WholeHasAll DEF ReadEntry
  <2>. QED  BY <1>1, <1>2, <2>1
<1>4. CASE "id" \in DOMAIN e
  <2>1. e.id \in Id /\ p \in Id /\ (s = "nfs" => e.id # 0)
    BY <1>1, <1>2, <1>4, Entry, ConfigAssumption DEF PlaceOf, Id
  <2>2. /\ Shape(c)
        /\ \A f \in DOMAIN cfg \ {s} : c[f] = cfg[f]
        /\ \A i \in Id \ {p} : c[s][i] = cfg[s][i]
        /\ \A f \in Stored[s] : c[s][p][f] = IF f \in Got(s, e) THEN e[f] ELSE cfg[s][p][f]
    BY <1>2, <2>1, FilledShape
  <2>3. \A i \in Id \ {e.id} : PlaceOf(s, i) \in Id => PlaceOf(s, i) # p
    BY <2>1, ConfigAssumption DEF PlaceOf, Id
  <2>4. Whole(s, e) => \A f \in Range(Fields[s]) \ {"id"} : c[s][p][f] = e[f]
    BY <1>1, <2>2, WholeHasAll, StoredFields DEF Entries
  <2>5. CASE s = "tenants"
    <3>1. cfg' = c
      BY <1>4, <2>5 DEF ReadEntry, TenantWritten, PlaceOf
    <3>. HIDE DEF c, p, e
    <3>2. Whole(s, e) => Agrees(cfg', s, e.id, e)
      BY <1>1, <2>4, <2>5, <3>1 DEF Agrees, PlaceOf, p, e
    <3>. QED  BY <1>1, <1>2, <1>4, <2>1, <2>2, <2>3, <2>5, <3>1, <3>2 DEF Shape, e
  <2>6. CASE s = "nodes"
    <3>. DEFINE mine == "hostname" \in Got("nodes", e) /\ e.hostname = Host
    <3>1. cfg' = IF mine THEN [c EXCEPT !.local_node_idx = at.entry - 1] ELSE c
      BY <1>4, <2>6 DEF ReadEntry, NodeWritten, PlaceOf
    <3>2. Whole(s, e) => "hostname" \in Got("nodes", e)
      BY <2>6, FieldsAre DEF Whole
    <3>. HIDE DEF c, p, e, mine
    <3>0. /\ DOMAIN cfg' = DOMAIN c /\ \A f \in DOMAIN c \ {"local_node_idx"} : cfg'[f] = c[f]
          /\ cfg'.local_node_idx = IF mine THEN at.entry - 1 ELSE c.local_node_idx
      BY <2>2, <3>1 DEF Shape
    <3>a. \A f \in Sections \union {"count", "inter_node_rt"} : cfg'[f] = c[f]
      BY <2>2, <3>0 DEF Shape, Sections
    <3>b. Shape(cfg')
      BY <2>2, <3>0, <3>a DEF Shape, Sections
    <3>3. /\ Shape(cfg') /\ \A f \in DOMAIN cfg \ {s, "local_node_idx"} : cfg'[f] = cfg[f]
          /\ cfg'[s] = c[s]
          /\ cfg'.local_node_idx = IF mine THEN at.entry - 1 ELSE cfg.local_node_idx
      BY <1>2, <2>2, <2>6, <3>0, <3>a, <3>b DEF Shape, Sections
    <3>4. Whole(s, e) => Agrees(cfg', s, e.id, e)
      BY <1>1, <2>4, <2>6, <3>3 DEF Agrees, PlaceOf, p, e
    <3>. QED  BY <1>1, <1>2, <1>4, <2>1, <2>2, <2>3, <2>6, <3>2, <3>3, <3>4 DEF Shape, e, mine, Sections
  <2>7. CASE s = "nfs"
    <3>. DEFINE node == IF "node" \in DOMAIN e THEN e.node ELSE 0
    <3>1. cfg' = IF Whole(s, e)
                 THEN [c EXCEPT !.nfs[p].node = node, !.inter_node_rt[e.id] = node] ELSE c
      BY <1>4, <2>7 DEF ReadEntry, NfWritten, PlaceOf
    <3>. HIDE DEF c, p, e, node
    <3>2. CASE ~Whole(s, e)
      <4>1. cfg' = c
        BY <3>1, <3>2
      <4>. QED  BY <1>1, <1>2, <1>4, <2>1, <2>2, <2>7, <3>2, <4>1 DEF Shape, e
    <3>3. CASE Whole(s, e)
      <4>1. cfg' = [c EXCEPT !.nfs = [c.nfs EXCEPT ![p] = [c.nfs[p] EXCEPT !.node = node]],
                             !.inter_node_rt = [c.inter_node_rt EXCEPT ![e.id] = node]]
        BY <3>1, <3>3
      <4>2. /\ DOMAIN cfg' = DOMAIN c /\ \A f \in DOMAIN c \ {"nfs", "inter_node_rt"} : cfg'[f] = c[f]
            /\ cfg'.nfs = [c.nfs EXCEPT ![p] = [c.nfs[p] EXCEPT !.node = node]]
            /\ cfg'.inter_node_rt = [c.inter_node_rt EXCEPT ![e.id] = node]
        BY <2>2, <4>1 DEF Shape, Sections
      <4>3. /\ \A i \in Id \ {p} : cfg'.nfs[i] = c.nfs[i]
            /\ DOMAIN cfg'.nfs = Id /\ DOMAIN cfg'.nfs[p] = Stored["nfs"]
            /\ cfg'.nfs[p].node = node /\ \A f \in Stored["nfs"] \ {"node"} : cfg'.nfs[p][f] = c.nfs[p][f]
        BY <2>1, <2>2, <4>2 DEF Shape, Sections, Stored
      <4>4. /\ DOMAIN cfg'.inter_node_rt = Id /\ cfg'.inter_node_rt[e.id] = node
            /\ \A i \in Id \ {e.id} : cfg'.inter_node_rt[i] = c.inter_node_rt[i]
        BY <2>1, <2>2, <4>2 DEF Shape
      <4>5. Shape(cfg')
        <5>1. \A u \in Sections \ {"nfs"} : cfg'[u] = c[u]
          BY <2>2, <4>2 DEF Shape, Sections
        <5>2. cfg'.count = c.count
          BY <2>2, <4>2 DEF Shape
        <5>3. \A u \in Sections : DOMAIN cfg'[u] = Id /\ \A i \in Id : DOMAIN cfg'[u][i] = Stored[u]
          BY <2>2, <4>3, <5>1 DEF Shape
        <5>4. \A i \in Id : DOMAIN cfg'.routes[i].hop = 1 .. Hops
          BY <2>2, <5>1 DEF Shape, Sections
        <5>. QED  BY <2>2, <4>2, <4>4, <5>2, <5>3, <5>4 DEF Shape
      <4>6. \A f \in Range(Fields["nfs"]) \ {"id"} : cfg'.nfs[p][f] = e[f]
        BY <2>4, <2>7, <3>3, <4>3, FieldsAre DEF Stored
      <4>7. Agrees(cfg', s, e.id, e)
        BY <1>1, <2>7, <4>3, <4>4, <4>6 DEF Agrees, PlaceOf, p, e
      <4>8. \A i \in Id \ {e.id} :
                /\ PlaceOf(s, i) \in Id => cfg'[s][PlaceOf(s, i)] = cfg[s][PlaceOf(s, i)]
                /\ cfg'.inter_node_rt[i] = cfg.inter_node_rt[i]
        BY <1>2, <2>2, <2>3, <2>7, <4>3, <4>4 DEF Shape
      <4>9. \A f \in DOMAIN cfg \ {s, "inter_node_rt", "local_node_idx"} : cfg'[f] = cfg[f]
        BY <1>2, <2>2, <2>7, <4>2 DEF Shape
      <4>10. cfg'.local_node_idx = cfg.local_node_idx
        BY <1>2, <2>2, <2>7, <4>2 DEF Shape
      <4>. QED  BY <1>1, <1>4, <2>1, <2>7, <3>3, <4>5, <4>7, <4>8, <4>9, <4>10 DEF e
    <3>. QED  BY <3>2, <3>3
  <2>. QED  BY <1>1, <2>5, <2>6, <2>7 DEF Entries
<1>. QED  BY <1>3, <1>4

-----------------------------------------------------------------------------
(* Nothing of a section is there before its head is read. *)
LEMMA OrderOfSections ==
    /\ \A s \in Sections : Order[s] \in 1 .. 4
    /\ \A s, u \in Sections : Order[s] = Order[u] => s = u
  BY DEF Order, Sections

(* A file is read on where the last section was read to its end. *)
LEMMA ReachedInOrder ==
    ASSUME NEW s \in Sections, Underway(s), FileOK
    PROVE  Reached(s) /\ \A u \in Sections : Order[u] < Order[s] => WholeSection(u)
<1>1. \A u \in Sections : Order[u] < Order[s] => WholeSection(u)
  BY Entry DEF Underway, Written, WholeSection, FileOK, Fits
<1>. QED  BY <1>1 DEF Reached, Underway, Order, Sections

(* Where a section ends too early, what was written before it is there.    *)
LEMMA EndedEarly ==
    ASSUME NEW s \in Sections, Underway(s), Underway(s)', FileOK, UNCHANGED <<file, before>>,
           s \notin DOMAIN file => cfg'[s] = before[s],
           s \in DOMAIN file => ~WholeSection(s)
    PROVE  Done'
<1>. SUFFICES ASSUME NEW u \in Sections
              PROVE  IF ~Reached(u)' \/ u \notin DOMAIN file THEN cfg'[u] = before[u]
                     ELSE WholeSection(u)' =>
                             (Written(u, Len(file[u])) /\ \A i \in Id : Entered(u, i, Len(file[u])))'
  BY DEF Done
<1>0. Reached(u)' = Reached(u) /\ WholeSection(u)' = WholeSection(u)
  BY DEF Reached, WholeSection
<1>1. CASE Order[u] < Order[s]
  <2>1. Reached(u) /\ u \in DOMAIN file
    BY <1>1, ReachedInOrder DEF Reached, Order, Sections, Underway, Written
  <2>2. (Written(u, Len(file[u])) /\ \A i \in Id : Entered(u, i, Len(file[u])))'
    BY <1>1 DEF Underway
  <2>. QED  BY <1>0, <2>1, <2>2
<1>2. CASE Order[u] > Order[s]
  <2>1. ~Reached(u)
    BY <1>2 DEF Reached, WholeSection, Order, Sections
  <2>2. cfg'[u] = before[u]
    BY <1>2 DEF Underway
  <2>. QED  BY <1>0, <2>1, <2>2
<1>3. CASE u = s
  <2>1. Reached(s)
    BY ReachedInOrder
  <2>. QED  BY <1>0, <1>3, <2>1 DEF WholeSection
<1>. QED  BY <1>1, <1>2, <1>3, OrderOfSections

(* After the last section, everything is in the region. *)
LEMMA EndedWell ==
    ASSUME Underway("tenants"), FileOK, Written("tenants", Len(file["tenants"])),
           \A i \in Id : Entered("tenants", i, Len(file["tenants"]))
    PROVE  Done
<1>1. \A u \in Sections : Written(u, Len(file[u])) /\ \A i \in Id : Entered(u, i, Len(file[u]))
  BY DEF Underway, Order, Sections
<1>2. Reached("tenants") /\ \A u \in Sections : Order[u] < 4 => WholeSection(u)
  BY ReachedInOrder DEF Sections, Order
<1>3. \A u \in Sections : Reached(u) /\ u \in DOMAIN file
  BY <1>1, <1>2 DEF Reached, Sections, Written
<1>. QED  BY <1>1, <1>3 DEF Done

(* What was read or is still to be read stays when another section is read *)
LEMMA UnderwayKept ==
    ASSUME NEW s \in Sections, Underway(s), FileOK, UNCHANGED <<file, before>>,
           \A u \in Sections \ {s} : cfg'[u] = cfg[u] /\ cfg'.count[u] = cfg.count[u],
           s # "nfs" => cfg'.inter_node_rt = cfg.inter_node_rt,
           s # "nodes" => cfg'.local_node_idx = cfg.local_node_idx
    PROVE  Underway(s)'
<1>1. ASSUME NEW u \in Sections, Order[u] < Order[s]
      PROVE  (Written(u, Len(file[u])) /\ \A i \in Id : Entered(u, i, Len(file[u])))'
  <2>1. u # s /\ u \in DOMAIN file
    BY <1>1, OrderOfSections DEF Underway, Written
  <2>2. cfg'[u] = cfg[u] /\ cfg'.count[u] = cfg.count[u]
    BY <2>1
  <2>3. (u = "nfs" => s # "nfs") /\ (u = "nodes" => s # "nodes")
    BY <2>1
  <2>4. Written(u, Len(file[u])) /\ \A i \in Id : Entered(u, i, Len(file[u]))
    BY <1>1 DEF Underway
  <2>. QED  BY <2>1, <2>2, <2>3, <2>4, SectionKept
<1>2. \A u \in Sections : Order[u] > Order[s] => (cfg[u] = before[u])'
  BY OrderOfSections DEF Underway
<1>. QED  BY <1>1, <1>2 DEF Underway

(* Where nothing is written, what was true of the region still is.         *)
LEMMA SameWritten ==
    ASSUME UNCHANGED <<cfg, file, before>>
    PROVE  /\ \A s \in Sections : Underway(s) <=> Underway(s)'
           /\ \A s \in Sections : \A n : Written(s, n) <=> Written(s, n)'
           /\ \A s \in Sections, i \in Id : \A n : Entered(s, i, n) <=> Entered(s, i, n)'
           /\ Done <=> Done'
<1>1. \A s, i, n : UpTo(s, i, n)' = UpTo(s, i, n) /\ For(s, i)' = For(s, i)
  BY DEF UpTo, For
<1>2. ASSUME NEW s \in Sections, NEW i \in Id, NEW n
      PROVE  Entered(s, i, n) <=> Entered(s, i, n)'
  BY <1>1 DEF Entered, PlaceOf, Agrees
<1>3. ASSUME NEW s \in Sections, NEW n
      PROVE  Written(s, n) <=> Written(s, n)'
  <2>1. (HostKnown(n) <=> HostKnown(n)') /\ (Counted(s) <=> Counted(s)')
    BY DEF HostKnown, InPlace, Counted
  <2>. QED  BY <2>1 DEF Written
<1>4. ASSUME NEW s \in Sections PROVE Underway(s) <=> Underway(s)'
  <2>1. \A u \in Sections : \A n : Written(u, n) <=> Written(u, n)'
    BY <1>3
  <2>2. \A u \in Sections, i \in Id : \A n : Entered(u, i, n) <=> Entered(u, i, n)'
    BY <1>2
  <2>. QED  BY <2>1, <2>2 DEF Underway
<1>5. Done <=> Done'
  <2>1. \A u \in Sections : \A n : Written(u, n) <=> Written(u, n)'
    BY <1>3
  <2>2. \A u \in Sections, i \in Id : \A n : Entered(u, i, n) <=> Entered(u, i, n)'
    BY <1>2
  <2>3. \A u \in Sections : (Reached(u) <=> Reached(u)') /\ (WholeSection(u) <=> WholeSection(u)')
    BY DEF Reached, WholeSection
  <2>. QED  BY <2>1, <2>2, <2>3 DEF Done
<1>. QED  BY <1>2, <1>3, <1>4, <1>5

(* A step that does nothing keeps the invariant. *)
LEMMA NothingMoves ==
    ASSUME ConfigInv, UNCHANGED <<cfg, file, at, before>>
    PROVE  ConfigInv'
<1>1. ConfigTypeOK'
  BY DEF ConfigInv, ConfigTypeOK, FileOK
<1>2. \A s \in Sections : Reading(s) => Reading(s)'
  <2>. SUFFICES ASSUME NEW s \in Sections, Reading(s) PROVE Reading(s)'
    OBVIOUS
  <2>1. "routes" \in Sections
    BY DEF Sections
  <2>2. \A n : Written(s, n) <=> Written(s, n)'
    BY SameWritten
  <2>3. \A u \in Sections, i \in Id : \A n : Entered(u, i, n) <=> Entered(u, i, n)'
    BY SameWritten
  <2>4. Underway(s) <=> Underway(s)'
    BY SameWritten
  <2>5. Whole("routes", file.routes[at.entry]) <=> Whole("routes", file.routes[at.entry])'
    OBVIOUS
  <2>. QED  BY <2>1, <2>2, <2>3, <2>4, <2>5 DEF Reading
<1>3. Done <=> Done'
  BY SameWritten
<1>. QED  BY <1>1, <1>2, <1>3 DEF ConfigInv, Reads

-----------------------------------------------------------------------------
(* The actions. *)
LEMMA InitConfig == ConfigInit => ConfigInv
<1>. SUFFICES ASSUME ConfigInit PROVE ConfigInv
  OBVIOUS
<1>1. ConfigTypeOK
  BY InitShape DEF ConfigInit, ConfigTypeOK, Places, FileOK, Sections
<1>. QED  BY <1>1 DEF ConfigInit, ConfigInv, Reads, Sections

(* The next manager: the region is as the last has left it. *)
LEMMA StartKeeps ==
    ASSUME ConfigInv, NEW f \in Files, Start(f)
    PROVE  ConfigInv'
<1>1. cfg' = cfg /\ before' = cfg /\ file' = f
  BY DEF Start
<1>2. at' \in Places /\ at'.section = "name"
  BY GoneToSection DEF Start
<1>3. ConfigTypeOK'
  BY <1>1, <1>2, ConfigAssumption DEF ConfigInv, ConfigTypeOK, FileOK
<1>. QED  BY <1>1, <1>2, <1>3 DEF ConfigInv, Reads, Sections

(* The manager is ended from outside, wherever it is. *)
LEMMA KillKeeps ==
    ASSUME ConfigInv, Kill
    PROVE  ConfigInv'
<1>1. ConfigTypeOK' /\ at'.section = "down"
  BY DEF Kill, ConfigInv, ConfigTypeOK, Places, FileOK
<1>. QED  BY <1>1 DEF ConfigInv, Reads, Sections

(* Without a name, nothing is read. *)
LEMMA NameKeeps ==
    ASSUME ConfigInv, ReadName
    PROVE  ConfigInv'
<1>1. Reads("name") /\ UNCHANGED <<file, before>> /\ \A s \in Sections : cfg[s] = before[s]
  BY DEF ConfigInv, ReadName
<1>2. CASE "name" \in DOMAIN file
  <2>1. cfg' = [cfg EXCEPT !.name = file.name] /\ at' \in Places /\ at'.section = "nfs" /\ at'.entry = 0
    BY <1>2, GoneToSection DEF ReadName, Sections
  <2>2. Shape(cfg') /\ \A s \in Sections : cfg'[s] = cfg[s]
    BY <2>1 DEF ConfigInv, ConfigTypeOK, Shape, Sections
  <2>3. ConfigTypeOK'
    BY <1>1, <2>1, <2>2 DEF ConfigInv, ConfigTypeOK, FileOK
  <2>4. Reading("nfs")'
    BY <1>1, <1>2, <2>1, <2>2 DEF Reading, Underway, Order, Sections
  <2>. QED  BY <2>1, <2>3, <2>4 DEF ConfigInv, Reads, Sections
<1>3. CASE "name" \notin DOMAIN file
  <2>1. cfg' = cfg /\ at' \in Places /\ at'.section = "served"
    BY <1>3, GoneToSection DEF ReadName, Serve
  <2>2. ConfigTypeOK'
    BY <1>1, <2>1 DEF ConfigInv, ConfigTypeOK, FileOK
  <2>3. Done'
    BY <1>1, <1>3, <2>1 DEF Done, Reached
  <2>. QED  BY <2>1, <2>2, <2>3 DEF ConfigInv, Reads, Sections
<1>. QED  BY <1>2, <1>3

(* The two ends of a step: the manager is done, or reads on. *)
LEMMA ServedKeeps ==
    ASSUME ConfigTypeOK, Shape(cfg'), UNCHANGED <<file, before>>, Serve, Done'
    PROVE  ConfigInv'
<1>1. at' \in Places /\ at'.section = "served"
  BY GoneToSection DEF Serve
<1>2. ConfigTypeOK'
  BY <1>1 DEF ConfigTypeOK, FileOK
<1>. QED  BY <1>1, <1>2 DEF ConfigInv, Reads, Sections

(* What is left to show where it reads on. *)
LEMMA ReadingKeeps ==
    ASSUME ConfigTypeOK, Shape(cfg'), UNCHANGED <<file, before>>,
           at' \in Places, NEW s \in Sections, at'.section = s, Reading(s)'
    PROVE  ConfigInv'
<1>1. ConfigTypeOK'
  BY DEF ConfigTypeOK, FileOK
<1>. QED  BY <1>1 DEF ConfigInv, Reads, Sections

(* The head of a section: its count, and no entry yet. *)
LEMMA HeadKeeps ==
    ASSUME ConfigInv, NEW s \in Sections, ReadHead(s)
    PROVE  ConfigInv'
<1>1. /\ at.section = s /\ at.entry = 0 /\ "hop" \notin DOMAIN at /\ UNCHANGED <<file, before>>
      /\ Underway(s) /\ cfg[s] = before[s] /\ FileOK /\ ConfigTypeOK /\ Shape(cfg)
  BY AtFacts DEF ReadHead, Reads, ConfigInv, Reading, ConfigTypeOK
<1>2. CASE s \notin DOMAIN file
  <2>1. Serve /\ cfg' = cfg
    BY <1>2 DEF ReadHead
  <2>2. Underway(s)'
    BY <1>1, <2>1, UnderwayKept
  <2>3. Done'
    BY <1>1, <1>2, <2>1, <2>2, EndedEarly
  <2>. QED  BY <1>1, <2>1, <2>3, ServedKeeps
<1>3. CASE s \in DOMAIN file
  <2>. DEFINE n == IF s = "routes" THEN (Len(file[s]) + 1) % 256
                   ELSE IF s = "tenants" THEN Len(file[s]) ELSE Len(file[s]) % 256
  <2>1. /\ cfg' = IF s = "routes"
                  THEN [cfg EXCEPT !.count[s] = n, !.routes[0].name = "Default", !.routes[0].length = 0]
                  ELSE [cfg EXCEPT !.count[s] = n]
        /\ at' \in Places /\ at'.section = s /\ at'.entry = 1 /\ "hop" \notin DOMAIN at'
    BY <1>3, GoneTo DEF ReadHead
  <2>2. n = Len(file[s]) + (IF s = "routes" THEN 1 ELSE 0) /\ Len(file[s]) \in Nat
    BY <1>1, <1>3 DEF FileOK, Fits
  <2>. HIDE DEF n
  <2>3. /\ Shape(cfg') /\ cfg'.count[s] = n
        /\ \A u \in Sections \ {s} : cfg'[u] = cfg[u] /\ cfg'.count[u] = cfg.count[u]
        /\ cfg'.inter_node_rt = cfg.inter_node_rt /\ cfg'.local_node_idx = cfg.local_node_idx
        /\ \A i \in Id : <<s, i>> # <<"routes", 0>> => cfg'[s][i] = cfg[s][i]
    <3>1. CASE s # "routes"
      BY <1>1, <2>1, <3>1 DEF Shape, Sections
    <3>2. CASE s = "routes"
      <4>. DEFINE r == [cfg.routes[0] EXCEPT !.name = "Default", !.length = 0]
      <4>1. 0 \in Id
        BY ConfigAssumption DEF Id
      <4>2. cfg' = [cfg EXCEPT !.count = [cfg.count EXCEPT ![s] = n], !.routes = [cfg.routes EXCEPT ![0] = r]]
        <5>. DEFINE c1 == [cfg EXCEPT !.count[s] = n]
                    c2 == [c1 EXCEPT !.routes[0].name = "Default"]
        <5>1. cfg' = [c2 EXCEPT !.routes[0].length = 0]
          BY <2>1, <3>2
        <5>2. c1 = [cfg EXCEPT !.count = [cfg.count EXCEPT ![s] = n]]
          OBVIOUS
        <5>3. /\ DOMAIN c1 = DOMAIN cfg /\ c1.routes = cfg.routes
          BY <1>1, <5>2 DEF Shape, Sections
        <5>. HIDE DEF c1
        <5>4. c2 = [c1 EXCEPT !.routes = [cfg.routes EXCEPT ![0] = [cfg.routes[0] EXCEPT !.name = "Default"]]]
          BY <5>3
        <5>5. c2.routes = [cfg.routes EXCEPT ![0] = [cfg.routes[0] EXCEPT !.name = "Default"]]
          BY <1>1, <5>3, <5>4 DEF Shape
        <5>. HIDE DEF c2
        <5>6. [c2.routes EXCEPT ![0].length = 0] = [cfg.routes EXCEPT ![0] = r]
          BY <1>1, <4>1, <5>5 DEF Shape
        <5>7. cfg' = [c2 EXCEPT !.routes = [cfg.routes EXCEPT ![0] = r]]
          BY <5>1, <5>6
        <5>. QED  BY <5>2, <5>4, <5>7
      <4>3. DOMAIN r = Stored["routes"] /\ DOMAIN r.hop = 1 .. Hops
        BY <1>1, <4>1 DEF Shape, Sections, Stored
      <4>. HIDE DEF r
      <4>4. /\ DOMAIN cfg' = DOMAIN cfg /\ \A f \in DOMAIN cfg \ {"count", "routes"} : cfg'[f] = cfg[f]
            /\ cfg'.count = [cfg.count EXCEPT ![s] = n]
            /\ cfg'.routes = [cfg.routes EXCEPT ![0] = r]
        BY <1>1, <4>2 DEF Shape, Sections
      <4>5. Shape(cfg')
        <5>1. /\ DOMAIN cfg'.routes = Id /\ \A i \in Id : DOMAIN cfg'.routes[i] = Stored["routes"]
              /\ \A i \in Id : DOMAIN cfg'.routes[i].hop = 1 .. Hops
          BY <1>1, <4>1, <4>3, <4>4 DEF Shape, Sections
        <5>2. \A u \in Sections \ {"routes"} : cfg'[u] = cfg[u]
          BY <1>1, <4>4 DEF Shape, Sections
        <5>3. \A u \in Sections : DOMAIN cfg'[u] = Id /\ \A i \in Id : DOMAIN cfg'[u][i] = Stored[u]
          BY <1>1, <5>1, <5>2 DEF Shape
        <5>4. DOMAIN cfg'.count = Sections /\ cfg'.inter_node_rt = cfg.inter_node_rt
          BY <1>1, <4>4 DEF Shape, Sections
        <5>. QED  BY <1>1, <4>4, <5>1, <5>3, <5>4 DEF Shape
      <4>. QED  BY <1>1, <3>2, <4>4, <4>5 DEF Shape, Sections
    <3>. QED  BY <3>1, <3>2
  <2>4. Underway(s)'
    BY <1>1, <2>3, UnderwayKept
  <2>5. Written(s, 0)'
    BY <1>1, <1>3, <2>2, <2>3 DEF Written, Counted, HostKnown
  <2>6. \A i \in Id : Entered(s, i, 0)'
    <3>. SUFFICES ASSUME NEW i \in Id PROVE Entered(s, i, 0)'
      OBVIOUS
    <3>1. UpTo(s, i, 0)' = {}
      BY <1>1, <1>3 DEF UpTo, For, FileOK, Fits
    <3>2. PlaceOf(s, i) \in Id /\ <<s, i>> # <<"routes", 0>> => cfg'[s][PlaceOf(s, i)] = before[s][PlaceOf(s, i)]
      BY <1>1, <2>3 DEF PlaceOf
    <3>. QED  BY <1>1, <3>1, <3>2 DEF Entered, PlaceOf
  <2>7. Reading(s)'
    BY <2>1, <2>4, <2>5, <2>6 DEF Reading
  <2>. QED  BY <1>1, <2>1, <2>3, <2>7, ReadingKeeps
<1>. QED  BY <1>2, <1>3

(* An entry: one more is written, or it is not whole and the last. *)
LEMMA EntryKeeps ==
    ASSUME ConfigInv, NEW s \in Sections, s \in DOMAIN file, ReadEntry(s),
           NEW n, n = at.entry, NEW e, e = file[s][n]
    PROVE  ConfigInv'
<1>1. /\ s \in Entries /\ n \in 1 .. Len(file[s]) /\ UNCHANGED <<file, before>>
      /\ Shape(cfg')
      /\ \A f \in DOMAIN cfg \ {s, "inter_node_rt", "local_node_idx"} : cfg'[f] = cfg[f]
      /\ s # "nfs" => cfg'.inter_node_rt = cfg.inter_node_rt
      /\ s # "nodes" => cfg'.local_node_idx = cfg.local_node_idx
      /\ IF Whole(s, e) THEN Go(s, n + 1) ELSE Serve
      /\ Whole(s, e) =>
            /\ "id" \in DOMAIN e /\ e.id \in Id
            /\ \A i \in Id \ {e.id} :
                  /\ PlaceOf(s, i) \in Id => cfg'[s][PlaceOf(s, i)] = cfg[s][PlaceOf(s, i)]
                  /\ cfg'.inter_node_rt[i] = cfg.inter_node_rt[i]
            /\ Agrees(cfg', s, e.id, e)
            /\ s = "nodes" => cfg'.local_node_idx =
                   IF e.hostname = Host THEN n - 1 ELSE cfg.local_node_idx
  BY EntryRead DEF ConfigInv
<1>2. /\ at.section = s /\ "hop" \notin DOMAIN at /\ n > 0 /\ n \in Nat
      /\ FileOK /\ ConfigTypeOK /\ Shape(cfg) /\ Reading(s)
      /\ Len(file[s]) \in Nat /\ n \in DOMAIN file[s] /\ DOMAIN file[s] = 1 .. Len(file[s])
  BY <1>1, AtFacts, Entry DEF ReadEntry, Reads, ConfigInv, ConfigTypeOK, Entries
<1>3. Underway(s) /\ Written(s, n - 1) /\ \A i \in Id : Entered(s, i, n - 1)
  BY <1>2 DEF Reading
<1>4. /\ \A u \in Sections \ {s} : cfg'[u] = cfg[u] /\ cfg'.count[u] = cfg.count[u]
      /\ cfg'.count = cfg.count
  BY <1>1, <1>2 DEF Shape, Sections
<1>5. Underway(s)'
  BY <1>1, <1>2, <1>3, <1>4, UnderwayKept
<1>6. CASE ~Whole(s, e)
  <2>1. ~WholeSection(s)
    BY <1>2, <1>6 DEF WholeSection
  <2>2. Done'
    BY <1>1, <1>2, <1>3, <1>5, <2>1, EndedEarly
  <2>. QED  BY <1>1, <1>2, <1>6, <2>2, ServedKeeps
<1>7. CASE Whole(s, e)
  <2>1. at' \in Places /\ at'.section = s /\ at'.entry = n + 1 /\ "hop" \notin DOMAIN at'
    BY <1>1, <1>2, <1>7, GoneTo
  <2>2. \A i \in Id \ {e.id} : Entered(s, i, n - 1)'
    BY <1>1, <1>2, <1>3, <1>7, EnteredKept
  <2>3. \A i \in Id : Entered(s, i, n)'
    BY <1>1, <1>2, <1>7, <2>2, EnteredNext
  <2>4. Written(s, n)'
    <3>1. \A k \in 1 .. n : Whole(s, file'[s][k])
      BY <1>1, <1>2, <1>3, <1>7 DEF Written
    <3>2. Counted(s)'
      BY <1>1, <1>3, <1>4 DEF Written, Counted
    <3>3. s = "nodes" => HostKnown(n)'
      <4>. SUFFICES ASSUME s = "nodes", InPlace PROVE HostKnown(n)'
        BY <1>1 DEF HostKnown, InPlace
      <4>1. HostKnown(n - 1)
        BY <1>3 DEF Written
      <4>2. CASE e.hostname = Host
        <5>1. cfg'.local_node_idx = n - 1 /\ file'.nodes[n].hostname = Host
          BY <1>1, <1>7, <4>2
        <5>. QED  BY <1>2, <5>1 DEF HostKnown
      <4>3. CASE e.hostname # Host
        <5>1. cfg'.local_node_idx = cfg.local_node_idx /\ file'.nodes[n].hostname # Host
          BY <1>1, <1>7, <4>3
        <5>. QED  BY <1>1, <1>2, <4>1, <5>1 DEF HostKnown
      <4>. QED  BY <4>2, <4>3
    <3>. QED  BY <1>1, <1>2, <3>1, <3>2, <3>3 DEF Written
  <2>5. Reading(s)'
    BY <1>2, <1>5, <2>1, <2>3, <2>4 DEF Reading
  <2>. QED  BY <1>1, <1>2, <2>1, <2>5, ReadingKeeps
<1>. QED  BY <1>6, <1>7

(* One route is written, and nothing else. *)
LEMMA RouteShape ==
    ASSUME Shape(cfg), NEW i \in Id, NEW r, DOMAIN r = Stored["routes"], DOMAIN r.hop = 1 .. Hops,
           cfg' = [cfg EXCEPT !.routes = [cfg.routes EXCEPT ![i] = r]]
    PROVE  /\ Shape(cfg') /\ cfg'.routes[i] = r
           /\ \A h \in Id \ {i} : cfg'.routes[h] = cfg.routes[h]
           /\ \A u \in Sections \ {"routes"} : cfg'[u] = cfg[u] /\ cfg'.count[u] = cfg.count[u]
           /\ cfg'.count = cfg.count
           /\ cfg'.inter_node_rt = cfg.inter_node_rt /\ cfg'.local_node_idx = cfg.local_node_idx
<1>1. /\ DOMAIN cfg' = DOMAIN cfg /\ \A f \in DOMAIN cfg \ {"routes"} : cfg'[f] = cfg[f]
      /\ cfg'.routes = [cfg.routes EXCEPT ![i] = r]
  BY DEF Shape, Sections
<1>2. /\ DOMAIN cfg'.routes = Id /\ cfg'.routes[i] = r
      /\ \A h \in Id \ {i} : cfg'.routes[h] = cfg.routes[h]
  BY <1>1 DEF Shape, Sections
<1>3. cfg'.count = cfg.count /\ cfg'.inter_node_rt = cfg.inter_node_rt /\ cfg'.local_node_idx = cfg.local_node_idx
  BY <1>1 DEF Shape
<1>4. \A u \in Sections \ {"routes"} : cfg'[u] = cfg[u]
  BY <1>1 DEF Shape
<1>5. \A u \in Sections : DOMAIN cfg'[u] = Id /\ \A h \in Id : DOMAIN cfg'[u][h] = Stored[u]
  <2>1. DOMAIN cfg'.routes = Id /\ \A h \in Id : DOMAIN cfg'.routes[h] = Stored["routes"]
    BY <1>2 DEF Shape, Sections
  <2>2. \A u \in Sections \ {"routes"} : DOMAIN cfg'[u] = Id /\ \A h \in Id : DOMAIN cfg'[u][h] = Stored[u]
    BY <1>4 DEF Shape
  <2>. QED  BY <2>1, <2>2
<1>6. \A h \in Id : DOMAIN cfg'.routes[h].hop = 1 .. Hops
  BY <1>2 DEF Shape
<1>7. Shape(cfg')
  BY <1>1, <1>3, <1>5, <1>6 DEF Shape
<1>. QED  BY <1>2, <1>3, <1>4, <1>7

(* The name and the length of a route: where it is not whole, that is all. *)
LEMMA RouteKeeps ==
    ASSUME ConfigInv, "routes" \in DOMAIN file, ReadRoute,
           NEW n, n = at.entry, NEW e, e = file.routes[n]
    PROVE  ConfigInv'
<1>1. /\ at.section = "routes" /\ "hop" \notin DOMAIN at /\ n \in 1 .. Len(file.routes) /\ n \in Nat
      /\ UNCHANGED <<file, before>> /\ FileOK /\ ConfigTypeOK /\ Shape(cfg) /\ Reading("routes")
      /\ "routes" \in Sections
      /\ Len(file.routes) \in Nat /\ DOMAIN file.routes = 1 .. Len(file.routes)
  <2>1. /\ at.section = "routes" /\ "hop" \notin DOMAIN at /\ n > 0 /\ n <= Len(file.routes) /\ n \in Nat
        /\ UNCHANGED <<file, before>> /\ FileOK /\ ConfigTypeOK /\ Shape(cfg) /\ "routes" \in Sections
    BY AtFacts DEF ReadRoute, Reads, ConfigInv, ConfigTypeOK, Sections
  <2>2. Reading("routes")
    BY <2>1 DEF ConfigInv, Reads
  <2>3. Len(file.routes) \in Nat /\ DOMAIN file.routes = 1 .. Len(file.routes)
    BY <2>1 DEF FileOK, Fits
  <2>. QED  BY <2>1, <2>2, <2>3
<1>2. Underway("routes") /\ Written("routes", n - 1) /\ \A i \in Id : Entered("routes", i, n - 1)
  BY <1>1 DEF Reading
<1>. DEFINE named == IF "name" \in Got("routes", e) THEN [cfg EXCEPT !.routes[e.id].name = e.name] ELSE cfg
<1>3. CASE ~Whole("routes", e)
  <2>1. cfg' = named /\ Serve
    BY <1>3 DEF ReadRoute
  <2>2. /\ Shape(cfg')
        /\ \A u \in Sections \ {"routes"} : cfg'[u] = cfg[u] /\ cfg'.count[u] = cfg.count[u]
        /\ cfg'.inter_node_rt = cfg.inter_node_rt /\ cfg'.local_node_idx = cfg.local_node_idx
    <3>1. CASE "name" \in Got("routes", e)
      <4>1. "id" \in DOMAIN e /\ e.id \in Id
        <5>1. "id" \in DOMAIN e
          BY <3>1 DEF Got, Fields
        <5>. QED  BY <1>1, <5>1, Entry
      <4>. DEFINE r == [cfg.routes[e.id] EXCEPT !.name = e.name]
      <4>2. cfg' = [cfg EXCEPT !.routes = [cfg.routes EXCEPT ![e.id] = r]]
        BY <2>1, <3>1, <4>1
      <4>3. DOMAIN r = Stored["routes"] /\ DOMAIN r.hop = 1 .. Hops
        BY <1>1, <4>1 DEF Shape, Sections, Stored
      <4>. HIDE DEF r
      <4>. QED  BY <1>1, <4>1, <4>2, <4>3, RouteShape
    <3>2. CASE "name" \notin Got("routes", e)
      BY <1>1, <2>1, <3>2
    <3>. QED  BY <3>1, <3>2
  <2>. HIDE DEF named
  <2>4. Underway("routes")'
    BY <1>1, <1>2, <2>2, UnderwayKept
  <2>5. ~WholeSection("routes")
    BY <1>1, <1>3 DEF WholeSection
  <2>6. Done'
    BY <1>1, <1>2, <2>4, <2>5, EndedEarly
  <2>. QED  BY <1>1, <2>1, <2>2, <2>6, ServedKeeps
<1>4. CASE Whole("routes", e)
  <2>1. {"id", "name", "hops"} \subseteq DOMAIN e /\ "name" \in Got("routes", e)
    BY <1>1, <1>4, WholeHasAll, FieldsAre
  <2>2. e.id \in Id /\ Len(e.hops) \in Nat /\ Len(e.hops) % 256 = Len(e.hops)
    <3>1. e.id \in Id /\ Len(e.hops) \in Nat /\ Len(e.hops) < 256
      BY <1>1, <2>1, Entry
    <3>. DEFINE m == Len(e.hops)
    <3>2. m \in Nat /\ m < 256
      BY <3>1
    <3>. HIDE DEF m
    <3>3. m % 256 = m
      BY <3>2
    <3>. QED  BY <3>1, <3>3 DEF m
  <2>. DEFINE r == [cfg.routes[e.id] EXCEPT !.name = e.name, !.length = Len(e.hops)]
  <2>3. /\ cfg' = [named EXCEPT !.routes[e.id].length = Len(e.hops) % 256]
        /\ at' = [section |-> "routes", entry |-> n, hop |-> 1]
    BY <1>4 DEF ReadRoute
  <2>4. cfg' = [cfg EXCEPT !.routes = [cfg.routes EXCEPT ![e.id] = r]]
    <3>. DEFINE q == [cfg.routes[e.id] EXCEPT !.name = e.name]
    <3>1. named = [cfg EXCEPT !.routes = [cfg.routes EXCEPT ![e.id] = q]]
      BY <2>1
    <3>. HIDE DEF q, named, r
    <3>2. cfg' = [named EXCEPT !.routes =
                     [named.routes EXCEPT ![e.id] = [named.routes[e.id] EXCEPT !.length = Len(e.hops)]]]
      <4>1. cfg' = [named EXCEPT !.routes[e.id].length = Len(e.hops)]
        BY <2>2, <2>3
      <4>. QED  BY <4>1
    <3>3. named.routes = [cfg.routes EXCEPT ![e.id] = q] /\ named.routes[e.id] = q
      BY <1>1, <2>2, <3>1 DEF Shape, Sections
    <3>4. cfg' = [named EXCEPT !.routes = [cfg.routes EXCEPT ![e.id] = [q EXCEPT !.length = Len(e.hops)]]]
      BY <3>2, <3>3
    <3>5. r = [q EXCEPT !.length = Len(e.hops)]
      BY DEF q, r
    <3>. QED  BY <3>1, <3>4, <3>5
  <2>5. /\ DOMAIN r = Stored["routes"] /\ DOMAIN r.hop = 1 .. Hops
        /\ r.name = e.name /\ r.length = Len(e.hops)
    BY <1>1, <2>2 DEF Shape, Sections, Stored
  <2>. HIDE DEF r, named
  <2>7. /\ Shape(cfg') /\ cfg'.routes[e.id] = r
        /\ \A i \in Id \ {e.id} : cfg'.routes[i] = cfg.routes[i]
        /\ \A u \in Sections \ {"routes"} : cfg'[u] = cfg[u] /\ cfg'.count[u] = cfg.count[u]
        /\ cfg'.count = cfg.count
        /\ cfg'.inter_node_rt = cfg.inter_node_rt /\ cfg'.local_node_idx = cfg.local_node_idx
    BY <1>1, <2>2, <2>4, <2>5, RouteShape
  <2>9. Underway("routes")'
    BY <1>1, <1>2, <2>7, UnderwayKept
  <2>10. \A i \in Id \ {e.id} : Entered("routes", i, n - 1)'
    BY <1>1, <1>2, <2>7, EnteredKept DEF PlaceOf
  <2>11. Written("routes", n - 1)'
    BY <1>1, <1>2, <2>7 DEF Written, Counted
  <2>12. at' \in Places /\ at'.section = "routes" /\ at'.entry = n /\ at'.hop = 1 /\ "hop" \in DOMAIN at'
    BY <1>1, <2>3 DEF Places
  <2>13. Reading("routes")'
    BY <1>1, <1>4, <2>2, <2>5, <2>7, <2>9, <2>10, <2>11, <2>12 DEF Reading
  <2>. QED  BY <1>1, <2>7, <2>12, <2>13, ReadingKeeps
<1>. QED  BY <1>3, <1>4

(* A hop: one more is written; after the last, the route is entered. *)
LEMMA HopKeeps ==
    ASSUME ConfigInv, ReadHop,
           NEW n, n = at.entry, NEW j, j = at.hop, NEW e, e = file.routes[n]
    PROVE  ConfigInv'
<1>1. /\ at.section = "routes" /\ "hop" \in DOMAIN at /\ n \in Nat \ {0} /\ j \in Nat \ {0}
      /\ UNCHANGED <<file, before>> /\ FileOK /\ ConfigTypeOK /\ Shape(cfg) /\ Reading("routes")
      /\ "routes" \in Sections
  BY AtFacts DEF ReadHop, Reads, ConfigInv, ConfigTypeOK, Sections
<1>2. /\ Underway("routes") /\ Written("routes", n - 1)
      /\ n <= Len(file.routes) /\ Whole("routes", e)
      /\ j <= Len(e.hops) + 1
      /\ \A i \in Id \ {e.id} : Entered("routes", i, n - 1)
      /\ cfg.routes[e.id].name = e.name /\ cfg.routes[e.id].length = Len(e.hops)
      /\ \A k \in 1 .. j - 1 : cfg.routes[e.id].hop[k] = e.hops[k]
  BY <1>1 DEF Reading
<1>3. /\ "routes" \in DOMAIN file /\ n \in 1 .. Len(file.routes)
      /\ Len(file.routes) \in Nat /\ DOMAIN file.routes = 1 .. Len(file.routes)
  BY <1>1, <1>2 DEF Written, FileOK, Fits
<1>4. /\ {"id", "name", "hops"} \subseteq DOMAIN e
      /\ e.id \in Id /\ Len(e.hops) \in Nat /\ Len(e.hops) <= Hops
      /\ DOMAIN e.hops = 1 .. Len(e.hops)
  <2>1. {"id", "name", "hops"} \subseteq DOMAIN e
    BY <1>1, <1>2, WholeHasAll, FieldsAre
  <2>. QED  BY <1>1, <1>3, <2>1, Entry
<1>5. CASE j <= LastHop(e)
  <2>. DEFINE r == [cfg.routes[e.id] EXCEPT !.hop = [cfg.routes[e.id].hop EXCEPT ![j] = e.hops[j]]]
  <2>1. j \in 1 .. Hops /\ j <= Len(e.hops)
    BY <1>1, <1>4, <1>5, ConfigAssumption DEF LastHop
  <2>2. /\ cfg' = [cfg EXCEPT !.routes[e.id].hop[j] = e.hops[j]] /\ at' = [at EXCEPT !.hop = @ + 1]
    BY <1>5 DEF ReadHop
  <2>3. cfg' = [cfg EXCEPT !.routes = [cfg.routes EXCEPT ![e.id] = r]]
    BY <1>1, <1>4, <2>2 DEF Shape, Sections, Stored
  <2>4. /\ DOMAIN r = Stored["routes"] /\ DOMAIN r.hop = 1 .. Hops
        /\ r.name = e.name /\ r.length = Len(e.hops)
        /\ \A k \in 1 .. j : r.hop[k] = e.hops[k]
    <3>1. /\ DOMAIN cfg.routes[e.id] = Stored["routes"] /\ DOMAIN cfg.routes[e.id].hop = 1 .. Hops
      BY <1>1, <1>4 DEF Shape
    <3>2. /\ DOMAIN r = Stored["routes"] /\ r.hop = [cfg.routes[e.id].hop EXCEPT ![j] = e.hops[j]]
          /\ r.name = cfg.routes[e.id].name /\ r.length = cfg.routes[e.id].length
      BY <3>1 DEF Stored
    <3>. HIDE DEF r
    <3>3. DOMAIN r.hop = 1 .. Hops /\ r.hop[j] = e.hops[j]
          /\ \A k \in (1 .. Hops) \ {j} : r.hop[k] = cfg.routes[e.id].hop[k]
      BY <2>1, <3>1, <3>2
    <3>4. \A k \in 1 .. j : r.hop[k] = e.hops[k]
      <4>. SUFFICES ASSUME NEW k \in 1 .. j PROVE r.hop[k] = e.hops[k]
        OBVIOUS
      <4>1. CASE k = j
        BY <3>3, <4>1
      <4>2. CASE k # j
        <5>1. k \in 1 .. j - 1 /\ k \in (1 .. Hops) \ {j}
          BY <1>1, <2>1, <4>2, ConfigAssumption
        <5>. QED  BY <1>2, <3>3, <5>1
      <4>. QED  BY <4>1, <4>2
    <3>. QED  BY <1>2, <3>2, <3>3, <3>4
  <2>. HIDE DEF r
  <2>6. /\ Shape(cfg') /\ cfg'.routes[e.id] = r
        /\ \A i \in Id \ {e.id} : cfg'.routes[i] = cfg.routes[i]
        /\ \A u \in Sections \ {"routes"} : cfg'[u] = cfg[u] /\ cfg'.count[u] = cfg.count[u]
        /\ cfg'.count = cfg.count
        /\ cfg'.inter_node_rt = cfg.inter_node_rt /\ cfg'.local_node_idx = cfg.local_node_idx
    BY <1>1, <1>4, <2>3, <2>4, RouteShape
  <2>8. Underway("routes")'
    BY <1>1, <1>2, <2>6, UnderwayKept
  <2>9. \A i \in Id \ {e.id} : Entered("routes", i, n - 1)'
    BY <1>1, <1>2, <1>3, <2>6, EnteredKept DEF PlaceOf
  <2>10. Written("routes", n - 1)'
    BY <1>1, <1>2, <2>6 DEF Written, Counted
  <2>11. at' \in Places /\ at'.section = "routes" /\ at'.entry = n /\ at'.hop = j + 1 /\ "hop" \in DOMAIN at'
    <3>1. at = [section |-> "routes", entry |-> n, hop |-> j]
      BY <1>1 DEF ConfigTypeOK, Places
    <3>2. at' = [section |-> "routes", entry |-> n, hop |-> j + 1]
      <4>1. at' = [at EXCEPT !.hop = j + 1]
        BY <2>2
      <4>2. [[section |-> "routes", entry |-> n, hop |-> j] EXCEPT !.hop = j + 1]
               = [section |-> "routes", entry |-> n, hop |-> j + 1]
        OBVIOUS
      <4>. QED  BY <3>1, <4>1, <4>2
    <3>. QED  BY <1>1, <3>2 DEF Places
  <2>12. Reading("routes")'
    <3>1. file'.routes[n] = e /\ Whole("routes", e) /\ n # 0 /\ (j + 1) - 1 = j /\ j + 1 <= Len(e.hops) + 1
      <4>1. j \in Nat /\ Len(e.hops) \in Nat /\ j <= Len(e.hops)
        BY <1>1, <1>4, <2>1
      <4>2. (j + 1) - 1 = j /\ j + 1 <= Len(e.hops) + 1
        BY <4>1
      <4>. QED  BY <1>1, <1>2, <4>2
    <3>2. /\ cfg'.routes[e.id].name = e.name /\ cfg'.routes[e.id].length = Len(e.hops)
          /\ \A k \in 1 .. j : cfg'.routes[e.id].hop[k] = e.hops[k]
      BY <2>4, <2>6
    <3>3. Whole("routes", e)' /\ n <= Len(file'.routes)
      BY <1>1, <1>2 DEF Whole, Got
    <3>. QED  BY <2>8, <2>9, <2>10, <2>11, <3>1, <3>2, <3>3 DEF Reading
  <2>. QED  BY <1>1, <2>6, <2>11, <2>12, ReadingKeeps
<1>6. CASE ~(j <= LastHop(e))
  <2>1. cfg' = cfg /\ Go("routes", n + 1) /\ j = Len(e.hops) + 1
    <3>1. cfg' = cfg /\ Go("routes", n + 1)
      BY <1>6 DEF ReadHop
    <3>2. j \in Nat /\ Len(e.hops) \in Nat /\ j <= Len(e.hops) + 1 /\ ~(j <= Len(e.hops))
      BY <1>1, <1>2, <1>4, <1>6 DEF LastHop
    <3>3. j = Len(e.hops) + 1
      BY <3>2
    <3>. QED  BY <3>1, <3>3
  <2>2. at' \in Places /\ at'.section = "routes" /\ at'.entry = n + 1 /\ "hop" \notin DOMAIN at'
    BY <1>1, <2>1, GoneTo
  <2>3. Agrees(cfg', "routes", e.id, e)
    <3>1. (1 .. j - 1) = DOMAIN e.hops
      BY <1>1, <1>4, <2>1
    <3>2. RouteIs(cfg'.routes[e.id], e)
      BY <1>2, <2>1, <3>1 DEF RouteIs
    <3>. QED  BY <3>2 DEF Agrees, PlaceOf
  <2>4. \A i \in Id \ {e.id} : Entered("routes", i, n - 1)'
    BY <1>1, <1>2, <1>3, <2>1, EnteredKept DEF PlaceOf
  <2>5. \A i \in Id : Entered("routes", i, n)'
    BY <1>1, <1>3, <1>4, <2>3, <2>4, EnteredNext
  <2>6. Underway("routes")'
    BY <1>1, <1>2, <2>1, UnderwayKept
  <2>7. Written("routes", n)'
    <3>1. \A k \in 1 .. n : Whole("routes", file.routes[k])
      BY <1>1, <1>2, <1>3 DEF Written
    <3>. QED  BY <1>1, <1>2, <1>3, <2>1, <3>1 DEF Written, Counted
  <2>8. Reading("routes")'
    BY <1>1, <2>2, <2>5, <2>6, <2>7 DEF Reading
  <2>. QED  BY <1>1, <2>1, <2>2, <2>8, ReadingKeeps
<1>. QED  BY <1>5, <1>6

(* The end of a section: it is written, and the next is as it was. *)
LEMMA EndKeeps ==
    ASSUME ConfigInv, NEW s \in Sections, ReadEnd(s)
    PROVE  ConfigInv'
<1>1. /\ at.section = s /\ s \in DOMAIN file /\ at.entry = Len(file[s]) + 1 /\ UNCHANGED <<cfg, file, before>>
      /\ FileOK /\ ConfigTypeOK /\ Shape(cfg) /\ Shape(cfg') /\ Reading(s) /\ Len(file[s]) \in Nat
  BY DEF ReadEnd, Reads, ConfigInv, ConfigTypeOK, FileOK, Fits
<1>2. "hop" \notin DOMAIN at
  BY <1>1, AtFacts DEF Reading, ConfigTypeOK
<1>3. Underway(s) /\ Written(s, Len(file[s])) /\ \A i \in Id : Entered(s, i, Len(file[s]))
  BY <1>1, <1>2 DEF Reading
<1>4. CASE s = "tenants"
  <2>1. Serve
    BY <1>4 DEF ReadEnd, Serve
  <2>2. Done
    BY <1>1, <1>3, <1>4, EndedWell
  <2>3. Done'
    BY <1>1, <2>2, SameWritten
  <2>. QED  BY <1>1, <2>1, <2>3, ServedKeeps
<1>5. CASE s # "tenants"
  <2>. DEFINE u == CASE s = "nfs" -> "routes" [] s = "routes" -> "nodes" [] s = "nodes" -> "tenants"
                     [] s = "tenants" -> "served"
  <2>1. GoTo(u) /\ u \in Sections /\ Order[u] = Order[s] + 1
    BY <1>5 DEF ReadEnd, Sections, Order
  <2>. HIDE DEF u
  <2>2. at' \in Places /\ at'.section = u /\ at'.entry = 0
    BY <2>1, GoneToSection
  <2>3. cfg[u] = before[u]
    BY <1>3, <2>1, OrderOfSections DEF Underway
  <2>4. Underway(u)
    <3>1. \A v \in Sections : Order[v] < Order[u] => Order[v] < Order[s] \/ v = s
      BY <2>1, OrderOfSections
    <3>2. \A v \in Sections : Order[v] > Order[u] => Order[v] > Order[s]
      BY <2>1, OrderOfSections
    <3>. QED  BY <1>3, <3>1, <3>2 DEF Underway
  <2>5. Underway(u)'
    BY <1>1, <2>1, <2>4, UnderwayKept
  <2>6. Reading(u)'
    BY <1>1, <2>2, <2>3, <2>5 DEF Reading
  <2>. QED  BY <1>1, <2>1, <2>2, <2>6, ReadingKeeps
<1>. QED  BY <1>4, <1>5

-----------------------------------------------------------------------------
(* Every step of the manager, and its end, keep the invariant.             *)
LEMMA StepsKeep == ConfigInv /\ [ConfigNext]_configVars => ConfigInv'
<1>. SUFFICES ASSUME ConfigInv, [ConfigNext]_configVars PROVE ConfigInv'
  OBVIOUS
<1>0. ConfigTypeOK /\ \A s \in Sections : Reads(s) => Reading(s)
  BY DEF ConfigInv
<1>1. CASE \E f \in Files : Start(f)
  BY <1>1, StartKeeps
<1>2. CASE ReadName
  BY <1>2, NameKeeps
<1>3. ASSUME NEW s \in Sections, ReadHead(s) PROVE ConfigInv'
  BY <1>3, HeadKeeps
<1>4. ASSUME NEW s \in Sections, ReadEntry(s) PROVE ConfigInv'
  <2>1. s \in DOMAIN file
    BY <1>0, <1>4, AtFacts DEF ReadEntry, Reads, Reading, Written, ConfigTypeOK
  <2>. QED  BY <1>4, <2>1, EntryKeeps
<1>5. ASSUME NEW s \in Sections, ReadEnd(s) PROVE ConfigInv'
  BY <1>5, EndKeeps
<1>6. CASE ReadRoute
  <2>1. "routes" \in DOMAIN file
    <3>1. at.section = "routes" /\ at.entry > 0 /\ at.entry \in Nat /\ "routes" \in Sections
      BY <1>0, <1>6, AtFacts DEF ReadRoute, Reads, ConfigTypeOK, Sections
    <3>2. Reading("routes") /\ at.entry # 0
      BY <1>0, <3>1 DEF Reads
    <3>. QED  BY <3>2 DEF Reading, Written
  <2>. QED  BY <1>6, <2>1, RouteKeeps
<1>7. CASE ReadHop
  BY <1>7, HopKeeps
<1>8. CASE Kill
  BY <1>8, KillKeeps
<1>9. CASE UNCHANGED configVars
  BY <1>9, NothingMoves DEF configVars
<1>. QED  BY <1>1, <1>2, <1>3, <1>4, <1>5, <1>6, <1>7, <1>8, <1>9 DEF ConfigNext

(* The entry that counts is the last of its id.                            *)
LEMMA LastIs ==
    ASSUME NEW s, NEW i, For(s, i) \subseteq Nat,
           NEW k \in For(s, i), \A h \in For(s, i) : h <= k
    PROVE  LastFor(s, i) = file[s][k]
<1>. DEFINE c == CHOOSE g \in For(s, i) : \A h \in For(s, i) : h <= g
<1>1. c \in For(s, i) /\ \A h \in For(s, i) : h <= c
  OBVIOUS
<1>. HIDE DEF c
<1>2. c <= k /\ k <= c /\ c \in Nat /\ k \in Nat
  BY <1>1
<1>3. c = k
  BY <1>2
<1>. QED  BY <1>3 DEF LastFor, c

(* What a section holds when all its entries are in the region.            *)
LEMMA WrittenIsSetUp ==
    ASSUME FileOK, NEW s \in Sections, WholeSection(s), Written(s, Len(file[s])),
           NEW i \in Id, Entered(s, i, Len(file[s]))
    PROVE  /\ For(s, i) # {} => Agrees(cfg, s, i, LastFor(s, i))
           /\ For(s, i) = {} /\ PlaceOf(s, i) \in Id /\ <<s, i>> # <<"routes", 0>> =>
                  cfg[s][PlaceOf(s, i)] = before[s][PlaceOf(s, i)]
<1>1. UpTo(s, i, Len(file[s])) = For(s, i) /\ For(s, i) \subseteq Nat
  BY DEF UpTo, For, FileOK, Fits, WholeSection
<1>2. CASE For(s, i) = {}
  BY <1>1, <1>2 DEF Entered
<1>3. CASE For(s, i) # {}
  <2>1. PICK k \in For(s, i) : (\A h \in For(s, i) : h <= k) /\ Agrees(cfg, s, i, file[s][k])
    BY <1>1, <1>3 DEF Entered
  <2>2. LastFor(s, i) = file[s][k]
    BY <1>1, <2>1, LastIs
  <2>. QED  BY <1>3, <2>1, <2>2
<1>. QED  BY <1>2, <1>3

(* Where the nodes are numbered by their places, the local one is here. *)
LEMMA LocalNodeIsHost ==
    ASSUME FileOK, WholeSection("nodes"), Written("nodes", Len(file.nodes)),
           \A i \in Id : Entered("nodes", i, Len(file.nodes)),
           \A k \in DOMAIN file.nodes : file.nodes[k].id = k - 1,
           \E k \in DOMAIN file.nodes : file.nodes[k].hostname = Host
    PROVE  cfg.nodes[cfg.local_node_idx].hostname = Host
<1>1. "nodes" \in Sections /\ "nodes" \in DOMAIN file
  BY DEF Sections, WholeSection
<1>2. DOMAIN file.nodes = 1 .. Len(file.nodes) /\ Len(file.nodes) \in Nat
  BY <1>1 DEF FileOK, Fits
<1>3. \A k \in DOMAIN file.nodes : {"id", "hostname"} \subseteq DOMAIN file.nodes[k]
  BY <1>1, WholeHasAll, FieldsAre DEF WholeSection
<1>4. HostKnown(Len(file.nodes)) /\ InPlace
  BY <1>3 DEF Written, InPlace
<1>5. PICK k \in DOMAIN file.nodes : cfg.local_node_idx = k - 1 /\ file.nodes[k].hostname = Host
  BY <1>2, <1>4 DEF HostKnown
<1>6. k - 1 \in Id /\ k \in Nat
  <2>1. file.nodes[k].id \in Id /\ file.nodes[k].id = k - 1
    BY <1>1, <1>2, <1>3, Entry
  <2>. QED  BY <1>2, <2>1
<1>7. For("nodes", k - 1) = {k}
  <2>1. \A h \in DOMAIN file.nodes : h \in Nat /\ (file.nodes[h].id = k - 1 => h = k)
    BY <1>2, <1>6
  <2>. QED  BY <1>3, <2>1 DEF For
<1>8. LastFor("nodes", k - 1) = file.nodes[k]
  BY <1>6, <1>7, LastIs
<1>9. Agrees(cfg, "nodes", k - 1, file.nodes[k])
  BY <1>1, <1>6, <1>7, <1>8, WrittenIsSetUp
<1>10. "hostname" \in Range(Fields["nodes"]) \ {"id"}
  BY FieldsAre
<1>11. cfg.nodes[k - 1].hostname = file.nodes[k].hostname
  BY <1>9, <1>10 DEF Agrees, PlaceOf
<1>. QED  BY <1>5, <1>11

(* The first half of SetUpAsWritten: the manager is done. *)
LEMMA ServedIsSetUp ==
    ASSUME ConfigInv, Reads("served"), NEW s \in Sections
    PROVE  IF ~Reached(s) \/ s \notin DOMAIN file THEN cfg[s] = before[s]
           ELSE WholeSection(s) =>
            /\ cfg.count[s] = Len(file[s]) + (IF s = "routes" THEN 1 ELSE 0)
            /\ \A i \in Id : For(s, i) # {} => Agrees(cfg, s, i, LastFor(s, i))
            /\ \A i \in Id :
                  For(s, i) = {} /\ PlaceOf(s, i) \in Id /\ <<s, i>> # <<"routes", 0>> =>
                      cfg[s][PlaceOf(s, i)] = before[s][PlaceOf(s, i)]
            /\ s = "nodes" /\ (\A k \in DOMAIN file.nodes : file.nodes[k].id = k - 1)
                  => ((\E k \in DOMAIN file.nodes : file.nodes[k].hostname = Host)
                        => cfg.nodes[cfg.local_node_idx].hostname = Host)
<1>1. FileOK /\ Done
  BY DEF ConfigInv, ConfigTypeOK
<1>2. ~Reached(s) \/ s \notin DOMAIN file => cfg[s] = before[s]
  BY <1>1 DEF Done
<1>3. ASSUME Reached(s), s \in DOMAIN file, WholeSection(s)
      PROVE  /\ cfg.count[s] = Len(file[s]) + (IF s = "routes" THEN 1 ELSE 0)
             /\ \A i \in Id : For(s, i) # {} => Agrees(cfg, s, i, LastFor(s, i))
             /\ \A i \in Id :
                  For(s, i) = {} /\ PlaceOf(s, i) \in Id /\ <<s, i>> # <<"routes", 0>> =>
                      cfg[s][PlaceOf(s, i)] = before[s][PlaceOf(s, i)]
             /\ s = "nodes" /\ (\A k \in DOMAIN file.nodes : file.nodes[k].id = k - 1)
                  => ((\E k \in DOMAIN file.nodes : file.nodes[k].hostname = Host)
                        => cfg.nodes[cfg.local_node_idx].hostname = Host)
  <2>1. Written(s, Len(file[s])) /\ \A i \in Id : Entered(s, i, Len(file[s]))
    BY <1>1, <1>3 DEF Done
  <2>2. cfg.count[s] = Len(file[s]) + (IF s = "routes" THEN 1 ELSE 0)
    BY <2>1 DEF Written, Counted
  <2>3. s = "nodes" /\ (\A k \in DOMAIN file.nodes : file.nodes[k].id = k - 1)
             => ((\E k \in DOMAIN file.nodes : file.nodes[k].hostname = Host)
                   => cfg.nodes[cfg.local_node_idx].hostname = Host)
    BY <1>1, <1>3, <2>1, LocalNodeIsHost
  <2>4. ASSUME NEW i \in Id
        PROVE  /\ For(s, i) # {} => Agrees(cfg, s, i, LastFor(s, i))
               /\ For(s, i) = {} /\ PlaceOf(s, i) \in Id /\ <<s, i>> # <<"routes", 0>> =>
                      cfg[s][PlaceOf(s, i)] = before[s][PlaceOf(s, i)]
    BY <1>1, <1>3, <2>1, WrittenIsSetUp
  <2>. QED  BY <2>2, <2>3, <2>4
<1>. QED  BY <1>2, <1>3

(* The second half: no route is half of one file and half of another. *)
LEMMA RoutesNeverHalf ==
    ASSUME ConfigInv, Reads("routes"), "routes" \in DOMAIN file, NEW i \in Id \ {0}
    PROVE  \/ at.entry \in DOMAIN file.routes /\ file.routes[at.entry].id = i
           \/ cfg.routes[i] = before.routes[i]
           \/ \E k \in For("routes", i) : RouteIs(cfg.routes[i], file.routes[k])
<1>1. "routes" \in Sections /\ FileOK /\ at \in Places /\ Reading("routes") /\ at.entry \in Nat
  BY AtFacts DEF ConfigInv, ConfigTypeOK, Sections, Reads
<1>2. CASE at.entry = 0
  BY <1>1, <1>2 DEF Reading
<1>3. ASSUME Entered("routes", i, at.entry - 1)
      PROVE  \/ cfg.routes[i] = before.routes[i]
             \/ \E k \in For("routes", i) : RouteIs(cfg.routes[i], file.routes[k])
  BY <1>3 DEF Entered, UpTo, PlaceOf, Agrees
<1>4. CASE at.entry # 0 /\ "hop" \notin DOMAIN at
  <2>1. Entered("routes", i, at.entry - 1)
    BY <1>1, <1>4 DEF Reading
  <2>. QED  BY <1>3, <2>1
<1>5. CASE at.entry # 0 /\ "hop" \in DOMAIN at
  <2>1. /\ at.entry <= Len(file.routes)
        /\ \A h \in Id \ {file.routes[at.entry].id} : Entered("routes", h, at.entry - 1)
    BY <1>1, <1>5 DEF Reading
  <2>2. at.entry \in DOMAIN file.routes
    BY <1>1, <1>5, <2>1 DEF FileOK, Fits
  <2>. QED  BY <1>3, <2>1, <2>2
<1>. QED  BY <1>2, <1>4, <1>5

(* The invariant is what SetUpAsWritten needs. *)
LEMMA InvIsSetUp == ConfigInv => SetUpAsWritten
<1>. SUFFICES ASSUME ConfigInv PROVE SetUpAsWritten
  OBVIOUS
<1>1. \A s \in Sections, i \in Id :
          Agrees(cfg, s, i, LastFor(s, i)) <=>
              LET e == LastFor(s, i)
                  now == cfg[s][PlaceOf(s, i)]
              IN IF s = "routes" THEN RouteIs(now, e)
                 ELSE /\ \A f \in Range(Fields[s]) \ {"id"} : now[f] = e[f]
                      /\ s = "nfs" => cfg.inter_node_rt[i] = now.node
  BY DEF Agrees
<1>. QED  BY <1>1, ServedIsSetUp, RoutesNeverHalf DEF SetUpAsWritten

(* However often the manager is killed while it writes, and whatever its   *)
(* files lack: in the end the region is what cfg_init of shm_mgr.c was to  *)
(* make of the file, and never half of one route and half of another; for  *)
(* any files whose ids and hops fit the arrays, and any number of starts.  *)
THEOREM RegionIsTheFiles == ConfigSpec => []SetUpAsWritten
<1>1. ConfigInit => ConfigInv
  BY InitConfig
<1>2. ConfigInv /\ [ConfigNext]_configVars => ConfigInv'
  BY StepsKeep
<1>3. ConfigInv => SetUpAsWritten
  BY InvIsSetUp
<1>. QED  BY <1>1, <1>2, <1>3, PTL DEF ConfigSpec

-----------------------------------------------------------------------------
(* Loops: induction, and functions by recursion. *)

(* A set of numbers has a least one. *)
LEMMA Least ==
    ASSUME NEW S \in SUBSET Nat, S # {}
    PROVE  \E x \in S : \A y \in S : x <= y
<1>. DEFINE Up(x) == 1 .. x
            T == {Up(x) : x \in S}
<1>1. T \subseteq FiniteSubsetsOf(Nat)
  <2>1. \A x \in S : IsFiniteSet(Up(x)) /\ Up(x) \in SUBSET Nat
    BY FS_Interval
  <2>. QED  BY <2>1 DEF FiniteSubsetsOf
<1>2. T # {}
  OBVIOUS
<1>3. PICK U \in T : \A V \in T : <<V, U>> \notin StrictSubsetOrdering(Nat)
  BY <1>1, <1>2, FS_StrictSubsetOrderingWellFounded, WFMin
<1>4. PICK x \in S : U = Up(x)
  OBVIOUS
<1>5. ASSUME NEW y \in S PROVE x <= y
  <2>1. <<Up(y), Up(x)>> \notin StrictSubsetOrdering(Nat)
    BY <1>3, <1>4
  <2>2. SUFFICES ASSUME y < x PROVE FALSE
    BY y \in Nat, x \in Nat
  <2>3. x \in Up(x) /\ x \notin Up(y) /\ Up(y) \subseteq Up(x) /\ Up(x) \subseteq Nat
    BY <2>2
  <2>. QED  BY <2>1, <2>3 DEF StrictSubsetOrdering
<1>. QED  BY <1>5

(* Induction, for what can be said of a number by its being in a set.      *)
LEMMA Induct ==
    ASSUME NEW n \in Nat, NEW G, 0 \in G, \A k \in 0 .. n - 1 : k \in G => k + 1 \in G
    PROVE  \A k \in 0 .. n : k \in G
<1>. DEFINE S == {k \in 0 .. n : k \notin G}
<1>1. SUFFICES ASSUME S # {} PROVE FALSE
  OBVIOUS
<1>2. PICK k \in S : \A y \in S : k <= y
  <2>1. S \in SUBSET Nat /\ S # {}
    BY <1>1
  <2>. HIDE DEF S
  <2>. QED  BY <2>1, Least
<1>3. k # 0 /\ k - 1 \in 0 .. n - 1 /\ k - 1 \notin S
  BY <1>2
<1>. QED  BY <1>2, <1>3

(* There is a function of the numbers up to n with these steps. *)
Recursive(n, T, base, step) ==
    \E r \in [0 .. n -> T] : r[0] = base /\ \A k \in 1 .. n : r[k] = step[k][r[k - 1]]

(* A recursive function of numbers up to n, whose steps are functions too. *)
LEMMA Recursion ==
    ASSUME NEW n \in Nat, NEW T, NEW base \in T, NEW step \in [1 .. n -> [T -> T]]
    PROVE  Recursive(n, T, base, step)
<1>. DEFINE Good(m, r) == r[0] = base /\ \A k \in 1 .. m : r[k] = step[k][r[k - 1]]
            G == {m \in 0 .. n : \E r \in [0 .. m -> T] : Good(m, r)}
<1>1. 0 \in G
  <2>. DEFINE r == [k \in 0 .. 0 |-> base]
  <2>1. r \in [0 .. 0 -> T] /\ r[0] = base
    OBVIOUS
  <2>. HIDE DEF r
  <2>2. Good(0, r)
    BY <2>1
  <2>. QED  BY <2>1, <2>2
<1>2. ASSUME NEW m \in 0 .. n - 1, m \in G PROVE m + 1 \in G
  <2>1. PICK r \in [0 .. m -> T] : Good(m, r)
    BY <1>2
  <2>. DEFINE q == [k \in 0 .. m + 1 |-> IF k = m + 1 THEN step[m + 1][r[m]] ELSE r[k]]
  <2>2. q \in [0 .. m + 1 -> T]
    OBVIOUS
  <2>3. q[0] = base
    BY <2>1
  <2>4. \A k \in 1 .. m + 1 : q[k] = step[k][q[k - 1]]
    BY <2>1
  <2>. HIDE DEF q
  <2>. QED  BY <2>2, <2>3, <2>4
<1>. HIDE DEF G
<1>3. n \in G
  <2>1. \A k \in 0 .. n - 1 : k \in G => k + 1 \in G
    BY <1>2
  <2>2. \A k \in 0 .. n : k \in G
    BY <1>1, <2>1, Induct
  <2>. QED  BY <2>2
<1>. QED  BY <1>3 DEF G, Recursive

(* SumOf is reached term by term. *)
LEMMA SumOfSteps ==
    ASSUME NEW n \in Nat, NEW seq, Len(seq) = n, \A k \in 1 .. n : seq[k] \in Int
    PROVE  \E sum \in [0 .. n -> Int] :
              /\ sum[0] = 0 /\ \A k \in 1 .. n : sum[k] = sum[k - 1] + seq[k]
              /\ SumOf(seq) = sum[n]
<1>. DEFINE T == Int
            step == [k \in 1 .. n |-> [x \in T |-> x + seq[k]]]
            f == CHOOSE f : f = [k \in 0 .. n |-> IF k = 0 THEN 0 ELSE f[k - 1] + seq[k]]
<1>1. step \in [1 .. n -> [T -> T]] /\ 0 \in T
  OBVIOUS
<1>2. \A k \in 1 .. n, x \in T : step[k][x] = x + seq[k]
  OBVIOUS
<1>. HIDE DEF step, T, f
<1>3. PICK r \in [0 .. n -> T] : r[0] = 0 /\ \A k \in 1 .. n : r[k] = step[k][r[k - 1]]
  <2>. DEFINE base == 0
  <2>1. base \in T
    BY <1>1
  <2>. HIDE DEF base
  <2>2. Recursive(n, T, base, step)
    BY <1>1, <2>1, Recursion
  <2>. QED  BY <2>2 DEF base, Recursive
<1>4. \A k \in 1 .. n : r[k] = r[k - 1] + seq[k]
  <2>. SUFFICES ASSUME NEW k \in 1 .. n PROVE r[k] = r[k - 1] + seq[k]
    OBVIOUS
  <2>1. r[k - 1] \in T
    OBVIOUS
  <2>. QED  BY <1>2, <1>3, <2>1
<1>5. r = [k \in 0 .. n |-> IF k = 0 THEN 0 ELSE r[k - 1] + seq[k]]
  <2>1. \A k \in 0 .. n : r[k] = IF k = 0 THEN 0 ELSE r[k - 1] + seq[k]
    BY <1>3, <1>4
  <2>. QED  BY <2>1
<1>6. f = [k \in 0 .. n |-> IF k = 0 THEN 0 ELSE f[k - 1] + seq[k]]
  BY <1>5 DEF f
<1>7. SumOf(seq) = f[n]
  BY DEF SumOf, f
<1>8. f \in [0 .. n -> Int] /\ f[0] = 0 /\ \A k \in 1 .. n : f[k] = f[k - 1] + seq[k]
  <2>1. f[0] = 0 /\ \A k \in 1 .. n : f[k] = f[k - 1] + seq[k]
    BY <1>6
  <2>. DEFINE G == {k \in 0 .. n : f[k] \in Int}
  <2>2. 0 \in G /\ \A k \in 0 .. n - 1 : k \in G => k + 1 \in G
    BY <2>1
  <2>3. \A k \in 0 .. n : k \in G
    <3>. HIDE DEF G
    <3>. QED  BY <2>2, Induct
  <2>. QED  BY <1>6, <2>1, <2>3
<1>. QED  BY <1>7, <1>8

(* Doubled is reached by doubling once more. *)
LEMMA DoubledSteps ==
    ASSUME NEW n \in Nat, NEW x \in Int
    PROVE  \E d \in [0 .. n -> Int] :
              /\ d[0] = x /\ \A k \in 1 .. n : d[k] = 2 * d[k - 1]
              /\ Doubled(x, n) = d[n]
<1>. DEFINE T == Int
            step == [k \in 1 .. n |-> [y \in T |-> 2 * y]]
            f == CHOOSE f : f = [k \in 0 .. n |-> IF k = 0 THEN x ELSE 2 * f[k - 1]]
<1>1. step \in [1 .. n -> [T -> T]] /\ x \in T
  OBVIOUS
<1>2. \A k \in 1 .. n, y \in T : step[k][y] = 2 * y
  OBVIOUS
<1>. HIDE DEF step, T, f
<1>3. PICK r \in [0 .. n -> T] : r[0] = x /\ \A k \in 1 .. n : r[k] = step[k][r[k - 1]]
  <2>1. Recursive(n, T, x, step)
    BY <1>1, Recursion
  <2>. QED  BY <2>1 DEF Recursive
<1>4. \A k \in 1 .. n : r[k] = 2 * r[k - 1]
  <2>. SUFFICES ASSUME NEW k \in 1 .. n PROVE r[k] = 2 * r[k - 1]
    OBVIOUS
  <2>1. r[k - 1] \in T
    OBVIOUS
  <2>. QED  BY <1>2, <1>3, <2>1
<1>5. r = [k \in 0 .. n |-> IF k = 0 THEN x ELSE 2 * r[k - 1]]
  <2>1. \A k \in 0 .. n : r[k] = IF k = 0 THEN x ELSE 2 * r[k - 1]
    BY <1>3, <1>4
  <2>. QED  BY <2>1
<1>6. f = [k \in 0 .. n |-> IF k = 0 THEN x ELSE 2 * f[k - 1]]
  BY <1>5 DEF f
<1>7. Doubled(x, n) = f[n]
  BY DEF Doubled, f
<1>8. f \in [0 .. n -> Int] /\ f[0] = x /\ \A k \in 1 .. n : f[k] = 2 * f[k - 1]
  <2>1. f[0] = x /\ \A k \in 1 .. n : f[k] = 2 * f[k - 1]
    BY <1>6
  <2>. DEFINE G == {k \in 0 .. n : f[k] \in Int}
  <2>2. 0 \in G /\ \A k \in 0 .. n - 1 : k \in G => k + 1 \in G
    BY <2>1
  <2>3. \A k \in 0 .. n : k \in G
    <3>. HIDE DEF G
    <3>. QED  BY <2>2, Induct
  <2>. QED  BY <1>6, <2>1, <2>3
<1>. QED  BY <1>7, <1>8

-----------------------------------------------------------------------------
(* Money: what Sum of utility.c keeps.  An amount that a sequence of calls *)
(* adds up may come to have units and nanos of different signs; neither    *)
(* its worth nor the bound of its nanos suffers.                           *)

(* C's division leaves less than the divisor, on either side of zero.     *)
LEMMA RemainderIsSmall ==
    ASSUME NEW n \in Int, NEW d \in Nat \ {0}
    PROVE  /\ -d < Remainder(n, d) /\ Remainder(n, d) < d /\ Quotient(n, d) \in Int
  BY DEF Remainder, Quotient

(* Sum adds up: the total is worth what both were worth, also where it     *)
(* takes no units and some nanos to be of different signs.                 *)
THEOREM SumIsExact ==
    ASSUME NEW a \in Money, NEW b \in Money
    PROVE  Worth(Sum(a, b)) = Worth(a) + Worth(b)
<1>. DEFINE units == a.Units + b.Units
            nanos == a.Nanos + b.Nanos
            q == Quotient(nanos, NANOSMOD)
<1>1. /\ units \in Int /\ nanos \in Int /\ q \in Int /\ NANOSMOD \in Int
      /\ a.Units \in Int /\ a.Nanos \in Int /\ b.Units \in Int /\ b.Nanos \in Int
  <2>1. /\ units \in Int /\ nanos \in Int
        /\ a.Units \in Int /\ a.Nanos \in Int /\ b.Units \in Int /\ b.Nanos \in Int
    BY DEF Money
  <2>2. q \in Int
    BY <2>1, PricesAssumption, RemainderIsSmall
  <2>. QED  BY <2>1, <2>2, PricesAssumption
<1>2. Worth(a) + Worth(b) = units * NANOSMOD + nanos
  BY <1>1 DEF Worth
<1>. HIDE DEF units, nanos, q
<1>3. Worth([Units |-> units + q, Nanos |-> nanos - NANOSMOD * q]) = units * NANOSMOD + nanos
  BY <1>1 DEF Worth
<1>4. Worth([Units |-> units - 1, Nanos |-> nanos + NANOSMOD]) = units * NANOSMOD + nanos
  BY <1>1 DEF Worth
<1>5. Worth([Units |-> units + 1, Nanos |-> nanos - NANOSMOD]) = units * NANOSMOD + nanos
  BY <1>1 DEF Worth
<1>. QED  BY <1>2, <1>3, <1>4, <1>5 DEF Sum, Remainder, units, nanos, q

(* Of amounts that are not negative, whose nanos are less than a unit, the *)
(* sum is one too: so the nanos of two amounts never leave their 32 bits.  *)
THEOREM SumIsNormal ==
    ASSUME NEW a \in Money, Normal(a), Worth(a) >= 0,
           NEW b \in Money, Normal(b), Worth(b) >= 0
    PROVE  Normal(Sum(a, b)) /\ Worth(Sum(a, b)) >= 0
<1>. DEFINE units == a.Units + b.Units
            nanos == a.Nanos + b.Nanos
<1>1. ASSUME NEW m \in Money, Normal(m), Worth(m) >= 0
      PROVE  m.Units >= 0 /\ (m.Units = 0 => m.Nanos >= 0)
  <2>1. /\ m.Units \in Int /\ m.Nanos \in Int /\ NANOSMOD \in Int /\ NANOSMOD > 0
        /\ m.Units * NANOSMOD + m.Nanos >= 0 /\ m.Nanos < NANOSMOD
    BY <1>1, PricesAssumption DEF Money, Worth, Normal
  <2>2. (m.Units + 1) * NANOSMOD > 0
    BY <2>1
  <2>3. m.Units + 1 > 0
    BY <2>1, <2>2
  <2>. QED  BY <2>1, <2>3
<1>2. /\ units \in Int /\ nanos \in Int /\ NANOSMOD \in Int /\ NANOSMOD > 0
      /\ -2 * NANOSMOD < nanos /\ nanos < 2 * NANOSMOD
      /\ units >= 0 /\ (units = 0 => nanos >= 0)
  <2>1. /\ a.Units >= 0 /\ (a.Units = 0 => a.Nanos >= 0)
        /\ b.Units >= 0 /\ (b.Units = 0 => b.Nanos >= 0)
    BY <1>1
  <2>. QED  BY <2>1, PricesAssumption DEF Money, Normal
<1>3. -NANOSMOD < Remainder(nanos, NANOSMOD) /\ Remainder(nanos, NANOSMOD) < NANOSMOD
  BY <1>2, RemainderIsSmall
<1>. HIDE DEF units, nanos
<1>4. Normal([Units |-> units + Quotient(nanos, NANOSMOD), Nanos |-> Remainder(nanos, NANOSMOD)])
  BY <1>3 DEF Normal
<1>5. units > 0 /\ nanos < 0 => Normal([Units |-> units - 1, Nanos |-> nanos + NANOSMOD])
  BY <1>2 DEF Normal
<1>6. units = 0 /\ nanos > 0 => Normal([Units |-> units + 1, Nanos |-> nanos - NANOSMOD])
  BY <1>2 DEF Normal
<1>7. Normal(Sum(a, b))
  <2>1. \/ SameSign(units, nanos)
        \/ ~SameSign(units, nanos) /\ units > 0 /\ nanos < 0
        \/ ~SameSign(units, nanos) /\ ~(units > 0) /\ units = 0 /\ nanos > 0
    BY <1>2 DEF SameSign
  <2>2. Sum(a, b) = IF SameSign(units, nanos)
       THEN [Units |-> units + Quotient(nanos, NANOSMOD), Nanos |-> Remainder(nanos, NANOSMOD)]
       ELSE IF units > 0
       THEN [Units |-> units - 1, Nanos |-> nanos + NANOSMOD]
       ELSE [Units |-> units + 1, Nanos |-> nanos - NANOSMOD]
    BY DEF Sum, units, nanos
  <2>. QED  BY <1>4, <1>5, <1>6, <2>1, <2>2
<1>8. Worth(Sum(a, b)) >= 0
  <2>1. Worth(a) \in Int /\ Worth(b) \in Int
    BY PricesAssumption DEF Money, Worth
  <2>. QED  BY <2>1, SumIsExact
<1>. QED  BY <1>7, <1>8

(* What prices and their sums are. *)
(* What is owed twice is owed, and is worth both. *)
LEMMA SumIsOwed ==
    ASSUME NEW a \in Owed, NEW b \in Owed
    PROVE  Sum(a, b) \in Owed /\ Worth(Sum(a, b)) = Worth(a) + Worth(b)
<1>1. a \in Money /\ b \in Money /\ a.Units \in Int /\ a.Nanos \in Int /\ b.Units \in Int /\ b.Nanos \in Int
  BY DEF Owed, Money
<1>. DEFINE units == a.Units + b.Units
            nanos == a.Nanos + b.Nanos
<1>2. /\ units \in Int /\ nanos \in Int /\ NANOSMOD \in Nat \ {0}
      /\ Quotient(nanos, NANOSMOD) \in Int /\ Remainder(nanos, NANOSMOD) \in Int
  <2>1. units \in Int /\ nanos \in Int /\ NANOSMOD \in Nat \ {0}
    BY <1>1, PricesAssumption
  <2>. HIDE DEF units, nanos
  <2>2. Quotient(nanos, NANOSMOD) \in Int
    BY <2>1, RemainderIsSmall
  <2>. QED  BY <2>1, <2>2 DEF Remainder
<1>3. Sum(a, b) \in Money
  <2>. HIDE DEF units, nanos
  <2>1. Sum(a, b) = IF SameSign(units, nanos)
       THEN [Units |-> units + Quotient(nanos, NANOSMOD), Nanos |-> Remainder(nanos, NANOSMOD)]
       ELSE IF units > 0
       THEN [Units |-> units - 1, Nanos |-> nanos + NANOSMOD]
       ELSE [Units |-> units + 1, Nanos |-> nanos - NANOSMOD]
    BY DEF Sum, units, nanos
  <2>. QED  BY <1>2, <2>1 DEF Money
<1>4. Normal(Sum(a, b)) /\ Worth(Sum(a, b)) >= 0
  BY <1>1, SumIsNormal DEF Owed
<1>5. Worth(Sum(a, b)) = Worth(a) + Worth(b)
  BY <1>1, SumIsExact
<1>. QED  BY <1>3, <1>4, <1>5 DEF Owed

(* Nothing is owed to begin with. *)
LEMMA NoMoneyOwed == NoMoney \in Owed /\ Worth(NoMoney) = 0
<1>1. NoMoney \in Money /\ NoMoney.Units = 0 /\ NoMoney.Nanos = 0
  BY DEF NoMoney, Money
<1>. HIDE DEF NoMoney
<1>2. Worth(NoMoney) = 0 /\ Normal(NoMoney)
  BY <1>1, PricesAssumption DEF Worth, Normal
<1>. QED  BY <1>1, <1>2 DEF Owed

(* A total is worth what was added, for any number of amounts, and its     *)
(* nanos never leave their 32 bits.                                        *)
THEOREM TotalsAreSums ==
    ASSUME NEW amounts \in Seq(Owed)
    PROVE  TotalIsSum(amounts)
<1>. DEFINE n == Len(amounts)
            T == Owed
            step == [k \in 1 .. n |-> [m \in T |-> Sum(m, amounts[k])]]
            f == CHOOSE f : f = [k \in 0 .. n |-> IF k = 0 THEN NoMoney ELSE Sum(f[k - 1], amounts[k])]
            worths == [k \in 1 .. n |-> Worth(amounts[k])]
<1>1. n \in Nat /\ \A k \in 1 .. n : amounts[k] \in Owed
  OBVIOUS
<1>2. step \in [1 .. n -> [T -> T]] /\ NoMoney \in T
  BY <1>1, SumIsOwed, NoMoneyOwed
<1>3. \A k \in 1 .. n, m \in T : step[k][m] = Sum(m, amounts[k])
  OBVIOUS
<1>4. \A k \in 1 .. n : worths[k] \in Int
  <2>1. \A m \in Owed : Worth(m) \in Int
    BY PricesAssumption DEF Owed, Money, Worth
  <2>. QED  BY <1>1, <2>1
<1>5. Len(worths) = n
  BY <1>1
<1>6. Total(amounts) = f[n]
  BY DEF Total
<1>7. TotalIsSum(amounts) <=> Worth(Total(amounts)) = SumOf(worths) /\ Normal(Total(amounts))
  BY DEF TotalIsSum
<1>8. \A k \in 1 .. n : worths[k] = Worth(amounts[k])
  OBVIOUS
<1>. HIDE DEF step, T, f, worths, n
<1>9. f = [k \in 0 .. n |-> IF k = 0 THEN NoMoney ELSE Sum(f[k - 1], amounts[k])]
  <2>1. PICK r \in [0 .. n -> T] : r[0] = NoMoney /\ \A k \in 1 .. n : r[k] = step[k][r[k - 1]]
    <3>1. Recursive(n, T, NoMoney, step)
      BY <1>1, <1>2, Recursion
    <3>. QED  BY <3>1 DEF Recursive
  <2>2. \A k \in 1 .. n : r[k] = Sum(r[k - 1], amounts[k])
    <3>. SUFFICES ASSUME NEW k \in 1 .. n PROVE r[k] = Sum(r[k - 1], amounts[k])
      OBVIOUS
    <3>1. r[k - 1] \in T
      BY <1>1
    <3>. QED  BY <1>3, <2>1, <3>1
  <2>3. r = [k \in 0 .. n |-> IF k = 0 THEN NoMoney ELSE Sum(r[k - 1], amounts[k])]
    <3>1. \A k \in 0 .. n : r[k] = IF k = 0 THEN NoMoney ELSE Sum(r[k - 1], amounts[k])
      BY <2>1, <2>2
    <3>. QED  BY <3>1
  <2>. QED  BY <2>3 DEF f
<1>10. f[0] = NoMoney /\ \A k \in 1 .. n : f[k] = Sum(f[k - 1], amounts[k])
  BY <1>1, <1>9
<1>11. PICK sum \in [0 .. n -> Int] :
          /\ sum[0] = 0 /\ \A k \in 1 .. n : sum[k] = sum[k - 1] + worths[k]
          /\ SumOf(worths) = sum[n]
  BY <1>1, <1>4, <1>5, SumOfSteps
<1>. DEFINE G == {k \in 0 .. n : f[k] \in Owed /\ Worth(f[k]) = sum[k]}
<1>12. 0 \in G
  BY <1>1, <1>10, <1>11, NoMoneyOwed
<1>13. ASSUME NEW k \in 0 .. n - 1, k \in G PROVE k + 1 \in G
  <2>1. /\ k \in 0 .. n /\ k + 1 \in 1 .. n /\ f[k] \in Owed /\ Worth(f[k]) = sum[k]
        /\ f[k + 1] = Sum(f[k], amounts[k + 1]) /\ sum[k + 1] = sum[k] + worths[k + 1]
    BY <1>1, <1>10, <1>11, <1>13
  <2>2. amounts[k + 1] \in Owed /\ worths[k + 1] = Worth(amounts[k + 1])
    BY <1>1, <1>8, <2>1
  <2>3. f[k + 1] \in Owed /\ Worth(f[k + 1]) = Worth(f[k]) + Worth(amounts[k + 1])
    BY <2>1, <2>2, SumIsOwed
  <2>. QED  BY <2>1, <2>2, <2>3
<1>14. \A k \in 0 .. n : k \in G
  <2>. HIDE DEF G
  <2>. QED  BY <1>1, <1>12, <1>13, Induct
<1>15. f[n] \in Owed /\ Worth(f[n]) = sum[n]
  BY <1>1, <1>14
<1>. QED  BY <1>6, <1>7, <1>11, <1>15 DEF Owed

(* MultiplySlow doubles once less than it is asked to multiply by.         *)
THEOREM ProductsAreDoubled ==
    ASSUME NEW amount \in Owed, NEW n \in Nat
    PROVE  Multiplies(amount, n)
<1>. DEFINE turns == IF n = 0 THEN 0 ELSE n - 1
            T == Owed
            step == [k \in 1 .. turns |-> [m \in T |-> Sum(m, m)]]
            f == CHOOSE f : f = [k \in 0 .. turns |-> IF k = 0 THEN amount ELSE Sum(f[k - 1], f[k - 1])]
<1>1. turns \in Nat /\ Worth(amount) \in Int
  BY PricesAssumption DEF Owed, Money, Worth
<1>2. step \in [1 .. turns -> [T -> T]] /\ amount \in T
  BY <1>1, SumIsOwed
<1>3. \A k \in 1 .. turns, m \in T : step[k][m] = Sum(m, m)
  OBVIOUS
<1>4. MultiplySlow(amount, n) = f[turns]
  BY DEF MultiplySlow
<1>5. Multiplies(amount, n) <=>
         /\ Worth(MultiplySlow(amount, n)) = Doubled(Worth(amount), turns)
         /\ Normal(MultiplySlow(amount, n))
  BY DEF Multiplies
<1>. HIDE DEF turns, step, T, f
<1>6. f = [k \in 0 .. turns |-> IF k = 0 THEN amount ELSE Sum(f[k - 1], f[k - 1])]
  <2>1. PICK r \in [0 .. turns -> T] : r[0] = amount /\ \A k \in 1 .. turns : r[k] = step[k][r[k - 1]]
    <3>1. Recursive(turns, T, amount, step)
      BY <1>1, <1>2, Recursion
    <3>. QED  BY <3>1 DEF Recursive
  <2>2. \A k \in 1 .. turns : r[k] = Sum(r[k - 1], r[k - 1])
    <3>. SUFFICES ASSUME NEW k \in 1 .. turns PROVE r[k] = Sum(r[k - 1], r[k - 1])
      OBVIOUS
    <3>1. r[k - 1] \in T
      BY <1>1
    <3>. QED  BY <1>3, <2>1, <3>1
  <2>3. r = [k \in 0 .. turns |-> IF k = 0 THEN amount ELSE Sum(r[k - 1], r[k - 1])]
    <3>1. \A k \in 0 .. turns : r[k] = IF k = 0 THEN amount ELSE Sum(r[k - 1], r[k - 1])
      BY <2>1, <2>2
    <3>. QED  BY <3>1
  <2>. QED  BY <2>3 DEF f
<1>7. f[0] = amount /\ \A k \in 1 .. turns : f[k] = Sum(f[k - 1], f[k - 1])
  BY <1>1, <1>6
<1>8. PICK d \in [0 .. turns -> Int] :
          /\ d[0] = Worth(amount) /\ \A k \in 1 .. turns : d[k] = 2 * d[k - 1]
          /\ Doubled(Worth(amount), turns) = d[turns]
  BY <1>1, DoubledSteps
<1>. DEFINE G == {k \in 0 .. turns : f[k] \in Owed /\ Worth(f[k]) = d[k]}
<1>9. 0 \in G
  BY <1>1, <1>7, <1>8
<1>10. ASSUME NEW k \in 0 .. turns - 1, k \in G PROVE k + 1 \in G
  <2>1. /\ k \in 0 .. turns /\ k + 1 \in 1 .. turns /\ f[k] \in Owed /\ Worth(f[k]) = d[k]
        /\ f[k + 1] = Sum(f[k], f[k]) /\ d[k + 1] = 2 * d[k]
    BY <1>1, <1>7, <1>8, <1>10
  <2>2. f[k + 1] \in Owed /\ Worth(f[k + 1]) = Worth(f[k]) + Worth(f[k])
    BY <2>1, SumIsOwed
  <2>. QED  BY <2>1, <2>2
<1>11. \A k \in 0 .. turns : k \in G
  <2>. HIDE DEF G
  <2>. QED  BY <1>1, <1>9, <1>10, Induct
<1>12. f[turns] \in Owed /\ Worth(f[turns]) = d[turns]
  BY <1>1, <1>11
<1>. QED  BY <1>4, <1>5, <1>8, <1>12 DEF Owed

(* A division by a rate, and the carry after it, lose less than a unit and *)
(* a nano, and gain nothing.                                               *)
LEMMA OneConversion ==
    ASSUME NEW a \in [Units : Nat, Nanos : Nat], NEW r \in Rate
    PROVE  LET c == Carry(Divided(a, r)) IN
           /\ c \in [Units : Nat, Nanos : Nat] /\ c.Nanos < NANOSMOD
           /\ r.by * Worth(c) <= Worth(a) * r.of
           /\ Worth(a) * r.of - r.by * Worth(c) < (NANOSMOD + 1) * r.by
<1>. DEFINE by == r.by
            of == r.of
            u == a.Units * of
            v == a.Nanos * of
            p == u \div by
            q == v \div by
            e == q \div NANOSMOD
            c == [Units |-> p + e, Nanos |-> q - NANOSMOD * e]
<1>1. by \in Nat /\ by > 0 /\ of \in Nat /\ u \in Nat /\ v \in Nat /\ NANOSMOD \in Nat /\ NANOSMOD > 0
      /\ a.Units \in Nat /\ a.Nanos \in Nat
  BY PricesAssumption DEF Rate
<1>. HIDE DEF u, v, by, of
<1>2. p \in Nat /\ by * p <= u /\ u < by * p + by
  BY <1>1
<1>3. q \in Nat /\ by * q <= v /\ v < by * q + by
  BY <1>1
<1>. HIDE DEF p, q
<1>4. e \in Nat /\ NANOSMOD * e <= q /\ q < NANOSMOD * e + NANOSMOD
  BY <1>1, <1>3
<1>. HIDE DEF e
<1>5. Divided(a, r) = [Units |-> p, Nanos |-> q]
  BY <1>1 DEF Divided, Quotient, p, q, u, v, by, of
<1>6. Carry(Divided(a, r)) = c
  <2>1. (p % 1) * NANOSMOD = 0
    BY <1>1, <1>2
  <2>2. Carry(Divided(a, r)) = [Units |-> p + q \div NANOSMOD, Nanos |-> Remainder(q, NANOSMOD)]
    BY <1>3, <1>5, <2>1 DEF Carry
  <2>3. Remainder(q, NANOSMOD) = q - NANOSMOD * e
    BY <1>3 DEF Remainder, Quotient, e
  <2>. QED  BY <2>2, <2>3 DEF e
<1>7. c \in [Units : Nat, Nanos : Nat] /\ c.Nanos < NANOSMOD
  BY <1>1, <1>2, <1>3, <1>4
<1>8. Worth(c) = p * NANOSMOD + q
  BY <1>1, <1>2, <1>3, <1>4 DEF Worth
<1>9. Worth(a) * of = u * NANOSMOD + v
  BY <1>1 DEF Worth, u, v
<1>10. by * (p * NANOSMOD + q) = (by * p) * NANOSMOD + by * q
  BY <1>1, <1>2, <1>3
<1>. DEFINE x == by * p
<1>11. x \in Nat /\ x <= u /\ u < x + by
  BY <1>1, <1>2
<1>. HIDE DEF x, c
<1>12. x * NANOSMOD <= u * NANOSMOD /\ u * NANOSMOD - x * NANOSMOD <= by * NANOSMOD
  BY <1>1, <1>11
<1>13. (NANOSMOD + 1) * by = by * NANOSMOD + by
  BY <1>1
<1>14. by * Worth(c) = x * NANOSMOD + by * q
  BY <1>8, <1>10 DEF x
<1>. DEFINE xn == x * NANOSMOD
            un == u * NANOSMOD
            bn == by * NANOSMOD
            bq == by * q
<1>15. xn \in Int /\ un \in Int /\ bn \in Int /\ bq \in Int
  BY <1>1, <1>3, <1>11
<1>16. bq <= v /\ v < bq + by /\ xn <= un /\ un - xn <= bn
  BY <1>3, <1>12
<1>17. by * Worth(c) = xn + bq /\ Worth(a) * of = un + v /\ (NANOSMOD + 1) * by = bn + by
  BY <1>9, <1>13, <1>14
<1>. HIDE DEF xn, un, bn, bq
<1>18. xn + bq <= un + v /\ (un + v) - (xn + bq) < bn + by
  BY <1>1, <1>15, <1>16
<1>. QED  BY <1>6, <1>7, <1>17, <1>18 DEF by, of

(* Of a price, what is converted is never worth more than the two rates    *)
(* make of it, and less by no more than what the two divisions drop.       *)
THEOREM ConversionsLoseLittle ==
    ASSUME NEW amount \in Price, NEW from \in Rate, NEW to \in Rate
    PROVE  ConvertLoses(amount, from, to)
<1>. DEFINE mid == Carry(Divided(amount, from))
            got == Carry(Divided(mid, to))
            a == Worth(amount)
            m == Worth(mid)
            g == Worth(got)
            k == NANOSMOD + 1
            b1 == from.by
            o1 == from.of
            b2 == to.by
            o2 == to.of
<1>1. amount \in [Units : Nat, Nanos : Nat]
  BY DEF Price
<1>2. /\ mid \in [Units : Nat, Nanos : Nat]
      /\ b1 * m <= a * o1 /\ a * o1 - b1 * m < k * b1
  <2>. HIDE DEF mid
  <2>. QED  BY <1>1, OneConversion DEF mid
<1>. HIDE DEF mid
<1>3. /\ got \in [Units : Nat, Nanos : Nat] /\ got.Nanos < NANOSMOD
      /\ b2 * g <= m * o2 /\ m * o2 - b2 * g < k * b2
  <2>. HIDE DEF got
  <2>. QED  BY <1>2, OneConversion DEF got
<1>4. got = Convert(amount, from, to)
  BY DEF Convert, mid
<1>. HIDE DEF got
<1>5. /\ a \in Nat /\ m \in Nat /\ g \in Nat /\ k \in Nat /\ k > 0
      /\ b1 \in Nat /\ b2 \in Nat /\ o1 \in Nat /\ o2 \in Nat /\ b1 > 0 /\ b2 > 0 /\ o1 > 0 /\ o2 > 0
  BY <1>1, <1>2, <1>3, PricesAssumption DEF Worth, Rate
<1>6. Normal(got) /\ got.Nanos >= 0
  BY <1>3, PricesAssumption DEF Normal
<1>. HIDE DEF a, m, g, k, b1, o1, b2, o2
<1>7. (b1 * b2) * g <= a * o1 * o2
  <2>1. b1 * (b2 * g) <= b1 * (m * o2)
    BY <1>3, <1>5
  <2>2. (b1 * m) * o2 <= (a * o1) * o2
    BY <1>2, <1>5
  <2>3. (b1 * b2) * g = b1 * (b2 * g) /\ b1 * (m * o2) = (b1 * m) * o2
    BY <1>5
  <2>. QED  BY <1>5, <2>1, <2>2, <2>3
<1>8. a * o1 * o2 - (b1 * b2) * g < k * (b1 * b2 + o2 * b1)
  <2>1. b1 * (m * o2 - b2 * g) < b1 * (k * b2)
    BY <1>3, <1>5
  <2>2. (a * o1 - b1 * m) * o2 < (k * b1) * o2
    BY <1>2, <1>5
  <2>3. /\ b1 * (m * o2 - b2 * g) = b1 * (m * o2) - (b1 * b2) * g
        /\ (a * o1 - b1 * m) * o2 = a * o1 * o2 - b1 * (m * o2)
        /\ b1 * (k * b2) = k * (b1 * b2) /\ (k * b1) * o2 = k * (o2 * b1)
        /\ k * (b1 * b2 + o2 * b1) = k * (b1 * b2) + k * (o2 * b1)
    BY <1>5
  <2>. DEFINE x1 == b1 * (m * o2)
              x2 == (b1 * b2) * g
              x3 == a * o1 * o2
              x4 == k * (b1 * b2)
              x5 == k * (o2 * b1)
  <2>4. x1 \in Int /\ x2 \in Int /\ x3 \in Int /\ x4 \in Int /\ x5 \in Int
    BY <1>5
  <2>5. x1 - x2 < x4 /\ x3 - x1 < x5
    BY <2>1, <2>2, <2>3
  <2>6. k * (b1 * b2 + o2 * b1) = x4 + x5
    BY <2>3
  <2>. HIDE DEF x1, x2, x3, x4, x5
  <2>7. x3 - x2 < x4 + x5
    BY <2>4, <2>5
  <2>. QED  BY <2>6, <2>7 DEF x2, x3
<1>. QED  BY <1>4, <1>6, <1>7, <1>8 DEF ConvertLoses, a, g, k, b1, o1, b2, o2

-----------------------------------------------------------------------------
(* A sum changes by what one of its terms does. *)
LEMMA OneTermChanged ==
    ASSUME NEW n \in Nat, NEW s, NEW t, Len(s) = n, Len(t) = n,
           \A k \in 1 .. n : s[k] \in Int /\ t[k] \in Int,
           NEW j \in 1 .. n, \A k \in (1 .. n) \ {j} : t[k] = s[k]
    PROVE  SumOf(s) \in Int /\ SumOf(t) = SumOf(s) + (t[j] - s[j])
<1>1. PICK a \in [0 .. n -> Int] :
          /\ a[0] = 0 /\ \A k \in 1 .. n : a[k] = a[k - 1] + s[k]
          /\ SumOf(s) = a[n]
  BY SumOfSteps
<1>2. PICK b \in [0 .. n -> Int] :
          /\ b[0] = 0 /\ \A k \in 1 .. n : b[k] = b[k - 1] + t[k]
          /\ SumOf(t) = b[n]
  BY SumOfSteps
<1>. DEFINE G == {k \in 0 .. n : b[k] = a[k] + IF k < j THEN 0 ELSE t[j] - s[j]}
<1>3. 0 \in G
  BY <1>1, <1>2
<1>4. ASSUME NEW k \in 0 .. n - 1, k \in G PROVE k + 1 \in G
  <2>1. k + 1 \in 1 .. n /\ a[k] \in Int /\ b[k] \in Int /\ s[k + 1] \in Int /\ t[k + 1] \in Int
    BY <1>1, <1>2
  <2>2. a[k + 1] = a[k] + s[k + 1] /\ b[k + 1] = b[k] + t[k + 1]
    <3>1. (k + 1) - 1 = k
      OBVIOUS
    <3>2. /\ a[k + 1] = a[(k + 1) - 1] + s[k + 1]
          /\ b[k + 1] = b[(k + 1) - 1] + t[k + 1]
      BY <1>1, <1>2, <2>1
    <3>. QED  BY <3>1, <3>2
  <2>3. b[k] = a[k] + IF k < j THEN 0 ELSE t[j] - s[j]
    BY <1>4
  <2>. DEFINE x == a[k]
              y == b[k]
              u == s[k + 1]
              v == t[k + 1]
              d == t[j] - s[j]
  <2>6. x \in Int /\ y \in Int /\ u \in Int /\ v \in Int /\ d \in Int
    <3>1. s[j] \in Int /\ t[j] \in Int
      OBVIOUS
    <3>2. d \in Int
      BY <3>1
    <3>. QED  BY <2>1, <3>2
  <2>7. a[k + 1] = x + u /\ b[k + 1] = y + v
    BY <2>2
  <2>8. y = x + IF k < j THEN 0 ELSE d
    BY <2>3
  <2>9. SUFFICES y + v = (x + u) + IF k + 1 < j THEN 0 ELSE d
    BY <2>7
  <2>4. CASE k + 1 = j
    <3>1. v = u + d /\ k < j /\ ~(k + 1 < j)
      <4>1. d = v - u
        BY <2>4
      <4>. HIDE DEF d, u, v
      <4>. QED  BY <2>4, <2>6, <4>1
    <3>. HIDE DEF x, y, u, v, d
    <3>. QED  BY <2>6, <2>8, <3>1
  <2>5. CASE k + 1 # j
    <3>1. v = u
      BY <2>1, <2>5
    <3>2. k + 1 < j <=> k < j
      BY <2>5
    <3>. HIDE DEF x, y, u, v, d
    <3>. QED  BY <2>6, <2>8, <3>1, <3>2
  <2>. QED  BY <2>4, <2>5
<1>5. \A k \in 0 .. n : k \in G
  <2>. HIDE DEF G
  <2>. QED  BY <1>3, <1>4, Induct
<1>6. b[n] = a[n] + (t[j] - s[j]) /\ a[n] \in Int
  BY <1>5
<1>. QED  BY <1>1, <1>2, <1>6

(* What a digit counts for, by how many there are to the right of it.      *)
Weight(i, d) == IF i % 2 = 1 THEN DigitSum(2 * d) ELSE d
Weights(card) == [k \in 1 .. Len(card) |-> Weight(k - 1, card[Len(card) - (k - 1)])]

(* The sum of a card is that of the weights of its digits. *)
LEMMA LuhnIsWeights == \A card : LuhnSum(card) = SumOf(Weights(card))
  BY DEF LuhnSum, Weights, Weight

(* get_digit_sum of a digit that is doubled. *)
LEMMA DoubledDigit ==
    ASSUME NEW d \in Digit
    PROVE  DigitSum(2 * d) = IF d < 5 THEN 2 * d ELSE 2 * d - 9
<1>1. \/ d = 0 \/ d = 1 \/ d = 2 \/ d = 3 \/ d = 4 \/ d = 5 \/ d = 6 \/ d = 7 \/ d = 8 \/ d = 9
  BY DEF Digit
<1>. QED  BY <1>1 DEF DigitSum

(* No two digits count the same, and no two neighbours either way round.   *)
LEMMA DigitsDiffer ==
    ASSUME NEW i \in Nat, NEW a \in Digit, NEW b \in Digit, a # b
    PROVE  /\ Weight(i, a) \in 0 .. 9 /\ Weight(i, b) \in 0 .. 9 /\ Weight(i, a) # Weight(i, b)
           /\ {a, b} # {0, 9} =>
                LET x == Weight(i, a) + Weight(i + 1, b)
                    y == Weight(i, b) + Weight(i + 1, a)
                IN x # y /\ x - y \in -9 .. 9
<1>1. a \in 0 .. 9 /\ b \in 0 .. 9
  BY DEF Digit
<1>2. DigitSum(2 * a) = (IF a < 5 THEN 2 * a ELSE 2 * a - 9)
  BY DoubledDigit
<1>3. DigitSum(2 * b) = (IF b < 5 THEN 2 * b ELSE 2 * b - 9)
  BY DoubledDigit
<1>4. {a, b} # {0, 9} => ~(a = 0 /\ b = 9) /\ ~(a = 9 /\ b = 0)
  OBVIOUS
<1>5. \/ i % 2 = 0 /\ (i + 1) % 2 = 1
      \/ i % 2 = 1 /\ (i + 1) % 2 = 0
  OBVIOUS
<1>6. \/ /\ Weight(i, a) = a /\ Weight(i, b) = b
         /\ Weight(i + 1, a) = DigitSum(2 * a) /\ Weight(i + 1, b) = DigitSum(2 * b)
      \/ /\ Weight(i, a) = DigitSum(2 * a) /\ Weight(i, b) = DigitSum(2 * b)
         /\ Weight(i + 1, a) = a /\ Weight(i + 1, b) = b
  BY <1>5 DEF Weight
<1>. QED  BY <1>1, <1>2, <1>3, <1>4, <1>6

(* A card whose sum is off by less than ten is not valid. *)
LEMMA NotValid ==
    ASSUME NEW card, NEW other, LuhnSum(card) \in Int, NEW d \in -9 .. 9, d # 0,
           LuhnSum(other) = LuhnSum(card) + d, CardType(card) # "invalid"
    PROVE  CardType(other) = "invalid"
<1>1. LuhnSum(card) % 10 = 0
  BY DEF CardType
<1>2. (LuhnSum(card) + d) % 10 # 0
  BY <1>1
<1>. QED  BY <1>2 DEF CardType

(* What one digit in another's place changes of the sum of a card. *)
LEMMA OneDigitWrong ==
    ASSUME NEW card \in Seq(Digit), NEW i \in DOMAIN card, NEW d \in Digit
    PROVE  LET other == [card EXCEPT ![i] = d]
               j == Len(card) - i IN
           /\ other \in Seq(Digit) /\ Len(other) = Len(card)
           /\ LuhnSum(card) \in Int
           /\ LuhnSum(other) = LuhnSum(card) + (Weight(j, d) - Weight(j, card[i]))
<1>. DEFINE n == Len(card)
            other == [card EXCEPT ![i] = d]
            j == n - i
            s == Weights(card)
            t == Weights(other)
<1>1. /\ n \in Nat /\ i \in 1 .. n /\ j \in Nat /\ j + 1 \in 1 .. n
      /\ other \in Seq(Digit) /\ Len(other) = n
      /\ \A k \in 1 .. n : card[k] \in Digit /\ other[k] = IF k = i THEN d ELSE card[k]
  OBVIOUS
<1>. HIDE DEF other, n, j
<1>2. \A k \in Nat, x \in Digit : Weight(k, x) \in Int
  BY DEF Weight, DigitSum, Digit
<1>3. Len(s) = n /\ Len(t) = n
  BY <1>1 DEF Weights, n
<1>4. \A k \in 1 .. n : /\ n - (k - 1) \in 1 .. n /\ k - 1 \in Nat
                        /\ s[k] = Weight(k - 1, card[n - (k - 1)])
                        /\ t[k] = Weight(k - 1, other[n - (k - 1)])
  BY <1>1 DEF Weights, n
<1>5. \A k \in 1 .. n : s[k] \in Int /\ t[k] \in Int
  <2>. SUFFICES ASSUME NEW k \in 1 .. n PROVE s[k] \in Int /\ t[k] \in Int
    OBVIOUS
  <2>1. card[n - (k - 1)] \in Digit /\ other[n - (k - 1)] \in Digit
    <3>1. n - (k - 1) \in 1 .. n
      BY <1>4
    <3>. QED  BY <1>1, <3>1
  <2>2. s[k] = Weight(k - 1, card[n - (k - 1)]) /\ t[k] = Weight(k - 1, other[n - (k - 1)])
    BY <1>4
  <2>3. k - 1 \in Nat
    OBVIOUS
  <2>. QED  BY <1>2, <2>1, <2>2, <2>3
<1>6. \A k \in (1 .. n) \ {j + 1} : t[k] = s[k]
  <2>. SUFFICES ASSUME NEW k \in (1 .. n) \ {j + 1} PROVE t[k] = s[k]
    OBVIOUS
  <2>1. n - (k - 1) # i
    BY <1>1 DEF j
  <2>2. other[n - (k - 1)] = card[n - (k - 1)]
    <3>1. n - (k - 1) \in 1 .. n
      BY <1>4
    <3>. QED  BY <1>1, <2>1, <3>1
  <2>3. s[k] = Weight(k - 1, card[n - (k - 1)]) /\ t[k] = Weight(k - 1, other[n - (k - 1)])
    BY <1>4
  <2>. QED  BY <2>2, <2>3
<1>7. s[j + 1] = Weight(j, card[i]) /\ t[j + 1] = Weight(j, d)
  <2>1. (j + 1) - 1 = j /\ n - j = i
    BY <1>1 DEF j
  <2>. QED  BY <1>1, <1>4, <2>1
<1>. HIDE DEF s, t
<1>8. SumOf(s) \in Int /\ SumOf(t) = SumOf(s) + (t[j + 1] - s[j + 1])
  <2>. DEFINE m == j + 1
  <2>1. n \in Nat /\ m \in 1 .. n
    BY <1>1
  <2>2. \A k \in (1 .. n) \ {m} : t[k] = s[k]
    BY <1>6
  <2>. HIDE DEF m
  <2>3. SumOf(s) \in Int /\ SumOf(t) = SumOf(s) + (t[m] - s[m])
    BY <1>3, <1>5, <2>1, <2>2, OneTermChanged
  <2>. QED  BY <2>3 DEF m
<1>. QED  BY <1>1, <1>7, <1>8, LuhnIsWeights DEF s, t, other, n, j

(* Charge refuses what has one wrong digit, and what has two neighbours in *)
(* each other's place unless they are 0 and 9: for numbers of any length.  *)
THEOREM CardErrorsAreFound ==
    ASSUME NEW card \in Seq(Digit)
    PROVE  ErrorsAreFound(card)
<1>. SUFFICES ASSUME CardType(card) # "invalid"
              PROVE  /\ \A i \in DOMAIN card : \A d \in Digit \ {card[i]} :
                            ~Charged([card EXCEPT ![i] = d], CurrentYear, CurrentMonth)
                     /\ \A i \in 2 .. Len(card) :
                            card[i] # card[i - 1] /\ {card[i], card[i - 1]} # {0, 9} =>
                                CardType([card EXCEPT ![i] = card[i - 1], ![i - 1] = card[i]]) = "invalid"
  BY DEF ErrorsAreFound
<1>0. Len(card) \in Nat /\ DOMAIN card = 1 .. Len(card) /\ \A k \in DOMAIN card : card[k] \in Digit
  OBVIOUS
<1>1. ASSUME NEW i \in DOMAIN card, NEW d \in Digit \ {card[i]}
      PROVE  ~Charged([card EXCEPT ![i] = d], CurrentYear, CurrentMonth)
  <2>. DEFINE other == [card EXCEPT ![i] = d]
              w == Weight(Len(card) - i, d) - Weight(Len(card) - i, card[i])
  <2>1. w \in -9 .. 9 /\ w # 0
    <3>1. Len(card) - i \in Nat /\ card[i] \in Digit /\ d # card[i]
      BY <1>0
    <3>2. Weight(Len(card) - i, d) \in 0 .. 9 /\ Weight(Len(card) - i, card[i]) \in 0 .. 9
          /\ Weight(Len(card) - i, d) # Weight(Len(card) - i, card[i])
      BY <3>1, DigitsDiffer
    <3>. DEFINE x == Weight(Len(card) - i, d)
                y == Weight(Len(card) - i, card[i])
    <3>3. x \in 0 .. 9 /\ y \in 0 .. 9 /\ x # y
      BY <3>2
    <3>. HIDE DEF x, y
    <3>4. x - y \in -9 .. 9 /\ x - y # 0
      BY <3>3
    <3>. QED  BY <3>4 DEF x, y
  <2>2. LuhnSum(card) \in Int /\ LuhnSum(other) = LuhnSum(card) + w
    BY OneDigitWrong
  <2>. HIDE DEF other, w
  <2>3. CardType(other) = "invalid"
    BY <2>1, <2>2, NotValid
  <2>. QED  BY <2>3 DEF Charged, Accepted, other
<1>2. ASSUME NEW i \in 2 .. Len(card), card[i] # card[i - 1], {card[i], card[i - 1]} # {0, 9}
      PROVE  CardType([card EXCEPT ![i] = card[i - 1], ![i - 1] = card[i]]) = "invalid"
  <2>. DEFINE a == card[i]
              b == card[i - 1]
              j == Len(card) - i
              mid == [card EXCEPT ![i] = b]
              other == [mid EXCEPT ![i - 1] = a]
              w == (Weight(j, b) + Weight(j + 1, a)) - (Weight(j, a) + Weight(j + 1, b))
  <2>1. i \in DOMAIN card /\ i - 1 \in DOMAIN card /\ a \in Digit /\ b \in Digit /\ j \in Nat
    BY <1>0
  <2>2. /\ mid \in Seq(Digit) /\ Len(mid) = Len(card) /\ LuhnSum(card) \in Int
        /\ LuhnSum(mid) = LuhnSum(card) + (Weight(j, b) - Weight(j, a))
    <3>. HIDE DEF a, b
    <3>. QED  BY <2>1, OneDigitWrong DEF a
  <2>3. mid[i - 1] = b /\ DOMAIN mid = DOMAIN card
    BY <1>0
  <2>4. other = [card EXCEPT ![i] = b, ![i - 1] = a]
    OBVIOUS
  <2>. HIDE DEF mid
  <2>5. LuhnSum(other) = LuhnSum(mid) + (Weight(j + 1, a) - Weight(j + 1, b))
    <3>1. Len(mid) - (i - 1) = j + 1
      BY <1>0, <2>2
    <3>2. i - 1 \in DOMAIN mid
      BY <2>1, <2>3
    <3>. DEFINE k == i - 1
                other2 == [mid EXCEPT ![k] = a]
    <3>3. mid \in Seq(Digit) /\ k \in DOMAIN mid /\ a \in Digit /\ mid[k] = b
      BY <2>1, <2>2, <2>3, <3>2
    <3>4. Len(mid) - k = j + 1
      BY <3>1
    <3>. HIDE DEF a, b, j, k
    <3>5. LuhnSum(other2) = LuhnSum(mid) + (Weight(Len(mid) - k, a) - Weight(Len(mid) - k, mid[k]))
      BY <3>3, OneDigitWrong
    <3>. QED  BY <3>3, <3>4, <3>5 DEF k
  <2>6. /\ Weight(j, a) \in 0 .. 9 /\ Weight(j, b) \in 0 .. 9
        /\ Weight(j + 1, a) \in 0 .. 9 /\ Weight(j + 1, b) \in 0 .. 9
        /\ w # 0 /\ w \in -9 .. 9
    <3>1. a # b /\ {b, a} # {0, 9} /\ j + 1 \in Nat
      <4>1. a # b /\ {a, b} # {0, 9}
        BY <1>2
      <4>2. {b, a} = {a, b}
        OBVIOUS
      <4>3. j + 1 \in Nat
        BY <2>1
      <4>. QED  BY <4>1, <4>2, <4>3
    <3>2. /\ Weight(j, b) \in 0 .. 9 /\ Weight(j, a) \in 0 .. 9
          /\ Weight(j + 1, b) \in 0 .. 9 /\ Weight(j + 1, a) \in 0 .. 9
      BY <2>1, <3>1, DigitsDiffer
    <3>3. LET x == Weight(j, b) + Weight(j + 1, a)
              y == Weight(j, a) + Weight(j + 1, b)
          IN x # y /\ x - y \in -9 .. 9
      BY <2>1, <3>1, DigitsDiffer
    <3>. DEFINE x == Weight(j, a)
                y == Weight(j, b)
                u == Weight(j + 1, a)
                v == Weight(j + 1, b)
    <3>4. x \in 0 .. 9 /\ y \in 0 .. 9 /\ u \in 0 .. 9 /\ v \in 0 .. 9
      BY <3>2
    <3>5. y + u # x + v /\ (y + u) - (x + v) \in -9 .. 9
      BY <3>3
    <3>6. w = (y + u) - (x + v)
      OBVIOUS
    <3>. HIDE DEF x, y, u, v, w
    <3>7. w # 0 /\ w \in -9 .. 9
      BY <3>4, <3>5, <3>6
    <3>. QED  BY <3>4, <3>7 DEF x, y, u, v
  <2>7. LuhnSum(other) = LuhnSum(card) + w
    <3>. DEFINE x == Weight(j, a)
                y == Weight(j, b)
                u == Weight(j + 1, a)
                v == Weight(j + 1, b)
                l == LuhnSum(card)
    <3>1. x \in 0 .. 9 /\ y \in 0 .. 9 /\ u \in 0 .. 9 /\ v \in 0 .. 9 /\ l \in Int
      BY <2>2, <2>6
    <3>2. LuhnSum(mid) = l + (y - x) /\ LuhnSum(other) = LuhnSum(mid) + (u - v)
      BY <2>2, <2>5
    <3>3. w = (y + u) - (x + v)
      OBVIOUS
    <3>. HIDE DEF x, y, u, v, l, w, other
    <3>4. LuhnSum(other) = l + w
      BY <3>1, <3>2, <3>3
    <3>. QED  BY <3>4 DEF l
  <2>. HIDE DEF other, w
  <2>8. CardType(other) = "invalid"
    BY <2>2, <2>6, <2>7, NotValid
  <2>. QED  BY <2>4, <2>8
<1>. QED  BY <1>1, <1>2

(* A card is charged until the end of the month it expires in.             *)
THEOREM CardsExpire ==
    ASSUME NEW card
    PROVE  ExpiresInTime(card)
<1>. SUFFICES ASSUME NEW year \in CurrentYear - 1 .. CurrentYear + 1, NEW month \in 1 .. 12
              PROVE  CurrentYear * 12 + CurrentMonth <= year * 12 + month <=>
                        (year > CurrentYear \/ (year = CurrentYear /\ month >= CurrentMonth))
  BY DEF ExpiresInTime, Charged
<1>. QED  BY DEF CurrentYear, CurrentMonth

-----------------------------------------------------------------------------
(* The reports of the traffic generators. *)

\* How many of the first k events were in a second.
HowMany(seconds, k, second) == Cardinality({i \in 1 .. k : seconds[i] = second})

(* One more event counts for its own second and for no other. *)
LEMMA OneMoreCounted ==
    ASSUME NEW seconds, NEW second
    PROVE  /\ HowMany(seconds, 0, second) = 0
           /\ \A k \in Nat : HowMany(seconds, k, second) \in Nat
           /\ \A k \in Nat \ {0} : HowMany(seconds, k, second) =
                  HowMany(seconds, k - 1, second) + IF seconds[k] = second THEN 1 ELSE 0
<1>. DEFINE B(k) == {i \in 1 .. k : seconds[i] = second}
<1>1. B(0) = {}
  OBVIOUS
<1>2. ASSUME NEW k \in Nat PROVE IsFiniteSet(B(k)) /\ Cardinality(B(k)) \in Nat
  <2>1. IsFiniteSet(1 .. k) /\ B(k) \subseteq 1 .. k
    BY FS_Interval
  <2>. HIDE DEF B
  <2>. QED  BY <2>1, FS_Subset, FS_CardinalityType
<1>3. ASSUME NEW k \in Nat \ {0}
      PROVE  Cardinality(B(k)) = Cardinality(B(k - 1)) + IF seconds[k] = second THEN 1 ELSE 0
  <2>1. k \notin B(k - 1) /\ k - 1 \in Nat
    OBVIOUS
  <2>2. B(k) = IF seconds[k] = second THEN B(k - 1) \union {k} ELSE B(k - 1)
    OBVIOUS
  <2>. HIDE DEF B
  <2>3. IsFiniteSet(B(k - 1)) /\ Cardinality(B(k - 1)) \in Nat
    BY <1>2, <2>1
  <2>. QED  BY <2>1, <2>2, <2>3, FS_AddElement
<1>. QED  BY <1>1, <1>2, <1>3, FS_EmptySet DEF HowMany

(* What is appended, and what is joined to it, is found after it. *)
LEMMA Joining ==
    ASSUME NEW T, NEW s \in Seq(T), NEW e \in T, NEW u \in Seq(T)
    PROVE  LET z == Append(s, e) \o u IN
           /\ z \in Seq(T) /\ Len(z) = Len(s) + 1 + Len(u)
           /\ \A i \in 1 .. Len(s) : z[i] = s[i]
           /\ z[Len(s) + 1] = e
           /\ \A i \in 1 .. Len(u) : z[Len(s) + 1 + i] = u[i]
<1>1. /\ Append(s, e) \in Seq(T) /\ Len(Append(s, e)) = Len(s) + 1
      /\ \A i \in 1 .. Len(s) : Append(s, e)[i] = s[i]
      /\ Append(s, e)[Len(s) + 1] = e
  OBVIOUS
<1>. QED  BY <1>1

(* Two files of the same lines are the same. *)
LEMMA SameLines ==
    ASSUME NEW T, NEW s \in Seq(T), NEW u \in Seq(T), Len(s) = Len(u),
           \A i \in 1 .. Len(s) : s[i] = u[i]
    PROVE  s = u
  OBVIOUS

(* Of events in order none is before the first or after a later one. *)
LEMMA InOrderThroughout ==
    ASSUME NEW seconds \in Seq(Nat), \A i \in 2 .. Len(seconds) : seconds[i - 1] <= seconds[i]
    PROVE  \A k \in 1 .. Len(seconds) : \A i \in 1 .. k :
              seconds[1] <= seconds[i] /\ seconds[i] <= seconds[k]
<1>. DEFINE n == Len(seconds)
            G == {k \in 0 .. n : \A i \in 1 .. k :
                     seconds[1] <= seconds[i] /\ seconds[i] <= seconds[k]}
<1>1. n \in Nat /\ \A k \in 1 .. n : seconds[k] \in Nat
  OBVIOUS
<1>2. 0 \in G
  BY <1>1
<1>3. ASSUME NEW k \in 0 .. n - 1, k \in G PROVE k + 1 \in G
  <2>. SUFFICES ASSUME NEW i \in 1 .. k + 1
                PROVE  seconds[1] <= seconds[i] /\ seconds[i] <= seconds[k + 1]
    BY <1>1
  <2>1. CASE k = 0
    <3>1. i = 1 /\ seconds[1] \in Nat
      BY <1>1, <2>1
    <3>. QED  BY <2>1, <3>1
  <2>2. CASE k > 0
    <3>1. k + 1 \in 2 .. n /\ (k + 1) - 1 = k /\ k \in 1 .. n /\ 1 \in 1 .. n
      BY <1>1, <2>2
    <3>2. seconds[k] <= seconds[k + 1]
      <4>1. seconds[(k + 1) - 1] <= seconds[k + 1]
        BY <3>1
      <4>. QED  BY <3>1, <4>1
    <3>3. seconds[k] \in Nat /\ seconds[k + 1] \in Nat /\ seconds[1] \in Nat
      BY <1>1, <3>1
    <3>4. seconds[1] <= seconds[k]
      BY <1>3, <3>1
    <3>5. CASE i = k + 1
      <4>1. seconds[1] <= seconds[k + 1] /\ seconds[k + 1] <= seconds[k + 1]
        BY <3>2, <3>3, <3>4
      <4>. QED  BY <3>5, <4>1
    <3>6. CASE i # k + 1
      <4>1. i \in 1 .. k /\ i \in 1 .. n
        BY <3>1, <3>6
      <4>2. seconds[1] <= seconds[i] /\ seconds[i] <= seconds[k] /\ seconds[i] \in Nat
        BY <1>1, <1>3, <4>1
      <4>. QED  BY <3>2, <3>3, <4>2
    <3>. QED  BY <3>5, <3>6
  <2>. QED  BY <2>1, <2>2
<1>4. \A k \in 0 .. n : k \in G
  <2>. HIDE DEF G
  <2>. QED  BY <1>1, <1>2, <1>3, Induct
<1>. QED  BY <1>1, <1>4

(* The report of the events in a second is right, of any number of events  *)
(* in order: the seconds are those of a clock of uint64_t.                 *)
THEOREM EventsAreAllCounted ==
    ASSUME NEW seconds \in Seq(0 .. Word - 1), seconds # <<>>
    PROVE  EventsAreCounted(seconds)
<1>. DEFINE n == Len(seconds)
            first == seconds[1]
            last == seconds[n]
            C(k, v) == HowMany(seconds, k, v)
            Line(second, c) == [second |-> (second - first) % Word, count |-> c]
            Closed(book) == Append(book.lines, Line(book.second, book.count))
            Event(book, t) ==
                IF t = book.second THEN [book EXCEPT !.count = @ + 1]
                ELSE [second |-> t, count |-> 1, lines |->
                        Closed(book) \o [k \in 1 .. t - book.second - 1 |-> Line(book.second + k, 0)]]
            base == [second |-> first, count |-> 0, lines |-> <<>>]
            f == CHOOSE f : f = [k \in 0 .. n |-> IF k = 0 THEN base ELSE Event(f[k - 1], seconds[k])]
            T == [second : Int, count : Nat]
            Lines(k, v) == [l \in 1 .. v - first |-> [second |-> l - 1, count |-> C(k, first + l - 1)]]
            Cur(k) == IF k = 0 THEN first ELSE seconds[k]
            r == [k \in 0 .. n |->
                    [second |-> Cur(k), count |-> C(k, Cur(k)), lines |-> Lines(k, Cur(k))]]
<1>. SUFFICES ASSUME \A i \in 2 .. n : seconds[i - 1] <= seconds[i]
              PROVE  EventsPerSecond(seconds) =
                        [k \in 1 .. last - first + 1 |->
                            [second |-> k - 1,
                             count  |-> Cardinality({i \in DOMAIN seconds : seconds[i] = first + k - 1})]]
  BY DEF EventsAreCounted
<1>1. /\ n \in Nat \ {0} /\ DOMAIN seconds = 1 .. n /\ Word \in Nat \ {0}
      /\ \A k \in 1 .. n : seconds[k] \in Nat /\ seconds[k] < Word
  BY ReportsAssumption
<1>2. EventsPerSecond(seconds) = Closed(f[n])
  BY DEF EventsPerSecond
<1>3. \A k \in 1 .. n : \A i \in 1 .. k : first <= seconds[i] /\ seconds[i] <= seconds[k]
  <2>1. seconds \in Seq(Nat)
    BY <1>1
  <2>. QED  BY <2>1, InOrderThroughout
<1>4. \A k \in 0 .. n : Cur(k) \in Nat /\ first <= Cur(k) /\ Cur(k) < Word
  BY <1>1, <1>3
<1>5. first \in Nat /\ first < Word /\ last \in Nat /\ first <= last /\ last < Word
  BY <1>1, <1>3
<1>6. /\ \A v : C(0, v) = 0
      /\ \A k \in Nat, v \in Nat : C(k, v) \in Nat
      /\ \A k \in 1 .. n, v \in Nat :
            C(k, v) = C(k - 1, v) + IF seconds[k] = v THEN 1 ELSE 0
  <2>1. ASSUME NEW v
        PROVE  /\ C(0, v) = 0
               /\ \A k \in Nat : C(k, v) \in Nat
               /\ \A k \in Nat \ {0} : C(k, v) = C(k - 1, v) + IF seconds[k] = v THEN 1 ELSE 0
    BY OneMoreCounted
  <2>2. \A k \in 1 .. n : k \in Nat \ {0}
    BY <1>1
  <2>. HIDE DEF C, n
  <2>. QED  BY <2>1, <2>2
<1>7. \A v, c \in Nat : first <= v /\ v < Word => Line(v, c) = [second |-> v - first, count |-> c]
  <2>. SUFFICES ASSUME NEW v \in Nat, first <= v, v < Word PROVE (v - first) % Word = v - first
    OBVIOUS
  <2>. HIDE DEF first
  <2>1. v - first \in Nat /\ v - first < Word
    BY <1>1, <1>5
  <2>. DEFINE x == v - first
  <2>. HIDE DEF x
  <2>2. x \in Nat /\ x < Word
    BY <2>1 DEF x
  <2>3. x % Word = x
    BY <1>1, <2>2
  <2>. QED  BY <2>3 DEF x
<1>8. \A k \in 0 .. n : \A v \in Nat : first <= v =>
          /\ Lines(k, v) \in Seq(T) /\ Len(Lines(k, v)) = v - first
          /\ \A l \in 1 .. v - first :
                Lines(k, v)[l] = [second |-> l - 1, count |-> C(k, first + l - 1)]
  <2>. SUFFICES ASSUME NEW k \in 0 .. n, NEW v \in Nat, first <= v
                PROVE  /\ Lines(k, v) \in Seq(T) /\ Len(Lines(k, v)) = v - first
                       /\ \A l \in 1 .. v - first :
                             Lines(k, v)[l] = [second |-> l - 1, count |-> C(k, first + l - 1)]
    OBVIOUS
  <2>1. \A l \in 1 .. v - first : [second |-> l - 1, count |-> C(k, first + l - 1)] \in T
    <3>. SUFFICES ASSUME NEW l \in 1 .. v - first PROVE C(k, first + l - 1) \in Nat
      OBVIOUS
    <3>1. first + l - 1 \in Nat /\ k \in Nat
      BY <1>5
    <3>. QED  BY <1>6, <3>1
  <2>2. v - first \in Nat
    BY <1>5
  <2>. HIDE DEF T, first
  <2>. QED  BY <2>1, <2>2
<1>9. ASSUME NEW k \in 1 .. n, NEW v \in Nat, v > Cur(k - 1) PROVE C(k - 1, v) = 0
  <2>1. CASE k = 1
    BY <1>6, <2>1
  <2>2. CASE k # 1
    <3>1. k - 1 \in 1 .. n /\ Cur(k - 1) = seconds[k - 1]
      BY <2>2
    <3>2. \A i \in 1 .. k - 1 : seconds[i] \in Nat /\ seconds[i] <= seconds[k - 1]
      BY <1>1, <1>3, <3>1
    <3>3. {i \in 1 .. k - 1 : seconds[i] = v} = {}
      <4>1. seconds[k - 1] \in Nat
        BY <1>1, <3>1
      <4>. QED  BY <1>9, <3>1, <3>2, <4>1
    <3>. QED  BY <3>3, FS_EmptySet DEF HowMany
  <2>. QED  BY <2>1, <2>2
<1>. HIDE DEF n, first, last, C, Lines, T, Cur, Line, f
<1>10. ASSUME NEW k \in 1 .. n PROVE r[k] = Event(r[k - 1], seconds[k])
  <2>. DEFINE a == Cur(k - 1)
              b == seconds[k]
              e == Line(a, C(k - 1, a))
              u == [j \in 1 .. b - a - 1 |-> Line(a + j, 0)]
              s == Lines(k - 1, a)
  <2>1. /\ k - 1 \in 0 .. n /\ k \in 0 .. n /\ k \in Nat /\ k - 1 \in Nat /\ Cur(k) = b
    BY <1>1 DEF Cur
  <2>2. a \in Nat /\ b \in Nat /\ first <= a /\ a <= b /\ b < Word /\ a < Word
    <3>1. a <= b
      <4>1. CASE k = 1
        BY <1>3, <4>1, <2>1 DEF Cur, first
      <4>2. CASE k # 1
        <5>1. k - 1 \in 1 .. k /\ a = seconds[k - 1]
          BY <4>2 DEF Cur
        <5>. QED  BY <1>3, <5>1
      <4>. QED  BY <4>1, <4>2
    <3>2. /\ Cur(k) \in Nat /\ first <= Cur(k) /\ Cur(k) < Word
          /\ Cur(k - 1) \in Nat /\ first <= Cur(k - 1) /\ Cur(k - 1) < Word
      BY <1>4, <2>1
    <3>. QED  BY <2>1, <3>1, <3>2
  <2>3. /\ r[k - 1] = [second |-> a, count |-> C(k - 1, a), lines |-> s]
        /\ r[k] = [second |-> b, count |-> C(k, b), lines |-> Lines(k, b)]
    BY <2>1
  <2>4. /\ \A v \in Nat : v # b => C(k, v) = C(k - 1, v)
        /\ C(k, b) = C(k - 1, b) + 1
        /\ \A v \in Nat : C(k - 1, v) \in Nat /\ C(k, v) \in Nat
    <3>1. \A v \in Nat : C(k, v) = C(k - 1, v) + IF b = v THEN 1 ELSE 0
      BY <1>6
    <3>2. \A v \in Nat : C(k - 1, v) \in Nat /\ C(k, v) \in Nat
      BY <1>6, <2>1
    <3>. HIDE DEF b
    <3>. QED  BY <2>2, <3>1, <3>2
  <2>5. /\ s \in Seq(T) /\ Len(s) = a - first
        /\ \A l \in 1 .. a - first : s[l] = [second |-> l - 1, count |-> C(k - 1, first + l - 1)]
        /\ Lines(k, b) \in Seq(T) /\ Len(Lines(k, b)) = b - first
        /\ \A l \in 1 .. b - first :
              Lines(k, b)[l] = [second |-> l - 1, count |-> C(k, first + l - 1)]
    <3>. HIDE DEF a, b
    <3>1. /\ Lines(k - 1, a) \in Seq(T) /\ Len(Lines(k - 1, a)) = a - first
          /\ \A l \in 1 .. a - first :
                Lines(k - 1, a)[l] = [second |-> l - 1, count |-> C(k - 1, first + l - 1)]
      BY <1>8, <2>1, <2>2
    <3>2. first <= b
      BY <1>5, <2>2
    <3>3. /\ Lines(k, b) \in Seq(T) /\ Len(Lines(k, b)) = b - first
          /\ \A l \in 1 .. b - first :
                Lines(k, b)[l] = [second |-> l - 1, count |-> C(k, first + l - 1)]
      BY <1>8, <2>1, <2>2, <3>2
    <3>. QED  BY <3>1, <3>3
  <2>. HIDE DEF a, b, s, r
  <2>6. CASE a = b
    <3>1. Event(r[k - 1], b) = [second |-> a, count |-> C(k - 1, a) + 1, lines |-> s]
      BY <2>3, <2>6
    <3>2. \A l \in 1 .. Len(s) : s[l] = Lines(k, b)[l]
      <4>. SUFFICES ASSUME NEW l \in 1 .. a - first PROVE s[l] = Lines(k, b)[l]
        BY <2>5
      <4>1. first + l - 1 \in Nat /\ first + l - 1 # b
        BY <1>5, <2>2, <2>6
      <4>2. C(k, first + l - 1) = C(k - 1, first + l - 1)
        BY <2>4, <4>1
      <4>. QED  BY <2>5, <2>6, <4>2
    <3>3. s = Lines(k, b)
      <4>1. Len(s) = Len(Lines(k, b))
        BY <2>5, <2>6
      <4>. QED  BY <2>5, <3>2, <4>1, SameLines
    <3>. QED  BY <2>3, <2>4, <2>6, <3>1, <3>3 DEF b
  <2>7. CASE a # b
    <3>. DEFINE z == Append(s, e) \o u
    <3>1. Event(r[k - 1], b) = [second |-> b, count |-> 1, lines |-> z]
      BY <2>3, <2>7
    <3>2. e \in T /\ e = [second |-> a - first, count |-> C(k - 1, a)]
      <4>1. C(k - 1, a) \in Nat
        BY <2>2, <2>4
      <4>2. e = [second |-> a - first, count |-> C(k - 1, a)]
        BY <1>7, <2>2, <4>1
      <4>3. a - first \in Int
        BY <1>5, <2>2
      <4>. QED  BY <4>1, <4>2, <4>3 DEF T
    <3>3. /\ u \in Seq(T) /\ Len(u) = b - a - 1
          /\ \A j \in 1 .. b - a - 1 : u[j] = [second |-> (a + j) - first, count |-> 0]
      <4>1. \A j \in 1 .. b - a - 1 :
                /\ Line(a + j, 0) = [second |-> (a + j) - first, count |-> 0]
                /\ Line(a + j, 0) \in T
        <5>. SUFFICES ASSUME NEW j \in 1 .. b - a - 1
                      PROVE  /\ Line(a + j, 0) = [second |-> (a + j) - first, count |-> 0]
                             /\ Line(a + j, 0) \in T
          OBVIOUS
        <5>1. a + j \in Nat /\ first <= a + j /\ a + j < Word /\ (a + j) - first \in Int
          BY <1>1, <1>5, <2>2
        <5>2. Line(a + j, 0) = [second |-> (a + j) - first, count |-> 0]
          BY <1>7, <5>1
        <5>. QED  BY <5>1, <5>2 DEF T
      <4>2. b - a - 1 \in Nat
        BY <2>2, <2>7
      <4>. DEFINE m == b - a - 1
      <4>3. m \in Nat /\ u = [j \in 1 .. m |-> Line(a + j, 0)]
        BY <4>2
      <4>4. \A j \in 1 .. m : Line(a + j, 0) \in T
        BY <4>1
      <4>. HIDE DEF m, u
      <4>5. u \in Seq(T) /\ Len(u) = m /\ \A j \in 1 .. m : u[j] = Line(a + j, 0)
        BY <4>3, <4>4
      <4>. QED  BY <4>1, <4>5 DEF m
    <3>. HIDE DEF e, u
    <3>4. /\ z \in Seq(T) /\ Len(z) = Len(s) + 1 + Len(u)
          /\ \A i \in 1 .. Len(s) : z[i] = s[i]
          /\ z[Len(s) + 1] = e
          /\ \A i \in 1 .. Len(u) : z[Len(s) + 1 + i] = u[i]
      <4>1. s \in Seq(T) /\ e \in T /\ u \in Seq(T)
        BY <2>5, <3>2, <3>3
      <4>. QED  BY <4>1, Joining
    <3>. HIDE DEF z
    <3>5. Len(z) = b - first
      <4>. DEFINE x == Len(s)
                  y == Len(u)
      <4>1. Len(z) = x + 1 + y /\ x = a - first /\ y = b - a - 1
        BY <2>5, <3>3, <3>4
      <4>. HIDE DEF x, y
      <4>. QED  BY <1>5, <2>2, <4>1
    <3>6. \A l \in 1 .. Len(z) : z[l] = Lines(k, b)[l]
      <4>. SUFFICES ASSUME NEW l \in 1 .. b - first
                    PROVE  z[l] = [second |-> l - 1, count |-> C(k, first + l - 1)]
        BY <2>5, <3>5
      <4>1. first + l - 1 \in Nat /\ first + l - 1 # b
        BY <1>5, <2>2
      <4>2. C(k, first + l - 1) = C(k - 1, first + l - 1)
        BY <2>4, <4>1
      <4>3. CASE l <= a - first
        <5>1. l \in 1 .. a - first
          BY <1>5, <2>2, <4>3
        <5>2. z[l] = s[l]
          BY <2>5, <3>4, <5>1
        <5>. QED  BY <2>5, <4>2, <5>1, <5>2
      <4>4. CASE l = a - first + 1
        <5>1. z[l] = e
          BY <2>5, <3>4, <4>4
        <5>2. first + l - 1 = a /\ l - 1 = a - first
          BY <1>5, <2>2, <4>4
        <5>. QED  BY <3>2, <4>2, <5>1, <5>2
      <4>5. CASE l > a - first + 1
        <5>. DEFINE j == l - (a - first + 1)
        <5>1. j \in 1 .. b - a - 1 /\ l = Len(s) + 1 + j
          BY <1>5, <2>2, <2>5, <4>5
        <5>2. (a + j) - first = l - 1 /\ first + l - 1 > a
          BY <1>5, <2>2, <4>5
        <5>. HIDE DEF j
        <5>3. z[l] = u[j]
          BY <3>3, <3>4, <5>1
        <5>4. z[l] = [second |-> l - 1, count |-> 0]
          BY <3>3, <5>1, <5>2, <5>3
        <5>5. C(k - 1, first + l - 1) = 0
          BY <1>9, <4>1, <5>2 DEF a
        <5>. QED  BY <4>2, <5>4, <5>5
      <4>. QED  BY <4>3, <4>4, <4>5, <1>5, <2>2
    <3>7. z = Lines(k, b)
      BY <2>5, <3>4, <3>5, <3>6, SameLines
    <3>8. C(k, b) = 1
      <4>1. b > a
        BY <2>2, <2>7
      <4>2. C(k - 1, b) = 0
        BY <1>9, <2>2, <4>1 DEF a
      <4>. QED  BY <2>4, <4>2
    <3>. QED  BY <2>3, <3>1, <3>7, <3>8 DEF b
  <2>. QED  BY <2>6, <2>7
<1>11. r[0] = base
  <2>1. Lines(0, first) = <<>>
    BY <1>5 DEF Lines
  <2>. QED  BY <1>1, <1>6, <2>1 DEF Cur
<1>. HIDE DEF Event, base
<1>12. f = [k \in 0 .. n |-> IF k = 0 THEN base ELSE Event(f[k - 1], seconds[k])]
  <2>1. r = [k \in 0 .. n |-> IF k = 0 THEN base ELSE Event(r[k - 1], seconds[k])]
    <3>1. \A k \in 0 .. n : r[k] = IF k = 0 THEN base ELSE Event(r[k - 1], seconds[k])
      <4>. SUFFICES ASSUME NEW k \in 0 .. n
                    PROVE  r[k] = IF k = 0 THEN base ELSE Event(r[k - 1], seconds[k])
        OBVIOUS
      <4>. HIDE DEF r
      <4>1. CASE k = 0
        BY <1>11, <4>1
      <4>2. CASE k # 0
        <5>1. k \in 1 .. n
          BY <1>1, <4>2
        <5>. QED  BY <1>10, <4>2, <5>1
      <4>. QED  BY <4>1, <4>2
    <3>2. r = [k \in 0 .. n |-> r[k]]
      OBVIOUS
    <3>. HIDE DEF r
    <3>. QED  BY <3>1, <3>2
  <2>. HIDE DEF r
  <2>. QED  BY <2>1 DEF f
<1>13. f[n] = r[n]
  <2>. DEFINE G == {k \in 0 .. n : f[k] = r[k]}
  <2>1. 0 \in G
    <3>1. f[0] = base
      BY <1>1, <1>12
    <3>. HIDE DEF r
    <3>. QED  BY <1>1, <1>11, <3>1
  <2>2. ASSUME NEW k \in 0 .. n - 1, k \in G PROVE k + 1 \in G
    <3>. HIDE DEF r
    <3>1. k + 1 \in 1 .. n /\ (k + 1) - 1 = k /\ f[k] = r[k]
      BY <1>1, <2>2
    <3>2. f[k + 1] = Event(f[(k + 1) - 1], seconds[k + 1])
      <4>1. \A i \in 0 .. n : f[i] = IF i = 0 THEN base ELSE Event(f[i - 1], seconds[i])
        BY <1>12
      <4>2. k + 1 \in 0 .. n /\ k + 1 # 0
        BY <1>1, <3>1
      <4>. QED  BY <4>1, <4>2
    <3>3. r[k + 1] = Event(r[(k + 1) - 1], seconds[k + 1])
      BY <1>10, <3>1
    <3>4. k + 1 \in 0 .. n
      BY <3>1
    <3>. QED  BY <3>1, <3>2, <3>3, <3>4
  <2>3. \A k \in 0 .. n : k \in G
    <3>. HIDE DEF G
    <3>. QED  BY <1>1, <2>1, <2>2, Induct
  <2>. QED  BY <1>1, <2>3
<1>14. r[n] = [second |-> last, count |-> C(n, last), lines |-> Lines(n, last)]
  BY <1>1 DEF Cur, last
<1>. HIDE DEF r
<1>15. EventsPerSecond(seconds) = Append(Lines(n, last), [second |-> last - first, count |-> C(n, last)])
  <2>1. Line(last, C(n, last)) = [second |-> last - first, count |-> C(n, last)]
    BY <1>1, <1>5, <1>6, <1>7
  <2>. QED  BY <1>2, <1>13, <1>14, <2>1
<1>16. /\ Lines(n, last) \in Seq(T) /\ Len(Lines(n, last)) = last - first
       /\ \A l \in 1 .. last - first :
             Lines(n, last)[l] = [second |-> l - 1, count |-> C(n, first + l - 1)]
  <2>1. n \in 0 .. n
    BY <1>1
  <2>. QED  BY <1>5, <1>8, <2>1
<1>. DEFINE whole == [k \in 1 .. last - first + 1 |-> [second |-> k - 1, count |-> C(n, first + k - 1)]]
            report == Append(Lines(n, last), [second |-> last - first, count |-> C(n, last)])
<1>17. report = whole
  <2>1. [second |-> last - first, count |-> C(n, last)] \in T
    <3>1. C(n, last) \in Nat /\ last - first \in Int
      <4>1. n \in Nat /\ last \in Nat /\ first \in Nat
        BY <1>1, <1>5
      <4>2. C(n, last) \in Nat
        BY <1>6, <4>1
      <4>. QED  BY <4>1, <4>2
    <3>. QED  BY <3>1 DEF T
  <2>2. /\ report \in Seq(T) /\ Len(report) = last - first + 1
        /\ \A l \in 1 .. last - first : report[l] = Lines(n, last)[l]
        /\ report[last - first + 1] = [second |-> last - first, count |-> C(n, last)]
    <3>. DEFINE s == Lines(n, last)
                e == [second |-> last - first, count |-> C(n, last)]
    <3>1. s \in Seq(T) /\ e \in T /\ Len(s) = last - first /\ report = Append(s, e)
      BY <1>16, <2>1
    <3>. HIDE DEF s, e, report
    <3>2. /\ Append(s, e) \in Seq(T) /\ Len(Append(s, e)) = Len(s) + 1
          /\ \A i \in 1 .. Len(s) : Append(s, e)[i] = s[i]
          /\ Append(s, e)[Len(s) + 1] = e
      BY <3>1
    <3>. QED  BY <3>1, <3>2 DEF s, e
  <2>. HIDE DEF report
  <2>3. ASSUME NEW l \in 1 .. last - first + 1
        PROVE  report[l] = [second |-> l - 1, count |-> C(n, first + l - 1)]
    <3>1. CASE l = last - first + 1
      <4>1. l - 1 = last - first /\ first + l - 1 = last
        BY <1>5, <3>1
      <4>. QED  BY <2>2, <3>1, <4>1
    <3>2. CASE l # last - first + 1
      <4>1. l \in 1 .. last - first
        BY <1>5, <3>2
      <4>. QED  BY <1>16, <2>2, <4>1
    <3>. QED  BY <3>1, <3>2
  <2>4. report = [l \in 1 .. last - first + 1 |-> report[l]]
    <3>1. report = [l \in 1 .. Len(report) |-> report[l]]
      BY <2>2
    <3>. QED  BY <2>2, <3>1
  <2>. QED  BY <2>3, <2>4
<1>18. \A v : Cardinality({i \in DOMAIN seconds : seconds[i] = v}) = C(n, v)
  BY <1>1 DEF C, HowMany
<1>. QED  BY <1>15, <1>17, <1>18

(* What is at a place is a latency, fewer than that many are shorter, and  *)
(* as many are no longer.                                                  *)
LEMMA PlacesAreRanks ==
    ASSUME NEW latencies \in Seq(Int), NEW place \in 1 .. Len(latencies)
    PROVE  LET n == Len(latencies)
               x == InOrder(latencies)[place]
               Shorter == {i \in 1 .. n : latencies[i] < x}
               NoLonger == {i \in 1 .. n : latencies[i] <= x}
           IN  /\ \E i \in 1 .. n : latencies[i] = x
               /\ Cardinality(Shorter) \in Nat /\ Cardinality(Shorter) < place
               /\ Cardinality(NoLonger) \in Nat /\ Cardinality(NoLonger) >= place
<1>. DEFINE n == Len(latencies)
            D == 1 .. n
            B(i) == {k \in D : latencies[k] < latencies[i] \/ (latencies[k] = latencies[i] /\ k <= i)}
            rank == [i \in D |-> Cardinality(B(i))]
<1>1. n \in Nat /\ DOMAIN latencies = D /\ \A i \in D : latencies[i] \in Int
  OBVIOUS
<1>2. IsFiniteSet(D) /\ Cardinality(D) = n
  <2>. HIDE DEF n
  <2>1. 1 \in Int /\ n \in Int
    BY <1>1
  <2>2. IsFiniteSet(1 .. n) /\ Cardinality(1 .. n) = IF 1 > n THEN 0 ELSE n - 1 + 1
    BY <2>1, FS_Interval
  <2>. QED  BY <1>1, <2>2
<1>3. \A i \in D : Rank(latencies, i) = Cardinality(B(i))
  <2>. SUFFICES ASSUME NEW i \in D PROVE Rank(latencies, i) = Cardinality(B(i))
    OBVIOUS
  <2>1. {k \in DOMAIN latencies : \/ latencies[k] < latencies[i]
                                  \/ latencies[k] = latencies[i] /\ k <= i} = B(i)
    BY <1>1
  <2>. QED  BY <2>1 DEF Rank
<1>4. ASSUME NEW i \in D PROVE IsFiniteSet(B(i)) /\ Cardinality(B(i)) \in D
  <2>1. B(i) \subseteq D /\ i \in B(i)
    BY <1>1
  <2>. HIDE DEF B, D
  <2>2. IsFiniteSet(B(i)) /\ Cardinality(B(i)) <= n /\ Cardinality(B(i)) \in Nat
    BY <1>2, <2>1, FS_Subset, FS_CardinalityType
  <2>3. Cardinality(B(i)) # 0
    BY <2>1, <2>2, FS_EmptySet
  <2>. QED  BY <1>1, <2>2, <2>3 DEF D
<1>5. ASSUME NEW i \in D, NEW k \in D, k \in B(i), k # i
      PROVE  Cardinality(B(k)) < Cardinality(B(i))
  <2>1. latencies[i] \in Int /\ latencies[k] \in Int
    BY <1>1
  <2>2. B(k) \subseteq B(i)
    <3>. SUFFICES ASSUME NEW j \in B(k) PROVE j \in B(i)
      OBVIOUS
    <3>1. latencies[j] \in Int /\ j \in D
      BY <1>1
    <3>. QED  BY <1>5, <2>1, <3>1
  <2>3. i \in B(i) /\ i \notin B(k)
    BY <1>5, <2>1
  <2>4. IsFiniteSet(B(i)) /\ Cardinality(B(i)) \in Nat /\ Cardinality(B(k)) \in Nat
    <3>1. D \subseteq Nat
      BY <1>1
    <3>. HIDE DEF B, D
    <3>. QED  BY <1>4, <3>1
  <2>. HIDE DEF B
  <2>5. Cardinality(B(k)) <= Cardinality(B(i)) /\ Cardinality(B(k)) # Cardinality(B(i))
    BY <2>2, <2>3, <2>4, FS_Subset
  <2>. QED  BY <2>4, <2>5
<1>6. ASSUME NEW i \in D, NEW k \in D, i # k PROVE k \in B(i) \/ i \in B(k)
  <2>1. latencies[i] \in Int /\ latencies[k] \in Int
    BY <1>1
  <2>2. \/ latencies[k] < latencies[i] \/ (latencies[k] = latencies[i] /\ k <= i)
        \/ latencies[i] < latencies[k] \/ (latencies[i] = latencies[k] /\ i <= k)
    BY <2>1
  <2>. QED  BY <2>2
<1>7. rank \in [D -> D]
  BY <1>4
<1>8. \A i \in D : rank[i] = Cardinality(B(i))
  OBVIOUS
<1>. HIDE DEF B, D, rank
<1>9. \A i, k \in D : rank[i] = rank[k] => i = k
  <2>. SUFFICES ASSUME NEW i \in D, NEW k \in D, i # k PROVE rank[i] # rank[k]
    OBVIOUS
  <2>1. Cardinality(B(i)) \in Nat /\ Cardinality(B(k)) \in Nat
    <3>1. D \subseteq Nat
      BY <1>1 DEF D
    <3>. QED  BY <1>4, <3>1
  <2>. QED  BY <1>5, <1>6, <1>8, <2>1
<1>10. rank \in Surjection(D, D)
  <2>1. rank \in Injection(D, D)
    BY <1>7, <1>9 DEF Injection, IsInjective
  <2>. QED  BY <1>2, <2>1, FS_Injection
<1>. DEFINE i == CHOOSE i \in D : Rank(latencies, i) = place
            x == latencies[i]
            Shorter == {k \in 1 .. n : latencies[k] < x}
            NoLonger == {k \in 1 .. n : latencies[k] <= x}
<1>11. i \in D /\ Cardinality(B(i)) = place
  <2>1. place \in D
    BY DEF D
  <2>2. \E k \in D : rank[k] = place
    BY <1>10, <2>1 DEF Surjection
  <2>3. \E k \in D : Rank(latencies, k) = place
    BY <1>3, <1>8, <2>2
  <2>4. i \in D /\ Rank(latencies, i) = place
    BY <2>3
  <2>. HIDE DEF i
  <2>. QED  BY <1>3, <2>4
<1>12. InOrder(latencies)[place] = x
  BY <1>1 DEF InOrder
<1>. HIDE DEF i
<1>13. B(i) \subseteq NoLonger /\ Shorter \subseteq B(i) \ {i} /\ NoLonger \subseteq D /\ i \in B(i)
  <2>1. x \in Int /\ \A k \in D : latencies[k] \in Int
    BY <1>1, <1>11
  <2>2. \A k \in B(i) : k \in D /\ latencies[k] <= x
    BY <2>1 DEF B
  <2>3. \A k \in D : latencies[k] < x => k \in B(i) /\ k # i
    BY <2>1 DEF B
  <2>4. i \in B(i)
    BY <1>11 DEF B, D
  <2>. HIDE DEF x
  <2>. QED  BY <2>2, <2>3, <2>4 DEF D
<1>. HIDE DEF x, Shorter, NoLonger, n
<1>14. IsFiniteSet(B(i)) /\ IsFiniteSet(NoLonger)
  BY <1>2, <1>4, <1>11, <1>13, FS_Subset
<1>15. /\ Cardinality(B(i)) <= Cardinality(NoLonger) /\ Cardinality(NoLonger) \in Nat
  BY <1>13, <1>14, FS_Subset, FS_CardinalityType
<1>16. /\ IsFiniteSet(B(i) \ {i}) /\ Cardinality(B(i) \ {i}) = place - 1
  BY <1>11, <1>13, <1>14, FS_RemoveElement
<1>17. Cardinality(Shorter) <= place - 1 /\ Cardinality(Shorter) \in Nat
  BY <1>13, <1>16, FS_Subset, FS_CardinalityType
<1>18. place \in Int
  OBVIOUS
<1>19. Cardinality(Shorter) < place /\ Cardinality(NoLonger) >= place
  BY <1>11, <1>15, <1>17, <1>18
<1>20. i \in 1 .. n /\ latencies[i] = x
  BY <1>11 DEF D, x
<1>. QED  BY <1>12, <1>15, <1>17, <1>19, <1>20 DEF Shorter, NoLonger, n

(* The percentiles of print_stats are right, of any number of latencies.   *)
THEOREM PercentilesAreRight ==
    ASSUME NEW latencies \in Seq(Int)
    PROVE  RanksAreRight(latencies)
<1>. DEFINE n == Len(latencies)
            copy == InOrder(latencies)
            Place(percent) == ((percent * (n - 1)) \div 100) + 1
            Shorter(x) == Cardinality({i \in 1 .. n : latencies[i] < x})
            NoLonger(x) == Cardinality({i \in 1 .. n : latencies[i] <= x})
            Share(x, percent) ==
                /\ \E i \in 1 .. n : latencies[i] = x
                /\ 100 * Shorter(x) <= percent * n
                /\ 100 * NoLonger(x) >= percent * (n - 1)
<1>. SUFFICES ASSUME n > 0
              PROVE  /\ Share(Stats(latencies).min, 0) /\ Share(Stats(latencies).max, 100)
                     /\ Share(Stats(latencies).p50, 50) /\ Share(Stats(latencies).p95, 95)
                     /\ Share(Stats(latencies).p99, 99)
  BY DEF RanksAreRight
<1>1. n \in Nat \ {0}
  OBVIOUS
<1>2. /\ Stats(latencies).min = copy[1] /\ Stats(latencies).max = copy[n]
      /\ Stats(latencies).p50 = copy[Place(50)] /\ Stats(latencies).p95 = copy[Place(95)]
      /\ Stats(latencies).p99 = copy[Place(99)]
  BY <1>1 DEF Stats
<1>3. ASSUME NEW place \in 1 .. n
      PROVE  /\ \E i \in 1 .. n : latencies[i] = copy[place]
             /\ Shorter(copy[place]) \in Nat /\ Shorter(copy[place]) < place
             /\ NoLonger(copy[place]) \in Nat /\ NoLonger(copy[place]) >= place
  BY PlacesAreRanks
<1>. HIDE DEF n, copy, Shorter, NoLonger
<1>4. ASSUME NEW place \in 1 .. n, NEW percent \in 0 .. 100,
             100 * (place - 1) <= percent * n, 100 * place >= percent * (n - 1)
      PROVE  Share(copy[place], percent)
  <2>. DEFINE p == percent * n
              q == percent * (n - 1)
              u == Shorter(copy[place])
              v == NoLonger(copy[place])
  <2>1. p \in Int /\ q \in Int /\ place \in Int
    BY <1>1
  <2>2. u \in Nat /\ v \in Nat /\ u < place /\ v >= place
    BY <1>3
  <2>3. 100 * (place - 1) <= p /\ 100 * place >= q
    BY <1>4
  <2>. HIDE DEF p, q, u, v
  <2>4. 100 * u <= p /\ 100 * v >= q
    BY <2>1, <2>2, <2>3
  <2>. QED  BY <1>3, <2>4 DEF p, q, u, v
<1>5. Share(copy[1], 0) /\ Share(copy[n], 100)
  <2>1. 1 \in 1 .. n /\ n \in 1 .. n /\ 0 \in 0 .. 100 /\ 100 \in 0 .. 100
    BY <1>1
  <2>2. 100 * (1 - 1) <= 0 * n /\ 100 * 1 >= 0 * (n - 1)
    BY <1>1
  <2>3. 100 * (n - 1) <= 100 * n /\ 100 * n >= 100 * (n - 1)
    BY <1>1
  <2>. QED  BY <1>4, <2>1, <2>2, <2>3
<1>6. ASSUME NEW percent \in {50, 95, 99} PROVE Share(copy[Place(percent)], percent)
  <2>1. CASE percent = 50
    <3>1. /\ Place(50) \in 1 .. n /\ 50 \in 0 .. 100
          /\ 100 * (Place(50) - 1) <= 50 * n /\ 100 * Place(50) >= 50 * (n - 1)
      BY <1>1
    <3>. HIDE DEF Place
    <3>. QED  BY <1>4, <2>1, <3>1
  <2>2. CASE percent = 95
    <3>1. /\ Place(95) \in 1 .. n /\ 95 \in 0 .. 100
          /\ 100 * (Place(95) - 1) <= 95 * n /\ 100 * Place(95) >= 95 * (n - 1)
      BY <1>1
    <3>. HIDE DEF Place
    <3>. QED  BY <1>4, <2>2, <3>1
  <2>3. CASE percent = 99
    <3>1. /\ Place(99) \in 1 .. n /\ 99 \in 0 .. 100
          /\ 100 * (Place(99) - 1) <= 99 * n /\ 100 * Place(99) >= 99 * (n - 1)
      BY <1>1
    <3>. HIDE DEF Place
    <3>. QED  BY <1>4, <2>3, <3>1
  <2>. QED  BY <2>1, <2>2, <2>3
<1>. HIDE DEF Place, Share
<1>. QED  BY <1>2, <1>5, <1>6

-----------------------------------------------------------------------------
(* The catalogue. *)

(* The names of the products, and the categories with an ad. *)
LEMMA TheProducts ==
    /\ DOMAIN Products = 1 .. 9 /\ Len(Products) = 9 /\ Products \in Seq({Products[k] : k \in 1 .. 9})
    /\ Products[1].id = "Sunglasses" /\ Products[2].id = "Tank Top" /\ Products[3].id = "Watch"
    /\ Products[4].id = "Loafers" /\ Products[5].id = "Hairdryer"
    /\ Products[6].id = "Candle Holder" /\ Products[7].id = "Shakers"
    /\ Products[8].id = "Bamboo Glass Jar" /\ Products[9].id = "Mug"
    /\ "clothing" \in Products[2].categories /\ "accessories" \in Products[3].categories
    /\ "footwear" \in Products[4].categories /\ "hair" \in Products[5].categories
    /\ "decor" \in Products[6].categories /\ "kitchen" \in Products[9].categories
<1>1. DOMAIN Products = 1 .. 9 /\ Len(Products) = 9
  BY DEF Products
<1>2. Products \in Seq({Products[k] : k \in 1 .. 9})
  <2>1. Products = [k \in 1 .. 9 |-> Products[k]]
    BY DEF Products
  <2>. QED  BY <2>1
<1>3. /\ Products[1].id = "Sunglasses" /\ Products[2].id = "Tank Top" /\ Products[3].id = "Watch"
      /\ Products[4].id = "Loafers" /\ Products[5].id = "Hairdryer"
      /\ Products[6].id = "Candle Holder" /\ Products[7].id = "Shakers"
      /\ Products[8].id = "Bamboo Glass Jar" /\ Products[9].id = "Mug"
  BY DEF Products, Product
<1>4. /\ "clothing" \in Products[2].categories /\ "accessories" \in Products[3].categories
      /\ "footwear" \in Products[4].categories /\ "hair" \in Products[5].categories
      /\ "decor" \in Products[6].categories /\ "kitchen" \in Products[9].categories
  BY DEF Products, Product
<1>. QED  BY <1>1, <1>2, <1>3, <1>4

(* No two products have the same name.                                     *)
LEMMA NamesAreUnique ==
    \A k, l \in 1 .. 9 : Products[k].id = Products[l].id => k = l
<1>. DEFINE Place(id) ==
                CASE id = "Sunglasses"       -> 1
                  [] id = "Tank Top"         -> 2
                  [] id = "Watch"            -> 3
                  [] id = "Loafers"          -> 4
                  [] id = "Hairdryer"        -> 5
                  [] id = "Candle Holder"    -> 6
                  [] id = "Shakers"          -> 7
                  [] id = "Bamboo Glass Jar" -> 8
                  [] id = "Mug"              -> 9
<1>1. /\ Place("Sunglasses") = 1 /\ Place("Tank Top") = 2 /\ Place("Watch") = 3
      /\ Place("Loafers") = 4 /\ Place("Hairdryer") = 5 /\ Place("Candle Holder") = 6
      /\ Place("Shakers") = 7 /\ Place("Bamboo Glass Jar") = 8 /\ Place("Mug") = 9
  OBVIOUS
<1>. HIDE DEF Place
<1>2. ASSUME NEW k \in 1 .. 9 PROVE Place(Products[k].id) = k
  <2>1. k = 1 \/ k = 2 \/ k = 3 \/ k = 4 \/ k = 5 \/ k = 6 \/ k = 7 \/ k = 8 \/ k = 9
    OBVIOUS
  <2>. QED  BY <1>1, <2>1, TheProducts
<1>. QED  BY <1>2

(* GetProduct finds each product by its name. *)
LEMMA Gotten ==
    ASSUME NEW k \in 1 .. 9, NEW response
    PROVE  GetProduct(Products[k].id, response) = Products[k]
<1>. DEFINE i == CHOOSE i \in DOMAIN Products : Products[i].id = Products[k].id
<1>1. DOMAIN Products = 1 .. 9
  BY TheProducts
<1>2. i \in 1 .. 9 /\ Products[i].id = Products[k].id
  BY <1>1
<1>3. i = k
  <2>. HIDE DEF i
  <2>. QED  BY <1>2, NamesAreUnique
<1>4. GetProduct(Products[k].id, response) = Products[i]
  BY <1>1 DEF GetProduct
<1>. QED  BY <1>3, <1>4

(* The three tables agree.                                                 *)
THEOREM TablesDoMatch == TablesMatch
<1>. DEFINE None == Product("", 0, 0, {}, {})
            Known(id) == GetProduct(id, None) # None
<1>1. None.id = ""
  BY DEF Product
<1>2. ASSUME NEW k \in 1 .. 9 PROVE Known(Products[k].id)
  <2>1. Products[k].id # ""
    <3>1. k = 1 \/ k = 2 \/ k = 3 \/ k = 4 \/ k = 5 \/ k = 6 \/ k = 7 \/ k = 8 \/ k = 9
      OBVIOUS
    <3>. QED  BY <3>1, TheProducts
  <2>2. GetProduct(Products[k].id, None) = Products[k]
    BY Gotten
  <2>. HIDE DEF None
  <2>. QED  BY <1>1, <2>1, <2>2
<1>3. \A i \in DOMAIN ListProducts : GetProduct(ListProducts[i].id, None) = ListProducts[i]
  BY Gotten, TheProducts DEF ListProducts
<1>. HIDE DEF Known
<1>4. \A i \in DOMAIN Recommendable : Known(Recommendable[i])
  <2>1. DOMAIN Recommendable = 1 .. 9
    BY DEF Recommendable
  <2>. SUFFICES ASSUME NEW i \in 1 .. 9 PROVE Recommendable[i] = Products[i].id
    BY <1>2, <2>1
  <2>2. i = 1 \/ i = 2 \/ i = 3 \/ i = 4 \/ i = 5 \/ i = 6 \/ i = 7 \/ i = 8 \/ i = 9
    OBVIOUS
  <2>3. /\ Recommendable[1] = "Sunglasses" /\ Recommendable[2] = "Tank Top"
        /\ Recommendable[3] = "Watch" /\ Recommendable[4] = "Loafers"
        /\ Recommendable[5] = "Hairdryer" /\ Recommendable[6] = "Candle Holder"
        /\ Recommendable[7] = "Shakers" /\ Recommendable[8] = "Bamboo Glass Jar"
        /\ Recommendable[9] = "Mug"
    BY DEF Recommendable
  <2>. QED  BY <2>2, <2>3, TheProducts
<1>5. ASSUME NEW i \in DOMAIN AdNames
      PROVE  \E k \in 1 .. 9 : /\ AdByCategory(AdNames[i]) = Products[k].id
                               /\ AdNames[i] \in Products[k].categories
  <2>1. i = 1 \/ i = 2 \/ i = 3 \/ i = 4 \/ i = 5 \/ i = 6
    BY DEF AdNames
  <2>2. /\ AdNames[1] = "clothing" /\ AdNames[2] = "accessories" /\ AdNames[3] = "footwear"
        /\ AdNames[4] = "hair" /\ AdNames[5] = "decor" /\ AdNames[6] = "kitchen"
    BY DEF AdNames
  <2>3. /\ AdByCategory("clothing") = "Tank Top" /\ AdByCategory("accessories") = "Watch"
        /\ AdByCategory("footwear") = "Loafers" /\ AdByCategory("hair") = "Hairdryer"
        /\ AdByCategory("decor") = "Candle Holder" /\ AdByCategory("kitchen") = "Mug"
    BY DEF AdByCategory
  <2>4. 2 \in 1 .. 9 /\ 3 \in 1 .. 9 /\ 4 \in 1 .. 9 /\ 5 \in 1 .. 9 /\ 6 \in 1 .. 9 /\ 9 \in 1 .. 9
    OBVIOUS
  <2>5. CASE i = 1
    BY <2>2, <2>3, <2>4, <2>5, TheProducts
  <2>6. CASE i = 2
    BY <2>2, <2>3, <2>4, <2>6, TheProducts
  <2>7. CASE i = 3
    BY <2>2, <2>3, <2>4, <2>7, TheProducts
  <2>8. CASE i = 4
    BY <2>2, <2>3, <2>4, <2>8, TheProducts
  <2>9. CASE i = 5
    BY <2>2, <2>3, <2>4, <2>9, TheProducts
  <2>10. CASE i = 6
    BY <2>2, <2>3, <2>4, <2>10, TheProducts
  <2>. QED  BY <2>1, <2>5, <2>6, <2>7, <2>8, <2>9, <2>10
<1>6. ASSUME NEW ads \in GetAds(<<>>) PROVE Len(ads) = 1 /\ Known(ads[1])
  <2>1. PICK ad \in RandomAds : ads = <<ad>>
    BY DEF GetAds
  <2>2. PICK i \in DOMAIN AdNames : ad = AdByCategory(AdNames[i])
    BY DEF RandomAds
  <2>3. Known(ad)
    BY <1>2, <1>5, <2>2
  <2>. QED  BY <2>1, <2>3
<1>7. ASSUME NEW i \in DOMAIN AdNames, NEW j \in DOMAIN AdNames,
             NEW ads \in GetAds(<<AdNames[i], AdNames[j]>>)
      PROVE  /\ AdNames[i] \in GetProduct(ads[1], None).categories
             /\ AdNames[j] \in GetProduct(ads[2], None).categories
  <2>. DEFINE keys == <<AdNames[i], AdNames[j]>>
  <2>1. /\ keys # <<>> /\ DOMAIN keys = 1 .. 2 /\ keys[1] = AdNames[i] /\ keys[2] = AdNames[j]
    OBVIOUS
  <2>2. ads = [x \in DOMAIN keys |-> AdByCategory(keys[x])]
    <3>1. ads \in GetAds(keys)
      OBVIOUS
    <3>. HIDE DEF keys
    <3>. QED  BY <2>1, <3>1 DEF GetAds
  <2>. HIDE DEF keys, None
  <2>3. ads[1] = AdByCategory(AdNames[i]) /\ ads[2] = AdByCategory(AdNames[j])
    BY <2>1, <2>2
  <2>. QED  BY <1>5, <2>3, Gotten
<1>. QED  BY <1>3, <1>4, <1>6, <1>7 DEF TablesMatch, Known

(* A search finds what it is to find, whatever word is asked for.          *)
THEOREM SearchesFind ==
    ASSUME NEW query
    PROVE  SearchFinds(query)
<1>. DEFINE T == {Products[k] : k \in 1 .. 9}
            Has(p) == query \in p.words
            f == CHOOSE f : f = [k \in 0 .. Len(Products) |->
                    IF k = 0 THEN <<>>
                    ELSE IF query \in Products[k].words THEN Append(f[k - 1], Products[k])
                    ELSE f[k - 1]]
            step == [k \in 1 .. 9 |-> [s \in Seq(T) |->
                        IF Has(Products[k]) THEN Append(s, Products[k]) ELSE s]]
<1>1. Len(Products) = 9 /\ DOMAIN Products = 1 .. 9 /\ \A k \in 1 .. 9 : Products[k] \in T
  BY TheProducts
<1>2. SearchProducts(query) = f[9]
  BY <1>1 DEF SearchProducts
<1>3. step \in [1 .. 9 -> [Seq(T) -> Seq(T)]] /\ <<>> \in Seq(T)
  BY <1>1
<1>4. \A k \in 1 .. 9, s \in Seq(T) :
         step[k][s] = IF Has(Products[k]) THEN Append(s, Products[k]) ELSE s
  OBVIOUS
<1>5. f = [k \in 0 .. 9 |-> IF k = 0 THEN <<>>
                            ELSE IF Has(Products[k]) THEN Append(f[k - 1], Products[k])
                            ELSE f[k - 1]]
  <2>. HIDE DEF step, T, f
  <2>1. PICK r \in [0 .. 9 -> Seq(T)] : r[0] = <<>> /\ \A k \in 1 .. 9 : r[k] = step[k][r[k - 1]]
    <3>1. Recursive(9, Seq(T), <<>>, step)
      <4>. DEFINE n == 9
                  S == Seq(T)
                  base == <<>>
      <4>1. n \in Nat /\ base \in S /\ step \in [1 .. n -> [S -> S]]
        BY <1>3
      <4>. HIDE DEF n, S, base
      <4>2. Recursive(n, S, base, step)
        BY <4>1, Recursion
      <4>. QED  BY <4>2 DEF n, S, base
    <3>. QED  BY <3>1 DEF Recursive
  <2>4. ASSUME NEW k \in 1 .. 9
        PROVE  r[k] = IF Has(Products[k]) THEN Append(r[k - 1], Products[k]) ELSE r[k - 1]
    <3>1. r[k - 1] \in Seq(T)
      <4>1. k - 1 \in 0 .. 9
        OBVIOUS
      <4>. DEFINE S == Seq(T)
      <4>2. r \in [0 .. 9 -> S]
        BY <2>1
      <4>. HIDE DEF S
      <4>3. r[k - 1] \in S
        BY <4>1, <4>2
      <4>. QED  BY <4>3 DEF S
    <3>2. r[k] = step[k][r[k - 1]]
      BY <2>1
    <3>. HIDE DEF Has
    <3>. QED  BY <1>4, <3>1, <3>2
  <2>2. \A k \in 0 .. 9 : r[k] = IF k = 0 THEN <<>>
                                 ELSE IF Has(Products[k]) THEN Append(r[k - 1], Products[k])
                                 ELSE r[k - 1]
    <3>. HIDE DEF Has
    <3>1. r[0] = <<>>
      BY <2>1
    <3>2. \A k \in 0 .. 9 : k = 0 \/ k \in 1 .. 9
      OBVIOUS
    <3>. QED  BY <2>4, <3>1, <3>2
  <2>3. r = [k \in 0 .. 9 |-> IF k = 0 THEN <<>>
                              ELSE IF Has(Products[k]) THEN Append(r[k - 1], Products[k])
                              ELSE r[k - 1]]
    BY <2>2
  <2>. QED  BY <1>1, <2>3 DEF f
<1>6. /\ f[0] = <<>>
      /\ \A k \in 1 .. 9 : f[k] = IF Has(Products[k]) THEN Append(f[k - 1], Products[k]) ELSE f[k - 1]
  <2>. HIDE DEF f, Has
  <2>1. \A k \in 0 .. 9 : f[k] = IF k = 0 THEN <<>>
                                 ELSE IF Has(Products[k]) THEN Append(f[k - 1], Products[k])
                                 ELSE f[k - 1]
    BY <1>5
  <2>2. 0 \in 0 .. 9 /\ \A k \in 1 .. 9 : k \in 0 .. 9 /\ k # 0
    OBVIOUS
  <2>. QED  BY <2>1, <2>2
<1>. DEFINE Comes(s) == \A i, j \in DOMAIN s : i < j =>
                \E k, l \in 1 .. 9 : k < l /\ Products[k] = s[i] /\ Products[l] = s[j]
            Good(n) == /\ f[n] \in Seq(T) /\ Comes(f[n])
                       /\ \A p : (\E i \in DOMAIN f[n] : f[n][i] = p) <=>
                                 \E k \in 1 .. n : Products[k] = p /\ Has(p)
            G == {n \in 0 .. 9 : Good(n)}
<1>. HIDE DEF f, T, Has, step
<1>7. 0 \in G
  <2>1. f[0] = <<>> /\ <<>> \in Seq(T) /\ DOMAIN <<>> = {}
    BY <1>6
  <2>2. 1 .. 0 = {}
    OBVIOUS
  <2>3. Comes(f[0])
    BY <2>1
  <2>4. \A p : ~(\E i \in DOMAIN f[0] : f[0][i] = p) /\ ~(\E k \in 1 .. 0 : Products[k] = p /\ Has(p))
    BY <2>1, <2>2
  <2>5. Good(0)
    <3>. HIDE DEF Comes
    <3>. QED  BY <2>1, <2>3, <2>4
  <2>. HIDE DEF Good
  <2>. QED  BY <2>5
<1>8. ASSUME NEW n \in 0 .. 8, n \in G PROVE n + 1 \in G
  <2>. DEFINE s == f[n]
              e == Products[n + 1]
  <2>1. n + 1 \in 1 .. 9 /\ n + 1 \in 0 .. 9 /\ e \in T
    BY <1>1
  <2>2. f[n + 1] = IF Has(e) THEN Append(s, e) ELSE s
    <3>1. (n + 1) - 1 = n
      OBVIOUS
    <3>2. f[n + 1] = IF Has(Products[n + 1]) THEN Append(f[(n + 1) - 1], Products[n + 1]) ELSE f[(n + 1) - 1]
      BY <1>6, <2>1
    <3>. QED  BY <3>1, <3>2
  <2>3. /\ s \in Seq(T) /\ Comes(s)
        /\ \A p : (\E i \in DOMAIN s : s[i] = p) <=> \E k \in 1 .. n : Products[k] = p /\ Has(p)
    BY <1>8
  <2>4. \A p : (\E k \in 1 .. n + 1 : Products[k] = p /\ Has(p)) <=>
               \/ \E k \in 1 .. n : Products[k] = p /\ Has(p)
               \/ e = p /\ Has(p)
    BY <2>1
  <2>. HIDE DEF s, e
  <2>5. CASE ~Has(e)
    <3>1. f[n + 1] = s
      BY <2>2, <2>5
    <3>2. \A p : (\E i \in DOMAIN s : s[i] = p) <=> \E k \in 1 .. n + 1 : Products[k] = p /\ Has(p)
      BY <2>3, <2>4, <2>5
    <3>3. Good(n + 1)
      <4>. HIDE DEF Comes
      <4>. QED  BY <2>3, <3>1, <3>2
    <3>. HIDE DEF Good
    <3>. QED  BY <2>1, <3>3
  <2>6. CASE Has(e)
    <3>. DEFINE z == Append(s, e)
    <3>1. /\ z \in Seq(T) /\ DOMAIN z = DOMAIN s \union {Len(s) + 1} /\ z[Len(s) + 1] = e
          /\ \A i \in DOMAIN s : z[i] = s[i]
          /\ \A i \in DOMAIN s : i \in Nat /\ i < Len(s) + 1
      BY <2>1, <2>3
    <3>2. f[n + 1] = z
      BY <2>2, <2>6
    <3>. HIDE DEF z
    <3>3. \A p : (\E i \in DOMAIN z : z[i] = p) <=> (\E i \in DOMAIN s : s[i] = p) \/ e = p
      BY <3>1
    <3>4. \A p : (\E i \in DOMAIN z : z[i] = p) <=> \E k \in 1 .. n + 1 : Products[k] = p /\ Has(p)
      BY <2>3, <2>4, <2>6, <3>3
    <3>5. ASSUME NEW i \in DOMAIN z, NEW j \in DOMAIN z, i < j
          PROVE  \E k, l \in 1 .. 9 : k < l /\ Products[k] = z[i] /\ Products[l] = z[j]
      <4>1. CASE j \in DOMAIN s
        <5>1. i \in DOMAIN s
          BY <3>1, <3>5, <4>1
        <5>2. \E k, l \in 1 .. 9 : k < l /\ Products[k] = s[i] /\ Products[l] = s[j]
          <6>1. Comes(s)
            BY <2>3
          <6>. QED  BY <3>5, <4>1, <5>1, <6>1
        <5>3. z[i] = s[i] /\ z[j] = s[j]
          BY <3>1, <4>1, <5>1
        <5>. QED  BY <5>2, <5>3
      <4>2. CASE j \notin DOMAIN s
        <5>1. j = Len(s) + 1 /\ z[j] = e
          BY <3>1, <4>2
        <5>2. i \in DOMAIN s /\ z[i] = s[i]
          BY <3>1, <3>5, <5>1
        <5>3. PICK k \in 1 .. n : Products[k] = s[i]
          BY <2>3, <5>2
        <5>4. k \in 1 .. 9 /\ k < n + 1 /\ Products[n + 1] = e
          BY <2>1 DEF e
        <5>. QED  BY <2>1, <5>1, <5>2, <5>3, <5>4
      <4>. QED  BY <4>1, <4>2
    <3>6. Comes(z)
      BY <3>5
    <3>7. Good(n + 1)
      <4>. HIDE DEF Comes
      <4>. QED  BY <3>1, <3>2, <3>4, <3>6
    <3>. HIDE DEF Good
    <3>. QED  BY <2>1, <3>7
  <2>. QED  BY <2>5, <2>6
<1>9. 9 \in G
  <2>. DEFINE n == 9
  <2>. HIDE DEF G
  <2>1. n \in Nat /\ \A k \in 0 .. n - 1 : k \in G => k + 1 \in G
    BY <1>8
  <2>. HIDE DEF n
  <2>2. \A k \in 0 .. n : k \in G
    BY <1>7, <2>1, Induct
  <2>. QED  BY <2>2 DEF n
<1>10. \A k, l \in 1 .. 9 : Products[k] = Products[l] => k = l
  BY NamesAreUnique
<1>11. Range(SearchProducts(query)) = {p \in Range(Products) : query \in p.words}
  <2>1. \A p : p \in Range(SearchProducts(query)) <=> \E i \in DOMAIN f[9] : f[9][i] = p
    BY <1>2 DEF Range
  <2>2. \A p : p \in Range(Products) <=> \E k \in 1 .. 9 : Products[k] = p
    BY <1>1 DEF Range
  <2>. QED  BY <1>9, <2>1, <2>2 DEF Has
<1>. QED  BY <1>1, <1>2, <1>9, <1>10, <1>11 DEF SearchFinds

-----------------------------------------------------------------------------
(***************************************************************************)
(* Whatever the functions are asked, of any length and size, what they     *)
(* compute is right.                                                       *)
(***************************************************************************)
THEOREM WhateverIsAsked == ComputedSpec => []ComputedRight
<1>1. ASSUME Asked(input) PROVE ComputedRight
  <2>1. CASE input.what = "total"
    BY <1>1, <2>1, TotalsAreSums DEF Asked, ComputedRight
  <2>2. CASE input.what = "product"
    BY <1>1, <2>2, ProductsAreDoubled DEF Asked, ComputedRight
  <2>3. CASE input.what = "convert"
    BY <1>1, <2>3, ConversionsLoseLittle DEF Asked, ComputedRight
  <2>4. CASE input.what = "card"
    BY <1>1, <2>4, CardErrorsAreFound, CardsExpire DEF Asked, ComputedRight
  <2>5. CASE input.what = "search"
    BY <1>1, <2>5, SearchesFind, TablesDoMatch DEF Asked, ComputedRight
  <2>6. CASE input.what = "events"
    BY <1>1, <2>6, EventsAreAllCounted DEF Asked, ComputedRight
  <2>7. CASE input.what = "latencies"
    BY <1>1, <2>7, PercentilesAreRight DEF Asked, ComputedRight
  <2>8. CASE input.what = "nothing"
    BY <2>8 DEF ComputedRight
  <2>. QED  BY <1>1, <2>1, <2>2, <2>3, <2>4, <2>5, <2>6, <2>7, <2>8 DEF Asked
<1>2. Asked(input) /\ [UNCHANGED input]_input => Asked(input)'
  BY DEF Asked
<1>. QED  BY <1>1, <1>2, PTL DEF ComputedSpec
=============================================================================
