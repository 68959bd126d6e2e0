# SigBPF in TLA+

SigBPF runs the functions of a service chain as processes of one node. A
request is read once, into an object of a shared memory region, and then only
the *address* of the object travels: a process hands it to the next one as the
value of a queued real-time signal (`sigqueue` / `sigwaitinfo`). No lock
protects a transaction. Everything rests on a discipline: an address is in one
hand at a time, and whoever has it owns the object. This directory models that
discipline and the code that has to keep it, checks it with TLC on small
instances, and proves with TLAPS that it holds for every size: of the object
pool, of a chain of functions, of the cart service, of the Online Boutique, of
the start of a node and its configuration, of the traffic generators, and of
what the functions of the shop and the generators compute. On top of the exchange, the
Online Boutique, eleven functions that sequence each request by counters in its
transaction, is modelled with all its services; beside it, how the processes of
a node find each other, how the configuration gets into shared memory, and the
programs that measure a node.

## 1. The system

| Part | Source | State | Operations |
|---|---|---|---|
| Object pool | `src/src/sigbpf.c`, `sigbpf.h` | a ring of free addresses, `head`, `tail`, in shared memory | `sigbpf_mempool_create`, `allocate_object`, `release_object` |
| Ownership transfer | `src/src/io_sigbpf.c` | the signal queues of the kernel; a hash table of known pids in each process | `transfer_ownership`, `wait_for_ownership` |
| Gateway | `src/src/gateway.c` (online boutique), `src/src/gateway_nf.c` (chains) | sockets, epoll set, two threads | RX: `conn_accept`, `conn_read`, `dispatch_msg_to_fn`; TX: `conn_write`, `conn_close`, `release_object` |
| Network function | `src/src/nf.c` | two pipes per worker thread | `nf_rx`, `nf_worker`, `nf_tx` |
| Start-up | `gateway*.c`, `nf.c`, `frontendservice.c`, the services | the eBPF map `pid_map`, the tables `matriz` and `hash_t` of each process | `sigbpf_update_map`, `signal_rcv_config`, `lookup_map`, the waits in `nf()` |
| Configuration | `src/src/shm_mgr.c` | functions, routes, nodes and tenants, in shared memory | `cfg_init` |
| Frontend | `frontendservice.c`, `shm_rpc.c` | none but the transaction: its `hop_count` is the program counter of a request | six handlers, one step per arrival |
| Checkout | `checkoutservice.c` | the transaction (`checkoutsvc_hop_cnt`) | the nested sequence of an order |
| Cart | `cartservice.c` on `cstl` maps | the cart store, shared by its workers | `AddItem`, `GetCart`, `EmptyCart` |
| Other services | `paymentservice.c`, `currencyservice.c`, ... | constant tables | one worker each, that dispatches on `rpc_handler` |
| Money and cards | `utility.c`, `currencyservice.c`, `paymentservice.c` | none | `Sum`, `MultiplySlow`, `Carry`, `Convert`, the card check |
| Containers | `src/src/cstl` (`c_rb.c`, `c_map.c`) | a red-black tree per map | insertion, search, removal, iteration, deletion |
| Traffic generators | `src/trafficgen/*.c` | `fdtab`, `inflight`, the result arrays | `sender_thread`, `receiver_thread`, the files that `main` writes |

Processes interact by signals only, threads of a process by pipes only. The
shared state is the pool (the gateway's RX and TX threads), the descriptors of
the gateway (RX accepts, TX closes), and each transaction (whoever holds it).

What makes it hard, and what should hold in spite of it:

* *Pool.* Two threads, plain loads and stores, no lock. An address must not be
  handed out while it is in use, none may be lost, and the full and empty
  tests, which differ by a mask, must not fail while the pool is used within
  its limits.
* *Transfer.* The address may be dropped (unknown pid), its receiver may be
  dead. No address may be in two hands whatever is dropped or dies.
* *Gateway.* RX works through an epoll batch while TX closes connections and
  the kernel reuses their descriptors; a transaction carries the descriptor
  it will be answered on through every process. It must still be its own when
  it comes back. Each error ends a thread for good.
* *Chain.* The hop counter is moved by three pieces of code in two programs;
  every function must see exactly its own hops, and the gateway must answer
  exactly once, after the last one.
* *Start-up.* Signals of two meanings are waited for with one set, the hash
  table of pids is direct-mapped, and the threads that send start before
  everybody is there. Go must mean that all are there, and no address may go
  astray.
* *Configuration.* The region outlives its manager. What is in it after a
  manager that was killed, or whose file was wrong, must be what one of the
  files says.
* *Boutique.* A request is sequenced by a counter in its transaction, and an
  order inside it by a second one; a transaction is reused without being
  cleared. Nobody may be asked for what it cannot do, what is shown and charged
  must belong to the request, and an order must be done wholly or not at all.
* *Cart.* The workers share a map without a lock, and what they find in it is
  a copy. No reader may see half a cart.
* *Containers.* A removal copies a successor and recolours through the parent
  of a sentinel that all leaves share. The map must hold what was put into it.
* *Traffic generators.* Two threads share a table indexed by descriptor, and
  the kernel gives a closed descriptor to the next connection at once. What is
  measured must be of the request it is reported for, and the program must end.

`PROJECT.json` lists the hazards line by line ("hazards"), with the
properties that cover them.

## 2. The modules

```
Pool  <---- implements ----  ObjectPool  <-- ObjectPool_proofs, MCObjectPool
 ^
 | Pool!Take, Pool!Give
Gateway ---+
           +-- NfChain -- implements --> Exchange
NetworkFunction ---+    <-- NfChain_proofs, MCNfChain
     both EXTEND SharedRegion

Cart --------------+        <-- Cart_proofs, MCCart
Frontend, Checkout +-- Boutique -- implements --> Order
Services (EXTEND Rpc) -+    <-- Boutique_proofs (on Cart_proofs), MCBoutique

Startup                     <-- Startup_proofs, MCStartup
LoadGenerator (EXTENDS Reports) <-- LoadGenerator_proofs, MCLoadGenerator
Prices, Payment, Reports (EXTEND Sums), Catalogue <-- Computed
RbTree                      <-- RbTree_proofs
Config, Computed            <-- Library_proofs
RbTree, Config, Computed    <-- MCLibrary
```

**Pool** is what `allocate_object` and `release_object` promise: an object
handed out is nobody else's until it is given back.

**ObjectPool** is the ring behind it, at the grain at which the two gateway
threads can interleave. `allocate_object` is `AllocateCheck` (load `head` and
`tail`, test), `AllocateLoad` (the slot), `AllocateCommit` (store `head`);
`release_object` is `ReleaseCheck`, the two stores `StoreSlot` and
`StoreTail`, and `ReleaseReturn`. The compiler (`-O3`, `src/Makefile:32`) and
the machine may order the two stores either way, as neither is atomic or
volatile: the model has both orders. `uses[o]` counts who was given `o`. `Limit` is
the number of objects the callers have out at most.

**SharedRegion** holds what processes share: the transactions, the signal
queues, and which processes are alive. `TransferOwnership` has the three
outcomes of `transfer_ownership`: queued; `sigqueue` fails, as the receiver is
gone or the user's limit of queued signals is reached, and the sender exits; the
receiver's pid is not in the sender's table, and the address is dropped with the
same result 0. `Awaited` is `wait_for_ownership`: after a signal from a pid that
is not in the table the caller's pointer keeps its value. `Known` is any relation,
as a hash table has one pid for a slot and a pid may lose it to another.
`Limited` says whether the kernel's limits for the user (queued signals, epoll
watches) may be met. `doubled` is a history: whether an object was ever given to
one holder more than it had. The code has two ways to that: `nf_rx`, when it
takes a signal from a sender that lost its slot and its pointer still names its
last object (`nf.c:179`), and `allocate_object`, when all objects are in use and
it does not see it. From then on nothing can be said of transactions; the
properties say that everything holds until then, and so that there is no third
way.

**Gateway** has the clients (connect, send, close unsent, reset), the RX
thread (`RxPoll` .. `RxDispatch`) and the TX thread (`TxWait` ..
`TxRelease`), one action per step at which the other thread or a process can
come in between. Errors are actions or branches of their own and end the
thread, as in the code. The branch of `event_process` for `EPOLLERR` or
`EPOLLHUP` without `EPOLLIN` is not there: TCP reports both with `EPOLLIN`.
It takes objects with `Pool!Take` and gives them back with `Pool!Give`: that
this is sound is what ObjectPool proves, as long as the objects out are fewer
than the slots. With one object left an allocation may be refused
(`RxRefused`), and with none it may also hand out an object that is in use
(`RxOverrun`). Nothing in the model keeps the descriptors below the objects,
as `src/run.sh:4` does not.

**NetworkFunction** has the three kinds of thread of `nf.c` and the pipes
between them, which block when full; `NfKilled` is the death of a process.
`seen` is the pointer of `nf_rx`, which it never resets.

**NfChain** composes the three and states the properties.

**Exchange** is what the whole exchange of objects promises: an object belongs
to one process at a time, and its transaction changes only while it is owned,
one transaction at a time, until an object is `doubled`. A signal in a queue is
owned by its receiver.

**Cart** is the cart service. All callers name one user ("ucr-students"), so
the map has one node or none. A worker's find and the write into what it found
are one action each, as is the descent, the link, the fix-up and the
verification of the insertion into the red-black tree: a worker can lose the
processor between them. (The service pins its workers to processor 5 and makes
them first-in first-out; both are tried and their failure ignored, and even
then a worker that blocks lets others in.) `StoreAfter` is where the copy
comes in: what is written never reaches the map.

**Rpc** has the transaction as far as the boutique's functions look at it, and
how they call each other. Money is abstract: of what it is the price, in which
currency, and how many times it was doubled, as multiplying by n doubles n - 1
times; a sum is a sequence of amounts. An amount in CAD is one that was
converted. **Frontend** and **Checkout** are functions from the
transaction that arrives to the one that is handed on, one operator per
function of the code and with its name. Where the code calls itself to go on to
the next step, the model calls the step. The list of nine products is one
product, `Listed`.

**Boutique** gives each function its action. An object is at the function
`next_fn` names; NfChain is why it can be taken to get there. A cart request
goes through the steps of Cart, the other functions have no state and take one
step. `visits` and `done` are histories: where a request was, and which steps of
its order are done. A conversion from a currency that was never written reads an
uninitialized pointer (`currencyservice.c:119-120`): any amount, or a crash.

**Order** is what an order amounts to: charged, shipped, taken from the cart
and confirmed, once each, in this order, and a request ends with all or none.

**Services** are the seven services that keep nothing between two calls: what
the worker of each makes of the transaction that arrives, by its `rpc_handler`,
its mock test for an unknown one included. Lists, advertisements,
recommendations and tracking numbers are left out of the transaction, as no
other function looks at them.

**Startup** is the start of a node, of a chain (`gateway_nf.c`, `nf.c`) or of
the shop (`gateway.c`, `frontendservice.c`, the services); `coordinator` says
which. One action is one step that others can come between: the start of a
process up to its first wait, each turn of the coordinator's two loops, the wait
for go, the copy of `pid_map`. A member that starts publishes its pid, looks up
the coordinator's and signals it in one action: its pid is read by nobody
before the coordinator has counted the signal, and if it is killed in between this
is a member that is not there yet. `signal_rcv_config` of the frontend puts its
own pid into the slot of a member before `seek_elem_map` puts the member's there
(`frontendservice.c:571-573`); the model has the second value only, as the member is
not known before either. The threads that receive, hand on and answer run as soon as the code
starts them, so objects are part of the model. `mishaps` is a history of what
went out of order: a function that was started before the one it looks for, one
that was killed, a transfer that was taken for go, a request that came early.
The properties say what each of these can lead to.

**LoadGenerator** is both traffic generators, one action per access to what the
two threads share. The kernel (lowest free descriptor, epoll) and the server
are external. **Reports** is what `main` makes of the samples: percentiles,
latencies and the events of each second.

**RbTree** is `c_rb.c` and `c_map.c` on nodes in memory, with parent links and
the shared sentinel. Where the code has a case and its mirror image, the model
has the side as a parameter. A loop is one turn of it, which changes nothing
once the condition of the loop is false, `Repeated` as often as there can be
nodes; that every loop has ended by then is part of the proof.

**Config** is `cfg_init`, one action per entry that is read and written, and per
hop of a route. The region is never cleared; `Kill` ends the manager between any
two of these, and `Start` begins another one with any file. A lookup that fails
ends it with what was written up to there, and still with 0. A kill between two
settings of one entry is not shown.

**Prices** is the arithmetic of money, **Payment** the card check, and
**Catalogue** the tables of three services with the search. They only compute;
a loop is a recursive function of the number of its turns, and **Sums** has the
two that several of them need. **Computed** puts one question to one of these
functions: `Asked` is what the programs may ask, and `ComputedRight` says what
the answer has to be.

## 3. The runs

| Run | Question | Instance |
|---|---|---|
| `pool` | Is the ring a pool when one slot is spare? | 4 slots, 3 objects in circulation and all out |
| `pool_overrun` | And with none? (violated) | 4 slots, 4 out |
| `chain` | Does a chain work without failures, and is everything answered in the end? | 2 functions, 2 + 1 workers, 3 requests, 3 routes, fairness |
| `chain_faults` | What survives failures and limits? | 4 functions, two with the same slot in a hash table, one mortal; 2 objects for 2 descriptors, a reset, a client that leaves |
| `gateway_leak` | Is every answered object returned? (violated) | as `chain`, 1 + 1 workers |
| `cart` | What do readers of the cart see? | 3 workers, 2 products, any requests |
| `cart_added` | Is what was added in the cart? (violated) | the same |
| `boutique` | Is each request sequenced and answered right? | 2 objects, 3 requests of 9 kinds, one unknown product |
| `boutique_home` | Are the prices of the home page its own? (violated) | the same |
| `startup` | Does a node find itself together, and what if not? | a chain or a shop of 3 functions, 2 objects, 5 entries of the hash table |
| `load` | Is what is measured true, and does the generator end? | 3 requests, 2 connections at a time, 3 descriptors, 2 seconds, 1 failed call |
| `library` | Is what all this is built on right? | 6 keys; 10 files, 2 managers; 5900 inputs |

What each shows:

* `pool`: an address is never handed out twice (`ExclusiveUse`) or lost
  (`NoneLost`), the two threads never meet on a slot (`NoSlotRace`), a release
  never overflows (`NeverFull`), a refusal means that at most one object is
  left (`RefusedWhenOut`), and the ring implements `Pool`.
* `chain`: nothing is lost while RX runs (`NothingLost`); each request is
  answered unless RX has returned (`Answered`), and what was dispatched comes
  back to the pool even then (`Drained`).
* `chain_faults`: no address is ever in two hands (`OneHolder`,
  `ExchangeSpec`), a transaction keeps its own connection (`OwnConnection`), is
  where its counter says (`AtItsHop`) and is answered once (`AnsweredOnce`); no
  event of a batch is stale (`BatchIsFresh`); and the objects out are bounded
  by the descriptors (`ObjectsBounded`), which is what the pool relies on. Objects
  are `doubled` in this run, by a collision of pids and by an allocation that
  overruns, and all of this is said of what happens before.
* `cart`: readers see whole carts (`ReadsAreWhole`), the cart never changes
  once the first insertions are over (`SettledForGood`), and the assertion on
  the root can fail only when two first insertions overlap (`RootIsBlack`).
* `boutique`: `NestedCalls` and `RouteFollowed` tie the two counters to who is
  called for what: each page goes its configured route, but for the home page and
  the page of a product, which go their own (`Way`), and with an empty cart a
  shorter one (`ShortWay`); `ShownPrices` and `ChargedOrder` tie the figures to the
  request though objects are never cleared; `OrderSpec` is the implementation
  of `Order`; `Responded` is the liveness.
* `startup`: go means that everybody is there (`TablesAgree`); an object goes
  astray only after a collision, a restart or a transfer taken for go
  (`NothingAstray`); an undisturbed node comes up and answers (`Assembled`).
* `load`: `inflight` counts the open connections but for what is between two
  steps (`OpenAreCounted`); each sample has the time and the kind of a request
  of its own (`SamplesAreTrue`); the generator ends with true files if no
  connection hangs for ever (`Ends`).
* `library`: the map is a map after every sequence of insertions and removals
  (`TreeIsMap`); the region is what the files say (`SetUpAsWritten`); and the
  arithmetic, the card check, the search, the tables and the reports agree with
  their reference definitions on every input (`ComputedRight`). The inputs of
  the run are among those of the theorem (`InputsAreAsked`).

*Bounds.* The pool's behaviour depends on where `head` and `tail` are relative
to each other and to the end of the array; four slots have every such
position, wrap included, and the theorems cover the rest. In the chain three
requests over two descriptors give what two threads can do to one descriptor:
reuse while the last transaction is out, running out, and a batch with a
stale event. The four objects of `chain` are the fewest that cannot run out with
two descriptors, with address 1 among them because the code treats it
differently. In `chain_faults` two objects are, with two descriptors: one may be
with TX, its connection closed, when the next is read. The pids of functions 1
and 4 share a slot, which the gateway's table has given to 1 and the functions'
tables to 4: so 1 signals 2, which does not know it, and another route has an
object at 2 before. A pipe holds one pointer, so that writers block (8192 in Linux). The routes are one
through both functions, one that passes through the gateway (the branch of
`conn_write` that forwards), and route 0, which is empty and which an
unparsable request takes. Requests are finite, so that every behaviour stops:
deadlock is not checked in these runs, and `Answered` says that they stop only
when everything is answered. The three ordinary objects are interchangeable and
a symmetry set in `gateway_leak`.

In `cart` three workers are what it takes for two insertions to meet and a
third worker to look on. Three slots are enough: the one that `AddItemAsync`
leaves free is the second. In `boutique` three requests and two objects give
two requests at once and a third in an object that another has used; quantities
are 1 and 2, where doubling and multiplying are the same. `lamp` is in no
catalogue. The path "cart" is a request for the cart that neither gets nor
posts, which no handler takes.

In `startup` three functions are what it takes for two members to wait for a
coordinator that is a function itself; the pids are 6, 7 and 8, and 9 or 12 for
the third function, so that a hash table of five entries has runs without a
collision, one between two functions, and a function that starts again. In
`load` two connections and three descriptors (one more than may be open) give
reuse of a descriptor by the next request while the last one is being counted,
and three requests give one to wait; two seconds tell early from late, one
failed call reaches each error path. In `library` six keys meet every case of both
fix-ups; the files have at most two entries of each kind, with ids up to 2
(`MaxId`) and at most three hops (`Hops`), and a first manager can die at any
entry before a second one starts.
A unit is 100 nanos there: the code uses `NANOSMOD` only as the number of nanos
in a unit, and amounts next to 0, to a half and to a whole unit are among the
inputs. `Word` in `Reports` is 8 for 2^64.

*Fairness.* Weak fairness of every thread's step: the threads are POSIX
threads under the kernel's scheduler, each blocks only in `epoll_wait`,
`sigwaitinfo`, `read` or `write`, and an action is enabled when that call can
return. A client that has connected sends (clients that do not are in
`chain_faults`). No strong fairness is needed, since a pipe or a queue, once
ready, stays ready until its only reader reads it. In `boutique` each object
has a step that stays enabled until it is taken, as nobody else has the object.
In `startup` every process is started and its threads run, and nobody need send
a request. In `load` the two threads and `main` run; the server owes nothing,
and `Ends` says for which servers the generator ends.

## 4. What is proved

All of this holds for every value of the constants that the named assumptions
allow. Each proof has the same layout: an inductive invariant whose parts TLC
checked before they were proved (but for that of the map, see there), one lemma
per action that keeps it, and the properties of the runs as its consequences.

### The object pool

`ObjectPool_proofs` proves, for every ring size `N > 1` and every `Limit < N`,
that `Spec` keeps `TypeOK`, `ExclusiveUse`, `NoneLost`, `NoSlotRace`,
`NeverFull` and `RefusedWhenOut`, and that it implements `Pool!Spec`. The
safety properties are not inductive; the
invariant is `IInv`, which adds

* `Balanced`: free slots and objects in use together are `N - 1`, where the
  free part of the ring ends at `end`, the tail as it will be when the release
  under way is done. This is why the emptiness test cannot be met by accident
  and why the two threads never meet on a slot;
* `FreeIsFree`: the free part holds distinct addresses, none of them in use,
  which is what `AllocateLoad` needs to hand out an idle object;
* `Allocating` and `Releasing`: what each thread has loaded is still what is
  in memory, since the other thread never writes it.

The assumption `Limit < N` is not given by the code: `src/run.sh:4` allows
102400 descriptors and the ring has 65536 slots. `pool_overrun` shows what
happens then.

### Ownership in a chain

`NfChain_proofs` proves `TypeOK`, `OneHolder` and the implementation of
`Exchange` for any number of functions, workers, clients, descriptors and
objects, any routes, and whatever is killed or reset. `OneHolder` speaks of
positions in queues, which every step shifts. The proof has instead places
without positions, `Holds(o, kind, p, w)`: object `o` is with process `p` as a
queued signal, in a thread, or in a pipe of worker `w`. Every step then does
one of four things: nothing (`Same`), it takes one object elsewhere (`Moved`)
or nowhere (`Dropped`), or all that a process has goes with it (`Ended`); and
each of the four keeps `HeldOnce` (one place at most) and `HeldInUse` (what is
held is out of the pool), and is a step of `Exchange`. `SignalledOnce` and its
like for pipes bring the positions back. Two steps do none of the four: those
that set `doubled`. So the invariant is `doubled \/ HoldersInv`, and the theorems
`Exclusive` and `Refinement` are without any condition on the tables, the
descriptors or the limits.

`NeverDoubled` is when `doubled` never becomes true, and thus all of this holds
for good. It has two premises. `Mutual`: who has somebody in its hash table is in
that one's table; then a signal only comes from a process that the receiver knows
(`SendersKnown`), and `nf_rx` never works on the object that it had before. Both
tables are filled from the one map of pids, and go means that everybody is in it
(`TablesAgree` of Startup), but a table has 1024 slots that are chosen by the last
bits of a pid: processes whose pids differ by a multiple of 1024 may be `Known`
one way only. `Enough`: two objects more than descriptors; then the pool never
comes to its last one. `src/run.sh:4` allows 102400 descriptors for 65536
slots. Neither is given by the code, and both can be read off a node that runs.

`OwnersAssumption` only keeps the names `Free` and `Lost` apart from processes.

### Connections in a chain

The second half of `NfChain_proofs` goes on from there. `EPOLLONESHOT` makes an open
descriptor belong to exactly one of epoll, the events that RX still has to
process, the read under way and one transaction (`Connections`), and only the
transaction that has it leads to its close, in TX's hands. From this:
`OwnConnection`, `BatchIsFresh` and `ObjectsBounded`; and `NeverFatal`, that the
gateway never closes a descriptor that is not open, which would end it. Like
`OneHolder` they hold until an object is `doubled`, and for good under the
premises of `NeverDoubled`. `ObjectsBounded` is what the pool needs of its callers,
as far as there are more objects than descriptors. Following the
descriptor: whose request was read from it (`Requests`), whose client it is
(`Clients`) and whether that client was answered (`Answers`) give
`AnsweredOnce`, and the hop counter beside it (`Progress`) gives `AtItsHop`.
`NothingLost` is not true when a process dies or a client resets; it is proved
under `Faultless`, that neither happens, that no limit of the kernel is met and
that everybody knows everybody, which the run `chain` has as its constants.

### The cart

`Cart_proofs` proves, for any workers, products, requests and length of a cart,
that the cart service keeps `CartTypeOK`, `ReadsAreWhole`, `SettledForGood` and
`RootIsBlack`. The invariant `CartInv` adds that the stored cart is `NewCart` of
a request (`StoreIsWhole`), which is what the copy in `StoreAfter` amounts to,
and that a worker that is inserting has a request, and a node under the root
once it has linked (`Inserting`). `RootIsBlack` needs `RedIsFresh`: a red root
was linked by a worker that is still about to paint it. Assumed are a cart of
more than two slots and requests of the three kinds the service has.

### The Online Boutique

`Boutique_proofs` proves everything the run `boutique` checks but its liveness,
for any catalogue, any objects and any requests. A transaction is never
cleared, so the proof first says what one is made of whatever an earlier
request has left there (`Txn`), with one lemma per procedure of the frontend,
the checkout service and the services. On this stand two invariants.

`Kept` says where a request can be: it is finished, or browsing (with the
frontend or a service that this has called), or ordering (with the checkout
service or a service that this has called), `Course`; a worker of the cart
service has it only while `next_fn` says so (`InShop`); and as much of its
order is done as the second counter says (`OrderInv`). `Course` gives `TypeOK`
and `NestedCalls`. By `OrderInv` a call of payment, shipping, cart and mail by
the checkout service is the next step of `Order`, and no other step is one:
`OrderSpec`. The cart service is Cart with the objects for workers, so
`Cart_proofs` is instantiated, not repeated.

`WayInv` is for the figures. It numbers the steps of a page: of a request that
was handed on `k` times, `Stage(t, k)` says in which step its handlers are, and
in which of the shared fields the product or amount that is under way can be
found: in `rpc` what was asked for, in `result` what came back, in a view what
was put away. Each handler takes `k` to `k + 1` and so does each service. With
an empty cart a page leaves its way (`ShowsNothing`). At the end of the way this
is `RouteFollowed` (for the home page and the page of a product, too, on the ways
that `Way` has for them) and `ShownPrices`, and at the payment service it is
`ChargedOrder`. That a cart is answered with one item or none is `ReadsAreWhole`
again.

`RequestsAssumption` is what the parser gives: one of the pages, and for the
product page and `addToCart` an item, whose quantity is any number.
`ShopAssumption` only keeps the null pointer apart from the nodes of the map.

### The traffic generators

`LoadGenerator_proofs` proves, for any number of requests, any `max_inflight`,
any mix of kinds, any clock and any number of failed calls, `TypeOK`,
`OpenAreCounted` and `SamplesAreTrue`. The invariant `LoadInv` says who has a
descriptor: the sender until epoll watches it (`Sending`), the receiver from
then on (`Receiving`), and what is in `fdtab` at the moment it changes hands
(`Watching`). `Pacing` is why the pause at `max_inflight` holds until the
connection is counted, though the test and the count are apart. `Apart` is that
a request is on one connection or in one sample: by the pigeonhole principle
`lat_idx` then never passes `total_requests` before the test for it. That the
lowest free descriptor exists is proved too (`Least`), from the
well-foundedness of strict inclusion among finite sets. Of the kernel it is
assumed that it gives an open descriptor to nobody else; that there is a free
one is `Fd` having one more than `max_inflight`.

### The start-up

`Startup_proofs` proves `TypeOK`, `TablesAgree` and `NothingAstray` for any
number of functions, any pids, any size of the hash table, any objects, and for
the chain and the shop alike. The properties speak of what holds as long as
certain things have not happened, and so does the invariant, in four parts that
need each other:

* `Shapes` holds whatever happens: who can be in which stage, and that what
  anybody knows of a process is a pid that this process has had (`OwnPids`).
* `Rendezvous` holds until a member is killed or takes a transfer for go. The
  code counts signals; that this counts members is `InReady` and `Gathered`:
  the signals in the queue and the entries of the coordinator's table are of
  different members, each of which put its pid into `pid_map` before it
  signalled. So a full count means that all are there (`AllThere`), and what is
  copied from `pid_map` after go is complete: `TablesAgree`.
* `Handing` also needs that no pids collide. Each member has had its one go and
  has taken it when it runs (`Goes`), so that none takes go for an address; who
  sends is in the table of who receives, or the receiver keeps what it has
  (`Senders`, `FirstKnows`); and the queues and hands, taken as one family of
  sequences, hold an object once and where its hop counter says (`OnTheWay`).
  `Mute` is the case of a shop whose frontend started before the gateway: it
  knows no sender, and hands on nothing at all.
* `Smooth` needs that nothing went out of order at all: nobody ended, nobody is
  deaf, and what is in use is in somebody's queue or hand (`Busy`).

`NothingAstray` is the last two. `StartupAssumption` is three functions or more,
pids that are not 0 and belong to one process each, and a table that is not
empty.

### The configuration

`Library_proofs` proves `SetUpAsWritten` for any files, any hosts, and any
number of managers, each killed after any of its entries or hops. Nothing is
ever cleared, so the invariant `ConfigInv` has two points of reference: the file
that is read, and the region as this manager found it (`before`). For each
place the manager may be at it says what the region holds there: of the
sections read so far everything the file has (`Written`; for each id its last
entry, or what was there before it, `Entered`), of the section that is read its
first entries, of the route that is read its name, its length and its first hops
(`Reading`), and the sections after it untouched (`Underway`). Each read takes
one of these to the next. When the manager stops before the end, the section
it stopped in is not whole and those after it were not reached, so that this is
all that the property asks (`Done`). `EntryRead` and `RouteShape` are the two
ways a step writes: one place of one section, and for a function its node in the
table of nodes. `ConfigAssumption` is what `cfg_init` takes for granted of a
file: ids and hops that have their places in the arrays, and no more entries
than the byte that counts them can count.

### What is computed

`Library_proofs` proves `ComputedRight` for everything that may be asked
(`WhateverIsAsked`): totals of any number of amounts, products by any number,
conversions of any price at any rates, card numbers of any length, any word to
search for, any number of events in order, any latencies. The provers cannot
cite an induction theorem, as those take a predicate; but a *set* of numbers
that has 0 and with each `k < n` also `k + 1` has all of them up to `n`
(`Induct`), because otherwise it would lack a least one (`Least`, which follows
from the well-foundedness of inclusion between finite sets). With it a
recursive function exists (`Recursion`), since there is a beginning of it for
every `k`, and what it has after `k` turns is what it is to have.

* *Money.* `Sum` is worth what both amounts are worth (`SumIsExact`), and of
  amounts that are not negative it keeps the nanos below a unit
  (`SumIsNormal`), whichever signs units and nanos come to have; so totals are
  sums (`TotalsAreSums`) and `MultiplySlow` doubles (`ProductsAreDoubled`). A
  conversion is two divisions, each of which drops less than a unit and a nano
  (`OneConversion`), and never gains anything (`ConversionsLoseLittle`). The
  integers are unbounded there; with `SumIsNormal` the nanos of two amounts fit
  in 32 bits, and the units overflow only past 2^31 of them.
* *Cards.* One digit changes the sum of a card by the difference of two weights
  (`OneDigitWrong`), which is not 0 and less than 10 (`DigitsDiffer`): a wrong
  digit is always found, and two neighbours in each other's place unless they
  are 0 and 9 (`CardErrorsAreFound`).
* *Reports.* After `k` events the book has a line for every second up to that
  of the last event, with its count of the first `k` (`EventsAreAllCounted`).
  The place of a latency, when those that are alike stay in order, is a
  bijection on the places, as it is injective and there are as many places as
  latencies; so each percentile is one of the latencies with its share of them
  on either side (`PlacesAreRanks`, `PercentilesAreRight`).
* *The catalogue.* After `k` products a search has found those of the first `k`
  with the word, in their order (`SearchesFind`). The three tables agree by their
  contents (`TablesDoMatch`).

`PricesAssumption` and `ReportsAssumption` ask for a positive `NANOSMOD` and
`Word`. What is asked is what the code can ask: amounts that are owed are worth
nothing or more, rates are positive, the seconds are those of one clock, and a
file of events has one (`save_events_per_second` refuses an empty one).

### The map

`RbTree_proofs` proves `TreeIsMap` (`MapHolds`) for any integers as keys, any
values and as many nodes as memory may have: whatever is inserted, removed,
replaced, iterated and deleted, the tree of `c_rb.c` is a red-black tree that
holds what was put into `c_map.c`. The invariant `TreeInv` is that the nodes in
use are a red-black tree (`SomeRedBlack`) and that their keys and values are the
contents (`Matches`). A red-black tree is stated without recursion, by two
functions that are not in the code and that the invariant only says to exist:
TLC has no part in it, and checks `TreeIsMap` itself.

* `Shape` has `under`, the set of what is under each node. A node is under
  itself, with what is under its two children, which have nothing in common
  (`Unders`); all is under the root; each link down has its link up (`Links`);
  and what is under a side of a node has its keys on that side (`Ordered`). A
  rotation changes `under` of two nodes (`Turned`), and keeps the shape
  (`RotateShape`).
* `Balanced` has `black`, the number of black nodes on every way down from a
  node, of which one may be missing below a given place (`short`); `Reds` says
  where alone a red node may have a red child. A rotation in exchange for a
  colour keeps both (`SwapBalance`).

*Insertion.* `InsertInv` is what `__rb_insert_fixup` has before each turn: the
only red node under a red one is `x`. A red uncle takes it two levels up
(`RedUncle`), a black one ends it by one rotation or two (`Straightened`,
`BlackUncle`). *Removal.* `RemoveInv` of `__rb_remove_fixup` is that one black
node is missing on the ways through `x`, which may be the sentinel with the
parent that was set for it. A red sibling goes up (`RedSibling`), black nephews
take what is missing a level up (`BlackNephews`), and a red one ends it
(`RedNephew`, `SiblingLast`). Before that, the node that goes is taken out
(`TakenOut`, `OutColours`), and it is the successor where there are two children
(`NodeThatGoes`); `RemovedTree` is `remove_c_map` as a whole.

*The other loops.* Each stays on the one way for which what it looks for is
under the place where it is (`OnWay` for `find_c_rb` and the insertion, `Climb`
for the successor, `Foremost` for the leaf that `delete_c_rb` frees next), and
that set shrinks. As `under` of a node is at most `Memory` nodes, the loop has
ended when the model stops repeating it (`WayEnds`, `OutermostNode`,
`LeafNode`), and so have the fix-ups, where what is under `x` grows with each
turn. The successor of a node is the one with the next key (`SuccessorNode`),
so the iterator gives all keys in order (`IteratedKeys`); `DeletedAll` is that
no node is left after `delete_c_map`; `BlacksCounted` that what
`debug_verify_properties` counts is `black`.

`TreeAssumption` is that keys are integers, whose order `compare_fn` is, and that
the memory is a number of nodes.

### What stays with TLC

Liveness: `Answered`, `Drained`, `Responded`, `Assembled` and `Ends`, as
fairness is out of the prover's reach. Every other property of the passing runs
is a theorem.

## 5. Disagreements found

* `pool_overrun`: `allocate_object` (`sigbpf.c:215-216`) compares `head + 1`
  with `tail` before masking it. At the last index an empty ring is not seen,
  and `conn_read`'s test for an exhausted pool (`gateway.c:314`) does not
  catch it.
* `gateway_leak`: `server_process_tx` takes result 1 of `conn_write` for
  "forwarded" (`gateway.c:697`); for the object at address 1 it is the address.
  The client is answered, the connection stays open and the object is lost.
* `cart_added`: `AddItemAsync` writes to the copy that `find_c_map` made; the
  comments (`cartservice.c:123`, `:134`) say the store is updated. Together with
  `SettledForGood`: the first item added stays the cart for good, and an order
  does not empty it.
* `boutique_home`: `homeHandler` never sends the conversions it prepares; the
  route of `GET /` in the configuration and `shm_rpc.c:108` say it does. The
  route of `GET /product/$ID` has a visit to the cart service after the
  recommendations that the frontend does not make either.

Met while modelling, without a line of the repository that says otherwise:
`total_price` is only ever added to (`shm_rpc.c:613`, `checkoutservice.c:126`),
so that what is charged starts with what earlier requests left in the object;
`order_item_view[].Item.Quantity` is never set, so an order is charged one of
each item; `MultiplySlow` (`utility.c:274`) doubles; the checkout service looks
at no response, so that a refused card changes nothing and the order is shipped.
Two first insertions into the cart that overlap can fail the assertion
`c_rb.c:486`, which ends the service.

* *Money.* `Sum` takes no units and some nanos for different signs: half a unit
  becomes a unit less half a unit; the worth is kept. `Carry` multiplies
  `Units % 1`, always 0, so the fraction of a unit is dropped. `Convert` divides
  by both rates.
* *Containers.* `empty_c_rb` returns true of a tree that is not empty; the
  iterator of an empty map returns the sentinel; an insertion of a key that is
  there leaks its node.
* *Services.* Only the mock test sets `ad_request.num_context_keys`, so the
  advertisements asked for are always the random ones.
* *Configuration.* `cfg_init` returns 0 after an error, too; a host that is
  no node is reported and makes no difference; `local_node_idx` is a place
  in the list while nodes are stored by their id; routes of the last file stay.
* *Start-up.* The rendezvous counts signals and not members; the wait for go
  takes a transfer, and go is taken for a transfer of the object at address 1.
* *Traffic generators.* The files have `total_requests` entries whatever was
  sampled, the rest as kind 0 at time 0; the sent events are in the order of the
  samples and not of time; no request has a time limit; a comment on `sortear`
  has other kinds than `set_req`.

## 6. Plan

Done, in this order: the pool and its proof; transfer, gateway and functions;
their composition with failures and liveness; the cart and its proof; the
boutique with its services; the start-up; the traffic generators and their
proof; the map, the configuration, the arithmetic and the tables; the proofs of
the chain (ownership, refinement, connections, hops), of the boutique
(calls, orders, ways and figures), of the start-up, of the configuration, of
what is computed and of the map.

## 7. Not modelled

Of the boutique: requests that cannot be parsed (a missing query ends the
frontend); the branches for USD, which a constant default currency never takes;
the lists, advertisements, addresses and mails in a transaction, which no other
function looks at. `httpQueryParser` (`utility.c:386`) returns a pointer into
its own frame: the model takes what it points to as still there, as it is
until another call overwrites the frame.

Of the chain: `autoscale_*` and the memory, sleep and compute parameters of
`nf.c`, and the counters of `metrics_collect`, which change nothing in a
transaction. `io_rx` (`io_sigbpf.c:39`) and `rpc_client_*` in the gateways have
no caller. The memory leaked per connection (`sk_ctx`) is not represented.

Of the start-up: a gateway or a coordinator that is killed and started again
while its functions go on, which the start scripts never do. A manager that
starts again re-initialises the ring as well (`sigbpf_mempool_create`); the
model of the pool takes it that the node is then started anew.

Of the generators: how long the sender waits between two requests, and the
parsing of the arguments.

`ebpf/` and `ebpf_cpu.c` (no protocol), the array, the deque, the set and the
list of `cstl` (vendored, and unused here), `io_helper.c`, `timer.c`, `log/`
(I/O).
