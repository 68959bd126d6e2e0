------------------------------- MODULE Reports -------------------------------
(***************************************************************************)
(* What the traffic generators write when they end: functions of the       *)
(* seconds, the latencies and the kinds of the requests that were sampled. *)
(***************************************************************************)
EXTENDS Sums, FiniteSets

CONSTANT Word   \* The values of a uint64_t.

ASSUME ReportsAssumption == Word \in Nat \ {0}

\* save_events_per_second: a line for each second, the empty ones included.
EventsPerSecond(seconds) ==
    LET start == seconds[1]
        Line(second, n) == [second |-> (second - start) % Word, count |-> n]
        Closed(book) == Append(book.lines, Line(book.second, book.count))
        Event(book, t) ==
            IF t = book.second THEN [book EXCEPT !.count = @ + 1]
            ELSE [second |-> t, count |-> 1, lines |->
                    Closed(book) \o [k \in 1 .. t - book.second - 1 |-> Line(book.second + k, 0)]]
        after[k \in 0 .. Len(seconds)] ==
            IF k = 0 THEN [second |-> start, count |-> 0, lines |-> <<>>]
            ELSE Event(after[k - 1], seconds[k])
    IN Closed(after[Len(seconds)])

\* The name of each kind of request in the file of latencies.
NameOf(kind) ==
    <<"GET_INDEX", "POST_CURRENCY", "GET_PRODUCT", "GET_CART", "POST_CART",
      "POST_CHECKOUT">>[kind + 1]

\* save_latencies: each latency under the name of its kind of request.
Latencies(latencies, types) ==
    [k \in 1 .. Len(types) |-> [name |-> NameOf(types[k]), latency |-> latencies[k]]]

\* The place of a latency among the others: those that are alike stay in order.
Rank(latencies, i) ==
    Cardinality({k \in DOMAIN latencies : \/ latencies[k] < latencies[i]
                                          \/ latencies[k] = latencies[i] /\ k <= i})

\* qsort: what is at a place is the latency whose place it is.
InOrder(latencies) ==
    [place \in 1 .. Len(latencies) |->
        latencies[CHOOSE i \in DOMAIN latencies : Rank(latencies, i) = place]]

\* print_stats: the latencies in order, and the places of the percentiles.
Stats(latencies) ==
    LET n == Len(latencies)
        copy == InOrder(latencies)
        Place(percent) == ((percent * (n - 1)) \div 100) + 1
    IN IF n = 0 THEN [n |-> 0]
       ELSE [n |-> n, min |-> copy[1], p50 |-> copy[Place(50)], p95 |-> copy[Place(95)],
             p99 |-> copy[Place(99)], max |-> copy[n], sum |-> SumOf(latencies)]

-----------------------------------------------------------------------------
(* Of events in order there is a line for every second from the first to   *)
(* the last, the empty ones included, with as many as there were in it.    *)
EventsAreCounted(seconds) ==
    LET first == seconds[1]
        last == seconds[Len(seconds)]
        file == EventsPerSecond(seconds)
    IN (\A i \in 2 .. Len(seconds) : seconds[i - 1] <= seconds[i]) =>
        file = [k \in 1 .. last - first + 1 |->
                  [second |-> k - 1,
                   count  |-> Cardinality({i \in DOMAIN seconds : seconds[i] = first + k - 1})]]

(* A percentile is one of the latencies, with no more than its share of    *)
(* them below it, and at least its share no longer than it.                *)
RanksAreRight(latencies) ==
    LET n == Len(latencies)
        stats == Stats(latencies)
        Share(x, percent) ==
            /\ \E i \in 1 .. n : latencies[i] = x
            /\ 100 * Cardinality({i \in 1 .. n : latencies[i] < x}) <= percent * n
            /\ 100 * Cardinality({i \in 1 .. n : latencies[i] <= x}) >= percent * (n - 1)
    IN  n > 0 => /\ Share(stats.min, 0) /\ Share(stats.max, 100)
                 /\ Share(stats.p50, 50) /\ Share(stats.p95, 95) /\ Share(stats.p99, 99)
=============================================================================
