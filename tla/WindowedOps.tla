---------------------------- MODULE WindowedOps -----------------------------
(***************************************************************************)
(* Aggregations over a rolling window (agg_windowed.rs): an operator of    *)
(* AggOps per bucket of time, at most MaxBuckets of them, merged when the  *)
(* feature is read.  The kinds with a sketch inside are merged the same    *)
(* way (see Sketches).                                                     *)
(*                                                                         *)
(* `ops` holds, for every kind, the list of its buckets <<epoch, state>>   *)
(* in the order they are kept in.                                          *)
(***************************************************************************)
EXTENDS AggOps
LOCAL INSTANCE SequencesExt

CONSTANT MaxBuckets   \* 64 in the code

\* Mutant: the bucket is rounded down.
BucketMsFloor == IF Window < MaxBuckets THEN 1 ELSE Window \div MaxBuckets
\* new_with_params: div_ceil
BucketMs == (Window + MaxBuckets - 1) \div MaxBuckets
Epoch(t) == (t \div BucketMs) * BucketMs

\* evict_oldest_bucket: swap_remove puts the last bucket in the place of the oldest
\* Mutant: the last bucket stays where it was, too.
EvictOldestCopies(b) ==
    LET i == CHOOSE i \in DOMAIN b : \A j \in DOMAIN b : b[i][1] <= b[j][1] IN
    [b EXCEPT ![i] = b[Len(b)]]
EvictOldest(b) ==
    LET i == CHOOSE i \in DOMAIN b : \A j \in DOMAIN b : b[i][1] <= b[j][1] IN
    SubSeq([b EXCEPT ![i] = b[Len(b)]], 1, Len(b) - 1)

\* update, update_with_row, update_at: an event whose predicate fails opens its
\* bucket like any other
WindowedUpdate(k, b, e) ==
    LET At == {i \in DOMAIN b : b[i][1] = Epoch(e.t)} IN
    IF At # {} THEN [b EXCEPT ![CHOOSE i \in At : TRUE][2] = UpdateOp(k, @, e)]
    ELSE Append(IF Len(b) >= MaxBuckets THEN EvictOldest(b) ELSE b,
                <<Epoch(e.t), UpdateOp(k, Fresh(k), e)>>)

\* Mutant: a bucket as old as the window is still read.
ActiveClosed(epoch, q) == q - epoch >= 0 /\ q - epoch <= Window
Active(epoch, q) == q - epoch >= 0 /\ q - epoch < Window

\* The pairwise merge of two Welford states
\* Mutant: the distance between the two means is left out.
MergeVarianceNear(a, b) ==
    IF b.n = 0 THEN a
    ELSE LET n == a.n + b.n d == Minus(b.mean, a.mean) IN
         [n |-> n, mean |-> Plus(a.mean, Over(Times(d, Whole(b.n)), Whole(n))),
          m2 |-> Plus(a.m2, b.m2)]
MergeVariance(a, b) ==
    IF b.n = 0 THEN a
    ELSE LET n == a.n + b.n
             d == Minus(b.mean, a.mean)
         IN  [n |-> n, mean |-> Plus(a.mean, Over(Times(d, Whole(b.n)), Whole(n))),
              m2 |-> Plus(Plus(a.m2, b.m2), Times(Times(d, d), Frac(a.n * b.n, n)))]

MergeOp(k, a, b) ==
    CASE k = "count" -> a + b
      [] k \in {"sum", "avg"} -> [total |-> Plus(a.total, b.total), n |-> a.n + b.n]
      [] k = "min" -> IF Known(b) /\ (~Known(a) \/ ValueLt(b[1], a[1])) THEN b ELSE a
      [] k = "max" -> IF Known(b) /\ (~Known(a) \/ ValueLt(a[1], b[1])) THEN b ELSE a
      [] k \in {"variance", "stddev"} -> MergeVariance(a, b)
      [] k = "ratio" -> [matching |-> a.matching + b.matching, total |-> a.total + b.total]

\* query: the active buckets merged
WindowedQuery(k, b, q) ==
    LET live == SelectSeq(b, LAMBDA x : Active(x[1], q)) IN
    QueryOp(k, FoldLeft(LAMBDA a, x : MergeOp(k, a, x[2]), Fresh(k), live), q)

-----------------------------------------------------------------------------

WInit == ops = [k \in Kinds |-> <<>>] /\ hist = <<>> /\ now = StartTime

WArrive(v, d, w) ==
    LET e == [v |-> v, t |-> now + d, w |-> w, p |-> <<>>, j |-> 0] IN
    /\ Len(hist) < MaxEvents
    /\ now' = now + d
    /\ hist' = Append(hist, e)
    /\ ops' = [k \in Kinds |-> WindowedUpdate(k, ops[k], e)]

WNext == \E v \in Values, d \in Steps, w \in BOOLEAN : WArrive(v, d, w)

WSpec == WInit /\ [][WNext]_vars

-----------------------------------------------------------------------------

QueryTimes == now .. now + Window
\* The events of the buckets that are read at time q, in one operator.
OnePass(k, q) ==
    LET seen == SelectSeq(hist, LAMBDA e : Active(Epoch(e.t), q)) IN
    QueryOp(k, FoldLeft(LAMBDA s, e : UpdateOp(k, s, e), Fresh(k), seen), q)

(* While the clock runs forward, the merged buckets answer what a single   *)
(* operator fed with the same events answers, for every kind: the cap of   *)
(* MaxBuckets never evicts a bucket that is still read, and the merges     *)
(* (the pairwise variance, the extremes) are exact.                        *)
MergedExact == \A k \in Kinds, q \in QueryTimes : WindowedQuery(k, ops[k], q) = OnePass(k, q)

(* The window is right up to one bucket: no event as old as the window is  *)
(* counted, and every event younger than the window less a bucket is.      *)
WindowTight ==
    \A q \in QueryTimes :
        LET n == WindowedQuery("count", ops["count"], q)[2]
            Younger(age) == Len(SelectSeq(Matched, LAMBDA e : q - e.t < age))
        IN  Younger(Window - BucketMs + 1) <= n /\ n <= Younger(Window)

(* Whatever the clock does: no more buckets than the cap and never two of  *)
(* the same epoch, and a count may lose events of evicted buckets but      *)
(* never counts one twice.                                                 *)
BucketsBounded ==
    /\ \A k \in Kinds :
        /\ Len(ops[k]) <= MaxBuckets
        /\ \A i, j \in DOMAIN ops[k] : ops[k][i][1] = ops[k][j][1] => i = j
    /\ \A q \in (now - 2) .. (now + Window) :
        WindowedQuery("count", ops["count"], q)[2] <= OnePass("count", q)[2]

=============================================================================
