------------------------------ MODULE Sketches ------------------------------
(* The bounded-memory operators: top_k (count-min sketch and heap),        *)
(* n_unique (array, hash set, HyperLogLog), quantile (UDDSketch) and       *)
(* entropy (capped histogram), with their promotions from the exact to the *)
(* approximate form, the merge of the buckets of a window, and a snapshot  *)
(* that is restored by another process (crates/beava-core/src/sketches).   *)
(* The numeric estimate that HyperLogLog reads off its registers is left   *)
(* out; the registers are modelled.                                        *)
EXTENDS Integers, Sequences, FiniteSets
LOCAL INSTANCE SequencesExt
LOCAL INSTANCE FiniteSetsExt
LOCAL INSTANCE Folds

CONSTANTS
    Kinds,             \* the operators under check
    Values,            \* the values of the field: integers in their sort order
    MaxEvents,         \* bound on the events
    MaxBuckets,        \* bound on the buckets of the window
    Seeds,             \* hash seeds a process may draw; a restart draws one
    Cols,              \* Cols[seed][row][v]: the counter of v in a row of the sketch
    K,                 \* size of the top-k heap
    TopKThreshold,     \* distinct values counted exactly
    Registers,         \* Registers[v] = <<index, rank>> of v's hash in the HLL
    ArrayThreshold,    \* distinct hashes kept in the sorted array
    SetThreshold,      \* distinct hashes kept in the hash set
    ValuesThreshold,   \* values kept as they are by quantile
    UddCap,            \* max_buckets of the quantile sketch
    KeyOffset,         \* v stands for sign(v) * gamma^(|v| - KeyOffset), 0 for 0
    Quantiles,         \* probabilities under check, as <<numerator, denominator>>
    MaxCategories,     \* categories of an entropy histogram
    Other              \* the category "__beava_other__"

VARIABLES
    seed,      \* of ahash_random_state, drawn once per process
    buckets,   \* kind -> the states of the window's buckets, oldest first
    hist       \* the values of each bucket, in order

vars == <<seed, buckets, hist>>

Empty == <<>>
Plus(f, x, n) ==
    [y \in DOMAIN f \union {x} |-> (IF y \in DOMAIN f THEN f[y] ELSE 0) + (IF y = x THEN n ELSE 0)]
Ascending(S) == SetToSortSeq(S, LAMBDA x, y : x < y)

-----------------------------------------------------------------------------
\* CountMinSketch: one counter per row and column

Rows(s) == DOMAIN Cols[s]
CmsNew(s) == [r \in Rows(s) |-> Empty]
Cell(row, c) == IF c \in DOMAIN row THEN row[c] ELSE 0

CmsUpdate(s, cms, v, n) == [r \in Rows(s) |-> Plus(cms[r], Cols[s][r][v], n)]

CmsEstimate(s, cms, v) == Min({Cell(cms[r], Cols[s][r][v]) : r \in Rows(s)})

CmsMerge(a, b) ==
    [r \in DOMAIN a |-> FoldSet(LAMBDA c, row : Plus(row, c, b[r][c]), a[r], DOMAIN b[r])]

-----------------------------------------------------------------------------
\* TopKHeap: a min-heap of <<count, value>>, position i's children at 2i and
\* 2i + 1, and an index from value to position

HeapNew == [heap |-> <<>>, index |-> Empty, ready |-> TRUE]
Positions(heap) ==
    [v \in {heap[i][2] : i \in DOMAIN heap} |-> CHOOSE i \in DOMAIN heap : heap[i][2] = v]
EnsureIndex(h) == IF h.ready THEN h ELSE [h EXCEPT !.index = Positions(h.heap), !.ready = TRUE]

Put(index, v, i) == [w \in DOMAIN index \union {v} |-> IF w = v THEN i ELSE index[w]]
\* Mutant: the entry that moves away is not reindexed
SwapOneSide(h, a, b) ==
    [h EXCEPT !.heap = [h.heap EXCEPT ![a] = h.heap[b], ![b] = h.heap[a]],
              !.index = Put(h.index, h.heap[b][2], a)]
Swap(h, a, b) ==
    [h EXCEPT !.heap = [h.heap EXCEPT ![a] = h.heap[b], ![b] = h.heap[a]],
              !.index = Put(Put(h.index, h.heap[b][2], a), h.heap[a][2], b)]

RECURSIVE SiftUp(_, _)
SiftUp(h, i) ==
    IF i > 1 /\ h.heap[i][1] < h.heap[i \div 2][1]
    THEN SiftUp(Swap(h, i, i \div 2), i \div 2) ELSE h

RECURSIVE SiftDown(_, _)
SiftDown(h, i) ==
    LET lighter == {c \in {2 * i, 2 * i + 1} \intersect DOMAIN h.heap : h.heap[c][1] < h.heap[i][1]}
        least == {c \in lighter : \A d \in lighter : h.heap[c][1] <= h.heap[d][1]}
    IN  IF lighter = {} THEN h ELSE SiftDown(Swap(h, i, Min(least)), Min(least))

Without(index, v) == [w \in DOMAIN index \ {v} |-> index[w]]
\* Mutant: a value must outweigh the root by two to replace it
OutweighsByTwo(n, h) == n > h.heap[1][1] + 1
Outweighs(n, h) == n > h.heap[1][1]
InsertOrBump(h0, v, n) ==
    LET h == EnsureIndex(h0)
        last == Len(h.heap) + 1
        Weigh(g, i) == [g EXCEPT !.heap = [g.heap EXCEPT ![i] = <<n, v>>]]
    IN  CASE v \in DOMAIN h.index ->
                LET i == h.index[v] IN
                IF n < h.heap[i][1] THEN SiftUp(Weigh(h, i), i) ELSE SiftDown(Weigh(h, i), i)
          [] v \notin DOMAIN h.index /\ last <= K ->
                SiftUp([h EXCEPT !.heap = Append(@, <<n, v>>), !.index = Put(@, v, last)], last)
          [] v \notin DOMAIN h.index /\ last > K ->
                IF Outweighs(n, h)
                THEN SiftDown([Weigh(h, 1) EXCEPT !.index = Put(Without(@, h.heap[1][2]), v, 1)], 1)
                ELSE h

HeapTop(h) ==
    LET heavier(x, y) == x[1] > y[1] \/ (x[1] = y[1] /\ x[2] < y[2])
    IN  [i \in DOMAIN h.heap |-> SortSeq(h.heap, heavier)[i][2]]

-----------------------------------------------------------------------------
\* TopKState: exact counts, then the sketch and the heap

TopKNew == [mode |-> "exact", counts |-> Empty]
Refresh(s, cms, h, vs) ==
    FoldLeft(LAMBDA g, v : InsertOrBump(g, v, CmsEstimate(s, cms, v)), h, vs)

\* promote_to_hybrid
ToHybrid(s, st) ==
    LET vs == Ascending(DOMAIN st.counts)
        cms == FoldLeft(LAMBDA c, v : CmsUpdate(s, c, v, st.counts[v]), CmsNew(s), vs)
    IN  [mode |-> "hybrid", cms |-> cms, heap |-> Refresh(s, cms, HeapNew, vs)]

TopKPromoted(s, st) ==
    IF st.mode = "exact" /\ Cardinality(DOMAIN st.counts) > TopKThreshold THEN ToHybrid(s, st) ELSE st

TopKInsert(s, st, v) ==
    IF st.mode = "exact" THEN TopKPromoted(s, [st EXCEPT !.counts = Plus(@, v, 1)])
    ELSE LET cms == CmsUpdate(s, st.cms, v, 1)
         IN  [st EXCEPT !.cms = cms, !.heap = InsertOrBump(@, v, CmsEstimate(s, cms, v))]

\* The heap's own values, weighed again after a merge.
\* Mutant: they keep the weights of before
OwnRefreshNot(s, cms, h) == h
OwnRefresh(s, cms, h) == Refresh(s, cms, h, HeapTop(h))
TopKMerge(s, a, b) ==
    LET x == IF a.mode = "exact" /\ b.mode = "hybrid" THEN ToHybrid(s, a) ELSE a IN
    CASE x.mode = "exact" ->
            TopKPromoted(s, [x EXCEPT !.counts =
                FoldSet(LAMBDA v, c : Plus(c, v, b.counts[v]), @, DOMAIN b.counts)])
      [] x.mode = "hybrid" ->
            LET cms == IF b.mode = "hybrid" THEN CmsMerge(x.cms, b.cms)
                       ELSE FoldSet(LAMBDA v, c : CmsUpdate(s, c, v, b.counts[v]), x.cms, DOMAIN b.counts)
                theirs == IF b.mode = "hybrid" THEN HeapTop(b.heap) ELSE Ascending(DOMAIN b.counts)
            IN  [x EXCEPT !.cms = cms, !.heap = Refresh(s, cms, OwnRefresh(s, cms, @), theirs)]

\* What the snapshot keeps of the state: the index is not written.
TopKRestored(st) ==
    IF st.mode = "exact" THEN st ELSE [st EXCEPT !.heap.index = Empty, !.heap.ready = FALSE]

-----------------------------------------------------------------------------
\* CountDistinctState; a value stands for its 64-bit hash

DistinctNew == [mode |-> "array", hashes |-> {}]
AddRegister(regs, v) ==
    LET i == Registers[v][1]
        rank == Registers[v][2]
    IN  [j \in DOMAIN regs \union {i} |->
            IF j = i THEN Max({rank} \union {regs[x] : x \in {i} \intersect DOMAIN regs}) ELSE regs[j]]
ToHll(st) ==
    IF st.mode = "hll" THEN st
    ELSE [mode |-> "hll", regs |-> FoldSet(LAMBDA v, r : AddRegister(r, v), Empty, st.hashes)]

AddHash(st, v) ==
    IF st.mode = "hll" THEN [st EXCEPT !.regs = AddRegister(@, v)]
    ELSE LET hashes == st.hashes \union {v} IN
         CASE st.mode = "array" /\ Cardinality(hashes) > ArrayThreshold -> [mode |-> "set", hashes |-> hashes]
           [] st.mode = "set" /\ Cardinality(hashes) > SetThreshold -> ToHll([st EXCEPT !.hashes = hashes])
           [] OTHER -> [st EXCEPT !.hashes = hashes]

\* Mutant: a register is overwritten instead of raised
HllMergeOverwrite(a, b) == [j \in DOMAIN a \union DOMAIN b |-> IF j \in DOMAIN b THEN b[j] ELSE a[j]]
HllMerge(a, b) ==
    [j \in DOMAIN a \union DOMAIN b |->
        Max({a[x] : x \in {j} \intersect DOMAIN a} \union {b[x] : x \in {j} \intersect DOMAIN b})]
DistinctMerge(a, b) ==
    IF b.mode = "hll" THEN [mode |-> "hll", regs |-> HllMerge(ToHll(a).regs, b.regs)]
    ELSE FoldSet(LAMBDA v, st : AddHash(st, v), a, b.hashes)

-----------------------------------------------------------------------------
\* UDDSketch: counts per power of gamma, coarser by a square at every collapse

Magnitude(v) == IF v < 0 THEN -v ELSE v
BucketKey(v, c) == (Magnitude(v) - KeyOffset) \div 2^c
UddNew == [collapses |-> 0, pos |-> Empty, neg |-> Empty, zero |-> 0, total |-> 0]
Size(u) == Cardinality(DOMAIN u.pos) + Cardinality(DOMAIN u.neg)

Halve(f) == FoldSet(LAMBDA k, g : Plus(g, k \div 2, f[k]), Empty, DOMAIN f)
Collapse(u) ==
    [u EXCEPT !.collapses = @ + 1, !.pos = Halve(@), !.neg = Halve(@)]
Capped(u) == IF Size(u) > UddCap THEN Collapse(u) ELSE u

UddInsert(u, v) ==
    LET n == [u EXCEPT !.total = @ + 1]
        k == BucketKey(v, u.collapses)
    IN  CASE v = 0 -> [n EXCEPT !.zero = @ + 1]
          [] v > 0 -> Capped([n EXCEPT !.pos = Plus(@, k, 1)])
          [] v < 0 -> Capped([n EXCEPT !.neg = Plus(@, k, 1)])

RECURSIVE CollapsedTo(_, _)
CollapsedTo(u, c) == IF u.collapses < c THEN CollapsedTo(Collapse(u), c) ELSE u
\* Mutant: the finer sketch is not collapsed to the coarser one's buckets
AlignedNot(u, c) == u
Aligned(u, c) == CollapsedTo(u, c)
UddMerge(a0, b0) ==
    LET a == Aligned(a0, b0.collapses)
        b == Aligned(b0, a0.collapses)
        Add(f, g) == FoldSet(LAMBDA k, h : Plus(h, k, g[k]), f, DOMAIN g)
    IN  Capped([a EXCEPT !.pos = Add(@, b.pos), !.neg = Add(@, b.neg),
                         !.zero = @ + b.zero, !.total = @ + b.total])

NegRuns(u) ==
    LET ks == Reverse(Ascending(DOMAIN u.neg)) IN [i \in DOMAIN ks |-> <<"neg", ks[i], u.neg[ks[i]]>>]
PosRuns(u) ==
    LET ks == Ascending(DOMAIN u.pos) IN [i \in DOMAIN ks |-> <<"pos", ks[i], u.pos[ks[i]]>>]

\* quantile: the bucket that holds the rank
Rank(q, n) == (q[1] * (n - 1)) \div q[2]
UddQuantile(u, q) ==
    LET runs == NegRuns(u) \o (IF u.zero > 0 THEN <<<<"zero", 0, u.zero>>>> ELSE <<>>) \o PosRuns(u)
        Upto(i) == FoldLeft(LAMBDA n, r : n + r[3], 0, SubSeq(runs, 1, i))
    IN  runs[Min({i \in DOMAIN runs : Upto(i) > Rank(q, u.total)})]

-----------------------------------------------------------------------------
\* PercentileState

PercentileNew == [mode |-> "exact", values |-> <<>>]
ToSketch(st) ==
    IF st.mode = "sketch" THEN st
    ELSE [mode |-> "sketch", udd |-> FoldLeft(UddInsert, UddNew, st.values)]
PercentilePromoted(st) ==
    IF st.mode = "exact" /\ Len(st.values) > ValuesThreshold THEN ToSketch(st) ELSE st
PercentileInsert(st, v) ==
    IF st.mode = "exact" THEN PercentilePromoted([st EXCEPT !.values = Append(@, v)])
    ELSE [st EXCEPT !.udd = UddInsert(@, v)]
PercentileMerge(a, b) ==
    LET x == IF b.mode = "sketch" THEN ToSketch(a) ELSE a IN
    CASE x.mode = "exact" -> PercentilePromoted([x EXCEPT !.values = @ \o b.values])
      [] x.mode = "sketch" /\ b.mode = "sketch" -> [x EXCEPT !.udd = UddMerge(@, b.udd)]
      [] x.mode = "sketch" /\ b.mode = "exact" -> [x EXCEPT !.udd = FoldLeft(UddInsert, @, b.values)]

-----------------------------------------------------------------------------
\* EntropyHistogram behind the cap of EntropyStateWrap

EntropyNew == [counts |-> Empty, total |-> 0, spill |-> 0]
HistogramInsert(h, c) ==
    LET n == [h EXCEPT !.total = @ + 1]
        known == c \in DOMAIN h.counts
        spills == Other \in DOMAIN h.counts \/ Cardinality(DOMAIN h.counts) >= MaxCategories
    IN  IF ~known /\ spills
        THEN [n EXCEPT !.spill = @ + 1, !.counts = Plus(@, Other, 1)]
        ELSE [n EXCEPT !.counts = Plus(@, c, 1)]
\* Mutant: the cap is checked after the category is counted in the total
InsertGuardedLate(h, c) ==
    IF Cardinality(DOMAIN h.counts) >= MaxCategories /\ c \notin DOMAIN h.counts
    THEN [h EXCEPT !.total = @ + 1] ELSE HistogramInsert(h, c)
InsertGuarded(h, c) ==
    IF Cardinality(DOMAIN h.counts) >= MaxCategories /\ c \notin DOMAIN h.counts
    THEN h ELSE HistogramInsert(h, c)
EntropyMerge(a, b) ==
    [counts |-> FoldSet(LAMBDA c, f : Plus(f, c, b.counts[c]), a.counts, DOMAIN b.counts),
     total |-> a.total + b.total, spill |-> a.spill + b.spill]

-----------------------------------------------------------------------------
\* The window's buckets

Fresh(k) ==
    CASE k = "top_k" -> TopKNew [] k = "n_unique" -> DistinctNew
      [] k = "quantile" -> PercentileNew [] k = "entropy" -> EntropyNew
Insert(k, st, v) ==
    CASE k = "top_k" -> TopKInsert(seed, st, v) [] k = "n_unique" -> AddHash(st, v)
      [] k = "quantile" -> PercentileInsert(st, v) [] k = "entropy" -> InsertGuarded(st, v)
Merge(k, a, b) ==
    CASE k = "top_k" -> TopKMerge(seed, a, b) [] k = "n_unique" -> DistinctMerge(a, b)
      [] k = "quantile" -> PercentileMerge(a, b) [] k = "entropy" -> EntropyMerge(a, b)
Restored(k, st) == IF k = "top_k" THEN TopKRestored(st) ELSE st

Init ==
    /\ seed \in Seeds
    /\ buckets = [k \in Kinds |-> <<Fresh(k)>>]
    /\ hist = <<<<>>>>

Push(v) ==
    /\ Len(FlattenSeq(hist)) < MaxEvents
    /\ LET n == Len(hist) IN
        /\ buckets' = [k \in Kinds |-> [buckets[k] EXCEPT ![n] = Insert(k, @, v)]]
        /\ hist' = [hist EXCEPT ![n] = Append(@, v)]
    /\ UNCHANGED seed

\* The clock enters the next bucket of the window.
OpenBucket ==
    /\ Len(hist) < MaxBuckets
    /\ hist[Len(hist)] # <<>>
    /\ buckets' = [k \in Kinds |-> Append(buckets[k], Fresh(k))]
    /\ hist' = Append(hist, <<>>)
    /\ UNCHANGED seed

\* A snapshot of the tables, read by the next process.
Restart ==
    /\ seed' \in Seeds \ {seed}
    /\ buckets' = [k \in Kinds |-> [i \in DOMAIN buckets[k] |-> Restored(k, buckets[k][i])]]
    /\ UNCHANGED hist

Next == (\E v \in Values : Push(v)) \/ OpenBucket \/ Restart
Spec == Init /\ [][Next]_vars

\* The windowed query merges the buckets, oldest first, into a copy of the first.
Merged(k) == FoldLeft(LAMBDA a, b : Merge(k, a, b), buckets[k][1], Tail(buckets[k]))

-----------------------------------------------------------------------------

All == FlattenSeq(hist)
Count(h, v) == Len(SelectSeq(h, LAMBDA x : x = v))
Seen(h) == {h[i] : i \in DOMAIN h}
Sum(f) == MapThenSumSet(LAMBDA x : f[x], DOMAIN f)
Lightest(h) == h.heap[1][1]

\* The heap is ordered, its root the lightest, its values distinct, and the
\* index, once it is built, finds each of them.
HeapCoherent(h) ==
    /\ Len(h.heap) <= K
    /\ \A i \in DOMAIN h.heap : i > 1 => h.heap[i \div 2][1] <= h.heap[i][1]
    /\ Cardinality({h.heap[i][2] : i \in DOMAIN h.heap}) = Len(h.heap)
    /\ h.ready => h.index = Positions(h.heap)

States == {<<buckets["top_k"][i], hist[i]>> : i \in DOMAIN hist} \union {<<Merged("top_k"), All>>}

(* In every bucket and in the merged window, before and after a restart    *)
(* that loses the index: the heap and its index never come apart.          *)
HeapsCoherent == \A x \in States : x[1].mode = "hybrid" => HeapCoherent(x[1].heap)

(* Within one process the counts of top_k are exact up to the threshold    *)
(* and afterwards never too small, in every bucket and in the merged       *)
(* window.                                                                 *)
TopKSound ==
    \A x \in States :
        LET st == x[1]
            h == x[2]
        IN  IF st.mode = "exact" THEN st.counts = [v \in Seen(h) |-> Count(h, v)]
            ELSE /\ \A v \in Values : CmsEstimate(seed, st.cms, v) >= Count(h, v)
                 /\ \A i \in DOMAIN st.heap.heap : st.heap.heap[i][1] >= Count(h, st.heap.heap[i][2])

Heavy(st, h) ==
    st.mode = "hybrid" =>
        \A v \in Seen(h) : \/ \E i \in DOMAIN st.heap.heap : st.heap.heap[i][2] = v
                          \/ (Len(st.heap.heap) = K /\ Count(h, v) <= Lightest(st.heap))

(* A value that one bucket's heap does not list is no more frequent than   *)
(* the lightest one it lists.                                              *)
HeavyKept == \A i \in DOMAIN hist : Heavy(buckets["top_k"][i], hist[i])

(* n_unique is exact up to the threshold; beyond it, however the window    *)
(* was cut into buckets, the registers are those of one sketch that saw    *)
(* every value.                                                            *)
DistinctOfUnion ==
    LET st == Merged("n_unique") IN
    IF st.mode = "hll" THEN st.regs = FoldSet(LAMBDA v, r : AddRegister(r, v), Empty, Seen(All))
    ELSE st.hashes = Seen(All) /\ Cardinality(st.hashes) <= SetThreshold

\* The values of h as the quantile state st holds them.
HoldsExactly(st, h) ==
    LET u == st.udd
        InBucket(v, b) ==
            CASE b[1] = "pos" -> v > 0 /\ BucketKey(v, u.collapses) = b[2]
              [] b[1] = "neg" -> v < 0 /\ BucketKey(v, u.collapses) = b[2]
              [] b[1] = "zero" -> v = 0
        Sorted == SortSeq(h, LAMBDA x, y : x < y)
    IN  IF st.mode = "exact" THEN st.values = h
        ELSE /\ u.total = Len(h) /\ u.total = Sum(u.pos) + Sum(u.neg) + u.zero
             /\ \A b \in Seen(NegRuns(u) \o PosRuns(u)) :
                    b[3] = Len(SelectSeq(h, LAMBDA v : InBucket(v, b)))
             /\ \A q \in Quantiles : InBucket(Sorted[Rank(q, Len(h)) + 1], UddQuantile(u, q))

(* Whatever collapses and merges led to it, the quantile sketch holds for  *)
(* every bucket exactly the values that fall into it, and a quantile names *)
(* the bucket of the value with that rank.                                 *)
UddExact == HoldsExactly(Merged("quantile"), All)

(* A category of a bucket is counted at all of its events or at none, and  *)
(* the total that the shares are taken of counts exactly those events.     *)
CategoriesExact ==
    /\ \A i \in DOMAIN hist :
        LET h == buckets["entropy"][i] IN
        \A c \in DOMAIN h.counts : h.counts[c] = Count(hist[i], c)
    /\ LET h == Merged("entropy") IN h.total = Sum(h.counts)

=============================================================================
