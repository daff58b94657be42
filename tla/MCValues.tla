------------------------------ MODULE MCValues -------------------------------
(***************************************************************************)
(* What becomes of the values of events: the operators of AggOps, the      *)
(* windows of WindowedOps, the sketches of Sketches and the tables of      *)
(* StateTable, each alone and from its own initial state.  bench says      *)
(* which one runs and with which constants; the variables are shared, and  *)
(* those a module does not have keep their first value.                    *)
(***************************************************************************)
EXTENDS Integers, Sequences, TLC

VARIABLES bench, state, past, clock, seed, last, snap, restarts

all == <<bench, state, past, clock, seed, last, snap, restarts>>

I(n) == <<"i64", n>>
Word(w) == <<"str", <<"word", w>>>>

\* Operators and windows: kinds, field values, positions, clock steps, random
\* draws, number of events, allowlist and window.
Of(kinds, values, steps, max) ==
    [kinds |-> kinds, values |-> values, points |-> {<<>>}, steps |-> steps, draws |-> {0},
     max |-> max, categories |-> {}, window |-> 3]

Recency == {"first_seen", "last_seen", "age", "has_seen", "time_since", "time_since_last_n",
            "streak", "max_streak", "negative_streak", "first_seen_in_window"}
Decay == {"ewma", "ewvar", "ew_zscore", "decayed_sum", "decayed_count", "twa"}
Shapes == {"histogram", "hour_of_day_histogram", "dow_hour_histogram", "seasonal_deviation",
           "event_type_mix"}
Core == {"count", "sum", "avg", "min", "max", "variance", "stddev", "ratio"}
Signed == {I(-2), I(0), I(3)}
\* Categories that print alike, and values on both sides of the edges.
Tags == {I(1), <<"str", "1">>, <<"f64", 4>>, I(-3)}

OpBench ==
    [core |-> Of(Core, {I(1), I(3), <<"null">>}, {1}, 5),
     buffers |-> [Of({"first", "last", "first_n", "last_n", "lag", "delta_from_prev",
                      "value_change_count", "most_recent_n", "reservoir_sample"},
                     {I(1), I(2), <<"str", "x">>, <<"absent">>}, {1}, 4) EXCEPT !.draws = {0, 2}],
     recency |-> Of(Recency, {I(1)}, {0, 1, 2}, 5),
     recency_clock |-> Of(Recency, {I(1)}, {-2, 1}, 6),
     decay |-> Of(Decay, Signed, {0, 1, 2}, 3),
     decay_clock |-> Of(Decay, Signed, {-2, 1}, 4),
     velocity |-> Of({"rate_of_change", "inter_arrival_stats", "burst_count", "trend",
                      "trend_residual", "outlier_count", "z_score"}, {I(-2), I(3)}, {0, 1, 3}, 4),
     shapes |-> Of(Shapes, Tags, {0, 3}, 4),
     shapes_allowed |-> [Of(Shapes, Tags, {0, 3}, 3) EXCEPT !.categories = {"1"}],
     geo |-> [Of({"geo_velocity", "geo_distance", "geo_spread", "distance_from_home"},
                 {I(1)}, {0, 2}, 4) EXCEPT !.points = {<<>>, <<-2>>, <<0>>, <<3>>}]]

Op(b) == INSTANCE AggOps WITH ops <- state, hist <- past, now <- clock,
    Kinds <- OpBench[b].kinds, Values <- OpBench[b].values, Points <- OpBench[b].points,
    Steps <- OpBench[b].steps, Draws <- OpBench[b].draws, MaxEvents <- OpBench[b].max,
    Categories <- OpBench[b].categories, StartTime <- 0, N <- 2, Window <- OpBench[b].window, HalfLife <- 1,
    SubWindow <- 2, Sigma <- 1, Edges <- <<0, 2>>, MaxCategories <- 2, MinBaseline <- 2,
    BurstSlots <- 2, HourMs <- 1, DayHours <- 2, WeekDays <- 7

\* Windows of three buckets: every core kind, long enough that buckets are
\* evicted, and with a clock that is set back.
WinBench ==
    [win |-> [Of(Core, {I(-2), I(3)}, {1, 3}, 4) EXCEPT !.window = 7],
     win_cap |-> [Of({"count"}, {I(1)}, {1, 2}, 7) EXCEPT !.window = 7],
     win_clock |-> [Of({"count", "ratio"}, {I(1)}, {-3, 1, 2}, 6) EXCEPT !.window = 4]]

Win(b) == INSTANCE WindowedOps WITH ops <- state, hist <- past, now <- clock,
    Kinds <- WinBench[b].kinds, Values <- WinBench[b].values, Steps <- WinBench[b].steps,
    MaxEvents <- WinBench[b].max, Window <- WinBench[b].window, MaxBuckets <- 3,
    Points <- {<<>>}, Draws <- {0}, Categories <- {}, StartTime <- 1, N <- 2, HalfLife <- 1,
    SubWindow <- 2, Sigma <- 1, Edges <- <<0, 2>>, MaxCategories <- 2, MinBaseline <- 2,
    BurstSlots <- 2, HourMs <- 1, DayHours <- 2, WeekDays <- 7

\* Sketches: two hash functions per seed.  Under seed 1 the values 1 and 2 share
\* a counter of the first row and 2 and 3 one of the second, under seed 2 every
\* value has its own.
Columns ==
    <<<<(1 :> 1) @@ (2 :> 1) @@ (3 :> 2) @@ (4 :> 3), (1 :> 1) @@ (2 :> 2) @@ (3 :> 2) @@ (4 :> 3)>>,
      <<(1 :> 4) @@ (2 :> 5) @@ (3 :> 6) @@ (4 :> 7), (1 :> 4) @@ (2 :> 5) @@ (3 :> 6) @@ (4 :> 7)>>>>
Ranks == (1 :> <<1, 1>>) @@ (2 :> <<1, 3>>) @@ (3 :> <<2, 1>>) @@ (4 :> <<1, 2>>)

Summary(kind, values, max, buckets, seeds, k) ==
    [kinds |-> {kind}, values |-> values, max |-> max, buckets |-> buckets, seeds |-> seeds, k |-> k]
SketchBench ==
    [topk |-> Summary("top_k", 1 .. 4, 6, 2, {1}, 2),
     heap |-> Summary("top_k", 1 .. 4, 5, 1, {1, 2}, 3),
     distinct |-> Summary("n_unique", 1 .. 4, 5, 3, {1, 2}, 2),
     quantile |-> Summary("quantile", {-4, 0, 2, 3, 6}, 5, 2, {1, 2}, 2),
     entropy |-> Summary("entropy", 1 .. 3, 6, 3, {1, 2}, 2)]

Sketch(b) == INSTANCE Sketches WITH buckets <- state, hist <- past,
    Kinds <- SketchBench[b].kinds, Values <- SketchBench[b].values, MaxEvents <- SketchBench[b].max,
    MaxBuckets <- SketchBench[b].buckets, Seeds <- SketchBench[b].seeds, K <- SketchBench[b].k,
    Cols <- Columns, TopKThreshold <- 2, Registers <- Ranks, ArrayThreshold <- 1,
    SetThreshold <- 2, ValuesThreshold <- 2, UddCap <- 2, KeyOffset <- 3,
    Quantiles <- {<<1, 4>>, <<1, 2>>, <<9, 10>>}, MaxCategories <- 2, Other <- 9

\* Tables: a word has 8 bits, of which a key keeps 4; keys of every type, integers
\* that differ in the bits that are not kept, text keys, pairs of them, snapshots of
\* the older format, and entities that go cold.
Keyed(arity, type, values, max) ==
    [arity |-> arity, type |-> type, values |-> values, steps |-> {1}, cold |-> 0, max |-> max,
     old |-> FALSE, restarts |-> 1]
Null == <<"null", 0>>
Texts == {Word("a"), <<"str", <<"integer", 1>>>>, Null}
Ints == {I(1), I(17), I(-3), Null}
TableBench ==
    [rows |-> Keyed(1, "str", {I(1), I(-3), <<"bool", TRUE>>, <<"datetime", 1>>, Word("a"), Null}, 4),
     ints |-> Keyed(1, "i64", Ints, 4),
     ints_old |-> [Keyed(1, "i64", Ints, 4) EXCEPT !.old = TRUE],
     bools_old |-> [Keyed(1, "bool", {<<"bool", TRUE>>, <<"bool", FALSE>>}, 4) EXCEPT !.old = TRUE],
     times_old |-> [Keyed(1, "datetime", {<<"datetime", 1>>, <<"datetime", 18>>}, 4) EXCEPT !.old = TRUE],
     texts |-> Keyed(1, "str", Texts, 4),
     texts_old |-> [Keyed(1, "str", Texts, 4) EXCEPT !.old = TRUE],
     compound |-> Keyed(2, "str", Texts, 3),
     cold |-> [Keyed(1, "i64", {I(1), I(2)}, 4) EXCEPT !.steps = {-3, 2, 3}, !.cold = 2, !.restarts = 2]]

Table(b) == INSTANCE StateTable WITH table <- state, log <- past, cuts <- seed,
    KeyType <- TableBench[b].type, OldFormat <- TableBench[b].old, MaxRestarts <- TableBench[b].restarts,
    Arity <- TableBench[b].arity, KeyValues <- TableBench[b].values, Steps <- TableBench[b].steps,
    ColdAfter <- TableBench[b].cold, MaxEvents <- TableBench[b].max, Payload <- 16

-----------------------------------------------------------------------------

Ops == DOMAIN OpBench
Windows == DOMAIN WinBench
Summaries == DOMAIN SketchBench
Tables == DOMAIN TableBench

Init ==
    \/ /\ \/ \E b \in Ops : bench = b /\ Op(b)!Init
          \/ \E b \in Windows : bench = b /\ Win(b)!WInit
       /\ seed = 0 /\ last = <<>> /\ snap = <<>> /\ restarts = 0
    \/ /\ \E b \in Summaries : bench = b /\ Sketch(b)!Init
       /\ clock = 0 /\ last = <<>> /\ snap = <<>> /\ restarts = 0
    \/ \E b \in Tables : bench = b /\ Table(b)!Init

Next ==
    /\ UNCHANGED bench
    /\ \/ /\ \/ \E b \in Ops : bench = b /\ Op(b)!Next
             \/ \E b \in Windows : bench = b /\ Win(b)!WNext
          /\ UNCHANGED <<seed, last, snap, restarts>>
       \/ /\ \E b \in Summaries : bench = b /\ Sketch(b)!Next
          /\ UNCHANGED <<clock, last, snap, restarts>>
       \/ \E b \in Tables : bench = b /\ Table(b)!Next

Spec == Init /\ [][Next]_all

-----------------------------------------------------------------------------

Uncold == Tables \ {"cold"}

\* agg_state.rs: count, sum, avg, min, max, variance, stddev and ratio answer what
\* a pass over all the events computes: nulls leave all of them alone but count
\* and ratio, and Welford's running variance equals the two-pass one.
CoreExact == bench = "core" => Op("core")!CoreExact

\* agg_state.rs, agg_buffer.rs: the bounded buffers hold the first n, the last n,
\* the value n back and the changes through every wrap-around, the ring of
\* most_recent_n agrees with last_n, and a reservoir samples what did arrive.
BuffersExact == bench = "buffers" => Op("buffers")!BuffersExact

\* agg_state.rs: the recency answers agree with each other and with the streaks of
\* the history, and none is negative, also when the clock is set back.
RecencyConsistent ==
    \A b \in {"recency", "recency_clock"} : bench = b => Op(b)!RecencyConsistent

\* agg_state_decay.rs: while the clock runs forward the incremental decayed sums,
\* counts and the time-weighted mean equal their closed forms over the history.
DecayExact == bench = "decay" => Op("decay")!DecayExact

\* agg_state_decay.rs: with a clock that is set back the averages stay between the
\* smallest and the largest value, no variance is negative, and a decayed count
\* stays between one and the number of events.
AveragesBounded == bench = "decay_clock" => Op("decay_clock")!AveragesBounded

\* agg_state_velocity.rs: the one-pass trend, residual, mean gap, outliers, burst
\* and z-score equal their two-pass definitions.
VelocityExact == bench = "velocity" => Op("velocity")!VelocityExact

\* agg_buffer.rs: the histograms by value, hour and weekday lose no event and agree
\* with each other, the mix is capped and its shares are out of all events, the
\* seasonal deviation is the z-score within the hour.
ShapesExact == \A b \in {"shapes", "shapes_allowed"} : bench = b => Op(b)!ShapesExact

\* agg_geo.rs: path length, top speed, spread and distance from home equal their
\* definitions over the events that carry a position.
GeoExact == bench = "geo" => Op("geo")!GeoExact

\* agg_windowed.rs: while the clock runs forward the merged buckets answer what one
\* operator fed with the same events answers: the cap never evicts a bucket that
\* is still read, and the pairwise merges are exact.
MergedExact == \A b \in {"win", "win_cap"} : bench = b => Win(b)!MergedExact

\* agg_windowed.rs: the window is right up to one bucket, from both sides.
WindowTight == bench = "win_cap" => Win("win_cap")!WindowTight

\* agg_windowed.rs: with a clock that is set back the buckets stay within the cap,
\* one per epoch, and no event is counted twice.
BucketsBounded == bench = "win_clock" => Win("win_clock")!BucketsBounded

\* sketches/cms.rs, top_k.rs: within a process the counts of top_k are exact up to
\* the threshold and never too small afterwards, also in the merged window.
TopKSound == bench = "topk" => Sketch("topk")!TopKSound

\* sketches/cms.rs: a value that a bucket's heap does not list is no more frequent
\* than the lightest one it lists.
HeavyKept == bench = "topk" => Sketch("topk")!HeavyKept

\* sketches/cms.rs: the heap is ordered and its index finds every value, in every
\* bucket and merge, also after a restart that loses the index.
HeapsCoherent == \A b \in {"topk", "heap"} : bench = b => Sketch(b)!HeapsCoherent

\* sketches/hll.rs, count_distinct: however the window is cut into buckets, the
\* merged sketch is that of one pass, exact up to its threshold.
DistinctOfUnion == bench = "distinct" => Sketch("distinct")!DistinctOfUnion

\* sketches/uddsketch.rs: through collapses and merges every bucket holds exactly
\* the values that fall into it, and a quantile names the bucket of its rank.
UddExact == bench = "quantile" => Sketch("quantile")!UddExact

\* sketches/entropy.rs: a category is counted at all of its events or at none, and
\* the total is that of the counted ones, in a merge too.
CategoriesExact == bench = "entropy" => Sketch("entropy")!CategoriesExact

\* agg_state_table.rs: an event with a full key is in one row, and two events share
\* a row exactly when they have the same key, before and after snapshot and replay;
\* of a single integer or time only the low 60 bits count (agg_state_table.rs:214).
RowPerKey == \A b \in Uncold : bench = b => Table(b)!RowPerKey

\* agg_state_table.rs, recovery.rs: a restart from a snapshot taken anywhere, of the
\* present or the older format, and the replay of the rest, leave the table an
\* uninterrupted process would have.
TableRebuilt == \A b \in Uncold : bench = b => Table(b)!TableRebuilt

\* agg_apply.rs: with a cold threshold a row holds exactly the events since its key
\* was last idle for longer, also when the clock is set back.  A snapshot has no
\* last_seen_ms, so idle time that spans the snapshot a restart loaded is not seen.
ColdExact == bench = "cold" => Table("cold")!ColdExact

\* feature_query.rs: an event can be read back under its own key, percent-encoded,
\* from the live table and from a restored one.
ReadBack == \A b \in {"texts", "texts_old", "compound"} : bench = b => Table(b)!ReadBack


\* agg_windowed.rs: a windowed feature is the operator fed with the events of the
\* window up to one bucket, although buckets are evicted at a cap and merged in
\* pairs; with a clock that is set back no event is counted twice.
WindowsExact == MergedExact /\ WindowTight /\ BucketsBounded

\* sketches: what a bounded-memory operator guarantees holds through promotion,
\* eviction, collapse and merges of buckets in different modes; the heap of top_k
\* stays coherent through a restart too.
SketchesSound ==
    /\ TopKSound /\ HeavyKept /\ HeapsCoherent
    /\ DistinctOfUnion /\ UddExact /\ CategoriesExact

\* agg_state_table.rs, recovery.rs, feature_query.rs: each entity has a row of its
\* own with exactly its events since it was last cold, snapshot and replay rebuild
\* it under the key that later events use, and a query for a text key finds it.
\* Integers that agree in their low 60 bits are one entity, and a restart forgets
\* how long the entities of its snapshot had been idle.
TablesExact == RowPerKey /\ TableRebuilt /\ ColdExact /\ ReadBack
=============================================================================
