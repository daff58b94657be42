------------------------------- MODULE AggOps -------------------------------
(***************************************************************************)
(* The aggregation operators that keep one lifetime state per entity       *)
(* (agg_op.rs, agg_state.rs, agg_state_decay.rs, agg_state_velocity.rs,    *)
(* agg_buffer.rs, agg_geo.rs): the state each one keeps, how an event      *)
(* changes it and what it answers.  Every event of one entity is fed to    *)
(* every operator of Kinds, and the answers are compared with what the     *)
(* whole history of events says.                                           *)
(*                                                                         *)
(* An event is [v, t, w, p, j]: the value of the field, the time the       *)
(* server received it, whether its `where` predicate matched, the position *)
(* it reports and the random number a reservoir draws.  A value is         *)
(* <<"i64", n>>, <<"f64", n>>, <<"str", s>>, <<"null">> or <<"absent">>.   *)
(* Arithmetic is exact: a float is a fraction <<num, den>>, so the         *)
(* rounding of IEEE numbers is left out and an answer is either equal to   *)
(* its definition or wrong.  Positions lie on a line.  Answers are         *)
(* <<"none">>, <<"i", n>>, <<"q", r>>, <<"root", r>> for the square root   *)
(* of r, <<"z", d, v>> for d divided by the root of v, <<"b", bool>>,      *)
(* <<"list", s>> and <<"map", f>>.                                         *)
(***************************************************************************)
EXTENDS Integers, Sequences, FiniteSets, TLC
LOCAL INSTANCE SequencesExt
LOCAL INSTANCE FiniteSetsExt

CONSTANTS
    Kinds,         \* the operators the entity has
    Values,        \* values of the field
    Points,        \* reported positions: <<n>>, or <<>> when one is missing
    Steps,         \* how the server's clock may move between two events
    Draws,         \* random numbers of a reservoir
    MaxEvents,     \* bound: events of a behaviour
    StartTime,     \* the clock at the start
    N,             \* the n=, k= or samples= of the operators that take one
    Window,        \* the window= of the operators that take one
    HalfLife,      \* the half_life= of the decaying ones
    SubWindow,     \* the sub_window= of burst_count
    Sigma,         \* the sigma= of outlier_count
    Edges,         \* the buckets= of a histogram
    Categories,    \* the categories= allowlist, {} when it is not given
    MaxCategories, \* the max_categories= of event_type_mix
    MinBaseline,   \* MIN_BASELINE_N of outlier_count (5)
    BurstSlots,    \* sub-windows burst_count remembers (64)
    HourMs, DayHours, WeekDays \* the calendar (3 600 000, 24, 7)

VARIABLES
    ops,   \* the state of every operator
    hist,  \* the events, in the order they were applied
    now    \* the server's clock

vars == <<ops, hist, now>>

-----------------------------------------------------------------------------
(* Fractions. *)

RECURSIVE Gcd(_, _)
Gcd(a, b) == IF b = 0 THEN a ELSE Gcd(b, a % b)
Abs(n) == IF n < 0 THEN -n ELSE n
Frac(n, d) ==
    LET g == Gcd(Abs(n), Abs(d)) IN
    IF d < 0 THEN <<(-n) \div g, (-d) \div g>> ELSE <<n \div g, d \div g>>
Whole(n) == <<n, 1>>
Zero == Whole(0)
Plus(a, b) == Frac(a[1] * b[2] + b[1] * a[2], a[2] * b[2])
Neg(a) == <<-a[1], a[2]>>
Minus(a, b) == Plus(a, Neg(b))
Times(a, b) == Frac(a[1] * b[1], a[2] * b[2])
Over(a, b) == Frac(a[1] * b[2], a[2] * b[1])
Less(a, b) == a[1] * b[2] < b[1] * a[2]
AbsF(a) == <<Abs(a[1]), a[2]>>
HalfTo(n) == <<1, 2 ^ n>>
Total(s) == FoldLeft(Plus, Zero, s)
Mean(s) == Over(Total(s), Whole(Len(s)))

-----------------------------------------------------------------------------
(* Values. *)

Null == <<"null">>
Absent == <<"absent">>
None == <<"none">>
Given(v) == v \notin {Null, Absent}
\* numeric_from_row, numeric_from_value
Numeric(v) == v[1] \in {"i64", "f64"}
Num(v) == Whole(v[2])
\* value_lt: only values of one type are ordered (the model has one text)
ValueLt(a, b) == a[1] = b[1] /\ Numeric(a) /\ a[2] < b[2]
\* str_from_row: a category is a text; floats have none
Category(v) ==
    CASE v[1] = "str" -> <<v[2]>> [] v[1] = "i64" -> <<ToString(v[2])>> [] OTHER -> <<>>

Known(o) == Len(o) = 1
Opt(o, default) == IF Known(o) THEN o[1] ELSE default

\* Lists that keep the newest n entries.
Pushed(s, n, x) == Append(IF Len(s) = n THEN Tail(s) ELSE s, x)

-----------------------------------------------------------------------------
(* Core operators. *)

CountUpdate(s, e) == IF e.w THEN s + 1 ELSE s

SumUpdate(s, e) ==
    IF e.w /\ Numeric(e.v)
    THEN [total |-> Plus(s.total, Num(e.v)), n |-> s.n + 1] ELSE s
SumAnswer(s) == IF s.n = 0 THEN None ELSE <<"q", s.total>>
AvgAnswer(s) == IF s.n = 0 THEN None ELSE <<"q", Over(s.total, Whole(s.n))>>

MinUpdate(s, e) ==
    IF e.w /\ Given(e.v) /\ (~Known(s) \/ ValueLt(e.v, s[1])) THEN <<e.v>> ELSE s
MaxUpdate(s, e) ==
    IF e.w /\ Given(e.v) /\ (~Known(s) \/ ValueLt(s[1], e.v)) THEN <<e.v>> ELSE s

\* Welford's update of a mean and a sum of squared deviations
WelfordZero == [n |-> 0, mean |-> Zero, m2 |-> Zero]
\* Mutant: the second deviation is taken from the old mean.
WelfordOldMean(s, x) ==
    LET d == Minus(x, s.mean) IN
    [n |-> s.n + 1, mean |-> Plus(s.mean, Over(d, Whole(s.n + 1))),
     m2 |-> Plus(s.m2, Times(d, d))]
Welford(s, x) ==
    LET d == Minus(x, s.mean)
        mean == Plus(s.mean, Over(d, Whole(s.n + 1)))
    IN  [n |-> s.n + 1, mean |-> mean, m2 |-> Plus(s.m2, Times(d, Minus(x, mean)))]
SampleVariance(s) == Over(s.m2, Whole(s.n - 1))
VarianceUpdate(s, e) == IF e.w /\ Numeric(e.v) THEN Welford(s, Num(e.v)) ELSE s
VarianceAnswer(s) == IF s.n < 2 THEN None ELSE <<"q", SampleVariance(s)>>
StdDevAnswer(s) == IF s.n < 2 THEN None ELSE <<"root", SampleVariance(s)>>

\* The predicate filters the numerator only.
RatioUpdate(s, e) == [matching |-> s.matching + (IF e.w THEN 1 ELSE 0), total |-> s.total + 1]
RatioAnswer(s) == IF s.total = 0 THEN None ELSE <<"q", Frac(s.matching, s.total)>>

-----------------------------------------------------------------------------
(* Operators that keep values in the order they arrived. *)

FirstUpdate(s, e) == IF e.w /\ ~Known(s) /\ Given(e.v) THEN <<e.v>> ELSE s
LastUpdate(s, e) == IF e.w /\ Given(e.v) THEN <<e.v>> ELSE s
FirstNUpdate(s, e) == IF e.w /\ Len(s) < N /\ Given(e.v) THEN Append(s, e.v) ELSE s
LastNUpdate(s, e) == IF e.w /\ Given(e.v) THEN Pushed(s, N, e.v) ELSE s
LagUpdate(s, e) == IF e.w /\ Given(e.v) THEN Pushed(s, N + 1, e.v) ELSE s
LagAnswer(s) == IF Len(s) = N + 1 THEN <<"v", s[1]>> ELSE None

DeltaUpdate(s, e) ==
    IF ~(e.w /\ Numeric(e.v)) THEN s
    ELSE [last |-> <<Num(e.v)>>,
          delta |-> IF Known(s.last) THEN <<Minus(Num(e.v), s.last[1])>> ELSE s.delta]
ChangeUpdate(s, e) ==
    IF ~(e.w /\ Given(e.v)) THEN s
    ELSE [last |-> <<e.v>>, changes |-> s.changes + (IF s.last \in {<<>>, <<e.v>>} THEN 0 ELSE 1)]

\* A ring: `head` is the next slot to write, and the oldest entry, once it is full.
RingEmpty == [buf |-> <<>>, head |-> 0, filled |-> FALSE]
\* Mutant: the head does not wrap.
RingPushNoWrap(s, x) ==
    IF s.filled THEN [s EXCEPT !.buf[s.head + 1] = x, !.head = IF @ = N - 1 THEN @ ELSE @ + 1]
    ELSE [s EXCEPT !.buf = Append(@, x), !.filled = (Len(s.buf) + 1 = N)]
RingPush(s, x) ==
    IF s.filled THEN [s EXCEPT !.buf[s.head + 1] = x, !.head = (@ + 1) % N]
    ELSE [s EXCEPT !.buf = Append(@, x), !.filled = (Len(s.buf) + 1 = N)]
RecentUpdate(s, e) == IF e.w /\ Given(e.v) THEN RingPush(s, e.v) ELSE s
RecentAnswer(s) ==
    <<"list", IF s.filled THEN [i \in 1 .. N |-> s.buf[((s.head + i - 1) % N) + 1]] ELSE s.buf>>

ReservoirUpdate(s, e) ==
    IF ~(e.w /\ Given(e.v)) THEN s
    ELSE LET seen == s.seen + 1  j == e.j % seen IN
         [seen |-> seen,
          sample |-> IF Len(s.sample) < N THEN Append(s.sample, e.v)
                     ELSE IF j < N THEN [s.sample EXCEPT ![j + 1] = e.v] ELSE s.sample]

-----------------------------------------------------------------------------
(* Recency. *)

SeenUpdate(s, e) ==
    IF e.w THEN [first |-> IF Known(s.first) THEN s.first ELSE <<e.t>>, last |-> <<e.t>>] ELSE s
\* Mutant: a clock behind the event shows.
ElapsedSigned(o, t) == IF Known(o) THEN <<"i", t - o[1]>> ELSE None
Elapsed(o, t) == IF Known(o) THEN <<"i", IF t > o[1] THEN t - o[1] ELSE 0>> ELSE None
SinceLastNUpdate(s, e) == IF e.w THEN Pushed(s, N, e.t) ELSE s
SinceLastNAnswer(s, t) == IF Len(s) < N THEN None ELSE Elapsed(<<s[1]>>, t)
StreakUpdate(s, e) ==
    IF e.w THEN [current |-> s.current + 1,
                 max |-> IF s.current + 1 > s.max THEN s.current + 1 ELSE s.max]
    ELSE [s EXCEPT !.current = 0]
NegativeStreakUpdate(s, e) == IF e.w THEN 0 ELSE s + 1
\* Mutant: an event that did not match resets the operator.
InWindowUpdateAll(s, e) == <<e.t>>
InWindowUpdate(s, e) == IF e.w THEN <<e.t>> ELSE s
InWindowAnswer(s, t) == <<"b", Known(s) /\ t - s[1] >= 0 /\ t - s[1] < Window>>

-----------------------------------------------------------------------------
(* Decay.  Times between events are multiples of the half-life here, so    *)
(* that exp(-dt * ln 2 / half_life) is a power of one half.                *)

DecayFactor(t, last) == IF t > last THEN HalfTo((t - last) \div HalfLife) ELSE Whole(1)
\* decay_alpha: none when time has not moved forward
\* Mutant: a clock that was set back is not noticed.
DecayAlphaAnyTime(t, last) ==
    IF t > last THEN <<Minus(Whole(1), DecayFactor(t, last))>>
    ELSE IF t < last THEN <<Whole(1 - 2 ^ ((last - t) \div HalfLife))>> ELSE <<>>
DecayAlpha(t, last) == IF t > last THEN <<Minus(Whole(1), DecayFactor(t, last))>> ELSE <<>>
Mix(alpha, x, y) == Plus(Times(alpha, x), Times(Minus(Whole(1), alpha), y))

EwmaUpdate(s, e) ==
    IF ~(e.w /\ Numeric(e.v)) THEN s
    ELSE IF ~Known(s) THEN <<[value |-> Num(e.v), last |-> e.t]>>
    ELSE LET a == DecayAlpha(e.t, s[1].last) IN
         <<[value |-> Mix(Opt(a, Frac(1, 2)), Num(e.v), s[1].value),
            last |-> IF Known(a) THEN e.t ELSE s[1].last]>>

EwVarUpdate(s, e) ==
    IF ~(e.w /\ Numeric(e.v)) THEN s
    ELSE LET x == Num(e.v) IN
         IF ~Known(s) THEN <<[mean |-> x, m2 |-> Zero, last |-> e.t, value |-> x]>>
         ELSE LET a == Opt(DecayAlpha(e.t, s[1].last), Zero)
                  d == Minus(x, s[1].mean)
                  mean == Plus(s[1].mean, Times(a, d))
              IN  <<[mean |-> mean,
                     m2 |-> Plus(Times(Minus(Whole(1), a), s[1].m2),
                                 Times(a, Times(d, Minus(x, mean)))),
                     last |-> IF a # Zero THEN e.t ELSE s[1].last, value |-> x]>>
EwZScoreAnswer(s) ==
    IF ~Known(s) \/ s[1].m2 = Zero THEN None
    ELSE <<"z", Minus(s[1].value, s[1].mean), s[1].m2>>

\* Mutant: the total decays to the event before the last one.
DecayedAddLate(s, x, t) ==
    IF ~Known(s) THEN <<[total |-> x, last |-> t]>>
    ELSE <<[total |-> Plus(Times(s[1].total, DecayFactor(t, s[1].last)), x), last |-> s[1].last]>>
DecayedAdd(s, x, t) ==
    IF ~Known(s) THEN <<[total |-> x, last |-> t]>>
    ELSE <<[total |-> Plus(Times(s[1].total, DecayFactor(t, s[1].last)), x),
            last |-> IF t > s[1].last THEN t ELSE s[1].last]>>
DecayedSumUpdate(s, e) == IF e.w /\ Numeric(e.v) THEN DecayedAdd(s, Num(e.v), e.t) ELSE s
DecayedCountUpdate(s, e) == IF e.w THEN DecayedAdd(s, Whole(1), e.t) ELSE s

TwaUpdate(s, e) ==
    IF ~(e.w /\ Numeric(e.v)) THEN s
    ELSE IF ~Known(s) THEN <<[vdt |-> Zero, dt |-> 0, v |-> Num(e.v), last |-> e.t]>>
    ELSE LET dt == IF e.t > s[1].last THEN e.t - s[1].last ELSE 0 IN
         <<[vdt |-> Plus(s[1].vdt, Times(s[1].v, Whole(dt))), dt |-> s[1].dt + dt,
            v |-> Num(e.v), last |-> e.t]>>
TwaAnswer(s) ==
    IF ~Known(s) THEN None
    ELSE <<"q", IF s[1].dt = 0 THEN s[1].v ELSE Over(s[1].vdt, Whole(s[1].dt))>>

-----------------------------------------------------------------------------
(* Velocity. *)

RateUpdate(s, e) ==
    IF ~(e.w /\ Numeric(e.v)) THEN s
    ELSE [v |-> Num(e.v), last |-> <<e.t>>,
          rate |-> IF Known(s.last) /\ e.t > s.last[1]
                   THEN <<Over(Minus(Num(e.v), s.v), Whole(e.t - s.last[1]))>> ELSE s.rate]

ArrivalUpdate(s, e) ==
    IF ~e.w THEN s
    ELSE [last |-> <<e.t>>,
          gaps |-> IF ~Known(s.last) THEN s.gaps
                   ELSE Welford(s.gaps, Whole(IF e.t > s.last[1] THEN e.t - s.last[1] ELSE 0))]
ArrivalAnswer(s) == IF s.gaps.n = 0 THEN None ELSE <<"q", s.gaps.mean>>

\* A slot remembers the sub-window it was last used for.
BurstUpdate(s, e) ==
    IF ~e.w THEN s
    ELSE LET epoch == e.t \div SubWindow
             slot == epoch % BurstSlots
             n == IF s.slots[slot][1] = <<epoch>> THEN s.slots[slot][2] + 1 ELSE 1
         IN  [slots |-> [s.slots EXCEPT ![slot] = <<<<epoch>>, n>>],
              max |-> IF n > s.max THEN n ELSE s.max]

\* The slope of the least squares line, from running sums.
TrendUpdate(s, e) ==
    IF ~(e.w /\ Numeric(e.v)) THEN s
    ELSE LET y == e.v[2] IN
         [n |-> s.n + 1, x |-> s.x + e.t, y |-> s.y + y, xx |-> s.xx + e.t * e.t,
          xy |-> s.xy + e.t * y, last |-> <<<<e.t, y>>>>]
TrendDenom(s) == s.n * s.xx - s.x * s.x
Slope(s) ==
    IF s.n < 2 \/ TrendDenom(s) = 0 THEN <<>>
    ELSE <<Frac(s.n * s.xy - s.x * s.y, TrendDenom(s))>>
Intercept(s) == Over(Minus(Whole(s.y), Times(Slope(s)[1], Whole(s.x))), Whole(s.n))
TrendAnswer(s) == IF Known(Slope(s)) THEN <<"q", Slope(s)[1]>> ELSE None
ResidualAnswer(s) ==
    IF ~Known(Slope(s)) THEN None
    ELSE <<"q", Minus(Whole(s.last[1][2]),
                      Plus(Times(Slope(s)[1], Whole(s.last[1][1])), Intercept(s)))>>

\* |x - mean| > sigma * stddev, compared by its square
Outlying(s, x) ==
    /\ s.n >= MinBaseline /\ s.n > 1 /\ s.m2 # Zero
    /\ LET d == Minus(x, s.mean) IN
       Less(Times(Whole(Sigma * Sigma), SampleVariance(s)), Times(d, d))
\* Mutant: the event is part of its own baseline.
OutlierUpdateSelf(s, e) ==
    IF ~(e.w /\ Numeric(e.v)) THEN s
    ELSE LET base == Welford(s.base, Num(e.v)) IN
         [base |-> base, outliers |-> s.outliers + (IF Outlying(base, Num(e.v)) THEN 1 ELSE 0)]
OutlierUpdate(s, e) ==
    IF ~(e.w /\ Numeric(e.v)) THEN s
    ELSE [base |-> Welford(s.base, Num(e.v)),
          outliers |-> s.outliers + (IF Outlying(s.base, Num(e.v)) THEN 1 ELSE 0)]

ZScoreUpdate(s, e) ==
    IF e.w /\ Numeric(e.v) THEN [base |-> Welford(s.base, Num(e.v)), v |-> Num(e.v)] ELSE s
ZScoreAnswer(s) ==
    IF s.base.n < 2 \/ s.base.m2 = Zero THEN None
    ELSE <<"z", Minus(s.v, s.base.mean), SampleVariance(s.base)>>

-----------------------------------------------------------------------------
(* Histograms and mixes. *)

HistogramUpdate(s, e) ==
    IF ~(e.w /\ Numeric(e.v)) THEN s
    ELSE LET Above == {i \in DOMAIN Edges : e.v[2] < Edges[i]}
             idx == IF Above = {} THEN Len(Edges)
                    ELSE (CHOOSE i \in Above : \A j \in Above : i <= j) - 1
         IN  [s EXCEPT ![idx] = @ + 1]
HourOf(t) == (t \div HourMs) % DayHours
\* dow_hour_index: day 0 of the epoch is the fourth day of the week
\* Mutant: the hour is taken of the week.
DowHourUnwrapped(t) == ((t \div HourMs) + 3 * DayHours) % (WeekDays * DayHours + 1)
DowHourOf(t) == (((t \div (HourMs * DayHours)) + 3) % WeekDays) * DayHours + HourOf(t)
HourUpdate(s, e) == IF e.w THEN [s EXCEPT ![HourOf(e.t)] = @ + 1] ELSE s
DowHourUpdate(s, e) == IF e.w THEN [s EXCEPT ![DowHourOf(e.t)] = @ + 1] ELSE s

SeasonalUpdate(s, e) ==
    IF ~(e.w /\ Numeric(e.v)) THEN s
    ELSE LET h == HourOf(e.t) b == s.hours[h] IN
         [hours |-> [s.hours EXCEPT ![h] = [n |-> b.n + 1, sum |-> b.sum + e.v[2],
                                            sq |-> b.sq + e.v[2] * e.v[2]]],
          last |-> <<<<e.v[2], h>>>>]
SeasonalAnswer(s) ==
    IF ~Known(s.last) THEN None
    ELSE LET b == s.hours[s.last[1][2]]
             var == Frac(b.n * b.sq - b.sum * b.sum, b.n * (b.n - 1))
         IN  IF b.n < 2 \/ ~Less(Zero, var) THEN None
             ELSE <<"z", Minus(Whole(s.last[1][1]), Frac(b.sum, b.n)), var>>

\* Dropped categories still count in the total.
MixRefused(s, c) ==
    IF Categories # {} THEN c \notin Categories
    ELSE c \notin DOMAIN s.counts /\ Cardinality(DOMAIN s.counts) >= MaxCategories
\* Mutant: a category that is dropped is not counted in the total.
MixUpdateDropped(s, e) ==
    LET c == Category(e.v) IN
    IF ~e.w \/ c = <<>> \/ MixRefused(s, c[1]) THEN s
    ELSE [total |-> s.total + 1,
          counts |-> (c[1] :> (IF c[1] \in DOMAIN s.counts THEN s.counts[c[1]] ELSE 0) + 1) @@ s.counts]
MixUpdate(s, e) ==
    LET c == Category(e.v) IN
    IF ~e.w \/ c = <<>> THEN s
    ELSE [total |-> s.total + 1,
          counts |-> IF MixRefused(s, c[1]) THEN s.counts
                     ELSE (c[1] :> (IF c[1] \in DOMAIN s.counts THEN s.counts[c[1]] ELSE 0) + 1)
                          @@ s.counts]
MixAnswer(s) == <<"map", [c \in DOMAIN s.counts |-> Frac(s.counts[c], s.total)]>>

\* A filter that knows the values it was given; the answer only asks whether any was.
BloomUpdate(s, e) ==
    IF e.w /\ Given(e.v) THEN [set |-> s.set \cup {e.v}, inserts |-> s.inserts + 1] ELSE s
BloomAnswer(s) == <<"b", s.inserts > 0>>

-----------------------------------------------------------------------------
(* Positions. *)

\* haversine_km, on a line
Dist(a, b) == AbsF(Minus(a, b))
GeoVelocityUpdate(s, e) ==
    IF ~e.w \/ e.p = <<>> THEN s
    ELSE LET p == Whole(e.p[1])
             v == IF Known(s.prev) /\ e.t > s.prev[1][2]
                  THEN Over(Dist(s.prev[1][1], p), Whole(e.t - s.prev[1][2])) ELSE Zero
         IN  [prev |-> <<<<p, e.t>>>>, max |-> IF Less(s.max, v) THEN v ELSE s.max]
GeoVelocityAnswer(s) == IF Known(s.prev) THEN <<"q", s.max>> ELSE None
GeoDistanceUpdate(s, e) ==
    IF ~e.w \/ e.p = <<>> THEN s
    ELSE LET p == Whole(e.p[1]) IN
         [prev |-> <<p>>,
          total |-> IF Known(s.prev) THEN Plus(s.total, Dist(s.prev[1], p)) ELSE s.total]
GeoSpreadUpdate(s, e) == IF ~e.w \/ e.p = <<>> THEN s ELSE Welford(s, Whole(e.p[1]))
GeoSpreadAnswer(s) == IF s.n < 2 THEN None ELSE <<"root", Over(s.m2, Whole(s.n))>>
HomeUpdate(s, e) ==
    IF ~e.w \/ e.p = <<>> THEN s
    ELSE [ring |-> RingPush(s.ring, Whole(e.p[1])), last |-> <<Whole(e.p[1])>>]
HomeAnswer(s) == IF Known(s.last) THEN <<"q", Dist(s.last[1], Mean(s.ring.buf))>> ELSE None

-----------------------------------------------------------------------------
(* The operator of an entity (agg_op.rs). *)

\* new_lifetime_full; `new` gives a window to first_seen_in_window only (the
\* kinds of WindowedOps apart) and drops it for every other kind
Fresh(k) ==
    CASE k \in {"count", "negative_streak"} -> 0
      [] k \in {"sum", "avg"} -> [total |-> Zero, n |-> 0]
      [] k \in {"variance", "stddev", "geo_spread"} -> WelfordZero
      [] k = "ratio" -> [matching |-> 0, total |-> 0]
      [] k = "delta_from_prev" -> [last |-> <<>>, delta |-> <<>>]
      [] k = "value_change_count" -> [last |-> <<>>, changes |-> 0]
      [] k = "most_recent_n" -> RingEmpty
      [] k = "reservoir_sample" -> [seen |-> 0, sample |-> <<>>]
      [] k \in {"first_seen", "last_seen", "age", "has_seen", "time_since"} ->
            [first |-> <<>>, last |-> <<>>]
      [] k \in {"streak", "max_streak"} -> [current |-> 0, max |-> 0]
      [] k = "rate_of_change" -> [v |-> Zero, last |-> <<>>, rate |-> <<>>]
      [] k = "inter_arrival_stats" -> [last |-> <<>>, gaps |-> WelfordZero]
      [] k = "burst_count" -> [slots |-> [i \in 0 .. BurstSlots - 1 |-> <<<<>>, 0>>], max |-> 0]
      [] k \in {"trend", "trend_residual"} ->
            [n |-> 0, x |-> 0, y |-> 0, xx |-> 0, xy |-> 0, last |-> <<>>]
      [] k = "outlier_count" -> [base |-> WelfordZero, outliers |-> 0]
      [] k = "z_score" -> [base |-> WelfordZero, v |-> Zero]
      [] k = "histogram" -> [i \in 0 .. Len(Edges) |-> 0]
      [] k = "hour_of_day_histogram" -> [h \in 0 .. DayHours - 1 |-> 0]
      [] k = "dow_hour_histogram" -> [h \in 0 .. DayHours * WeekDays - 1 |-> 0]
      [] k = "seasonal_deviation" ->
            [hours |-> [h \in 0 .. DayHours - 1 |-> [n |-> 0, sum |-> 0, sq |-> 0]], last |-> <<>>]
      [] k = "event_type_mix" -> [total |-> 0, counts |-> <<>>]
      [] k = "bloom_member" -> [set |-> {}, inserts |-> 0]
      [] k = "geo_velocity" -> [prev |-> <<>>, max |-> Zero]
      [] k = "geo_distance" -> [prev |-> <<>>, total |-> Zero]
      [] k = "distance_from_home" -> [ring |-> RingEmpty, last |-> <<>>]
      [] OTHER -> <<>>

\* update, update_with_extracted_no_where
UpdateOp(k, s, e) ==
    CASE k = "count" -> CountUpdate(s, e)
      [] k \in {"sum", "avg"} -> SumUpdate(s, e)
      [] k = "min" -> MinUpdate(s, e)
      [] k = "max" -> MaxUpdate(s, e)
      [] k \in {"variance", "stddev"} -> VarianceUpdate(s, e)
      [] k = "ratio" -> RatioUpdate(s, e)
      [] k = "first" -> FirstUpdate(s, e)
      [] k = "last" -> LastUpdate(s, e)
      [] k = "first_n" -> FirstNUpdate(s, e)
      [] k = "last_n" -> LastNUpdate(s, e)
      [] k = "lag" -> LagUpdate(s, e)
      [] k = "delta_from_prev" -> DeltaUpdate(s, e)
      [] k = "value_change_count" -> ChangeUpdate(s, e)
      [] k = "most_recent_n" -> RecentUpdate(s, e)
      [] k = "reservoir_sample" -> ReservoirUpdate(s, e)
      [] k \in {"first_seen", "last_seen", "age", "has_seen", "time_since"} -> SeenUpdate(s, e)
      [] k = "time_since_last_n" -> SinceLastNUpdate(s, e)
      [] k \in {"streak", "max_streak"} -> StreakUpdate(s, e)
      [] k = "negative_streak" -> NegativeStreakUpdate(s, e)
      [] k = "first_seen_in_window" -> InWindowUpdate(s, e)
      [] k = "ewma" -> EwmaUpdate(s, e)
      [] k \in {"ewvar", "ew_zscore"} -> EwVarUpdate(s, e)
      [] k = "decayed_sum" -> DecayedSumUpdate(s, e)
      [] k = "decayed_count" -> DecayedCountUpdate(s, e)
      [] k = "twa" -> TwaUpdate(s, e)
      [] k = "rate_of_change" -> RateUpdate(s, e)
      [] k = "inter_arrival_stats" -> ArrivalUpdate(s, e)
      [] k = "burst_count" -> BurstUpdate(s, e)
      [] k \in {"trend", "trend_residual"} -> TrendUpdate(s, e)
      [] k = "outlier_count" -> OutlierUpdate(s, e)
      [] k = "z_score" -> ZScoreUpdate(s, e)
      [] k = "histogram" -> HistogramUpdate(s, e)
      [] k = "hour_of_day_histogram" -> HourUpdate(s, e)
      [] k = "dow_hour_histogram" -> DowHourUpdate(s, e)
      [] k = "seasonal_deviation" -> SeasonalUpdate(s, e)
      [] k = "event_type_mix" -> MixUpdate(s, e)
      [] k = "bloom_member" -> BloomUpdate(s, e)
      [] k = "geo_velocity" -> GeoVelocityUpdate(s, e)
      [] k = "geo_distance" -> GeoDistanceUpdate(s, e)
      [] k = "geo_spread" -> GeoSpreadUpdate(s, e)
      [] k = "distance_from_home" -> HomeUpdate(s, e)

ValueOr(o) == IF Known(o) THEN <<"v", o[1]>> ELSE None
FracOr(o) == IF Known(o) THEN <<"q", o[1]>> ELSE None
TimeOr(o) == IF Known(o) THEN <<"i", o[1]>> ELSE None

\* query
QueryOp(k, s, t) ==
    CASE k \in {"count", "negative_streak"} -> <<"i", s>>
      [] k = "sum" -> SumAnswer(s)
      [] k = "avg" -> AvgAnswer(s)
      [] k \in {"min", "max", "first", "last"} -> ValueOr(s)
      [] k = "variance" -> VarianceAnswer(s)
      [] k = "stddev" -> StdDevAnswer(s)
      [] k = "ratio" -> RatioAnswer(s)
      [] k \in {"first_n", "last_n"} -> <<"list", s>>
      [] k = "lag" -> LagAnswer(s)
      [] k = "delta_from_prev" -> FracOr(s.delta)
      [] k = "value_change_count" -> <<"i", s.changes>>
      [] k = "most_recent_n" -> RecentAnswer(s)
      [] k = "reservoir_sample" -> <<"list", s.sample>>
      [] k = "first_seen" -> TimeOr(s.first)
      [] k = "last_seen" -> TimeOr(s.last)
      [] k = "age" -> Elapsed(s.first, t)
      [] k = "has_seen" -> <<"b", Known(s.first)>>
      [] k = "time_since" -> Elapsed(s.last, t)
      [] k = "time_since_last_n" -> SinceLastNAnswer(s, t)
      [] k = "streak" -> <<"i", s.current>>
      [] k = "max_streak" -> <<"i", s.max>>
      [] k = "first_seen_in_window" -> InWindowAnswer(s, t)
      [] k = "ewma" -> IF Known(s) THEN <<"q", s[1].value>> ELSE None
      [] k = "ewvar" -> IF Known(s) THEN <<"q", IF Less(s[1].m2, Zero) THEN Zero ELSE s[1].m2>> ELSE None
      [] k = "ew_zscore" -> EwZScoreAnswer(s)
      [] k \in {"decayed_sum", "decayed_count"} -> IF Known(s) THEN <<"q", s[1].total>> ELSE None
      [] k = "twa" -> TwaAnswer(s)
      [] k = "rate_of_change" -> FracOr(s.rate)
      [] k = "inter_arrival_stats" -> ArrivalAnswer(s)
      [] k = "burst_count" -> <<"i", s.max>>
      [] k = "trend" -> TrendAnswer(s)
      [] k = "trend_residual" -> ResidualAnswer(s)
      [] k = "outlier_count" -> <<"i", s.outliers>>
      [] k = "z_score" -> ZScoreAnswer(s)
      [] k \in {"histogram", "hour_of_day_histogram", "dow_hour_histogram"} -> <<"map", s>>
      [] k = "seasonal_deviation" -> SeasonalAnswer(s)
      [] k = "event_type_mix" -> MixAnswer(s)
      [] k = "bloom_member" -> BloomAnswer(s)
      [] k = "geo_velocity" -> GeoVelocityAnswer(s)
      [] k = "geo_distance" -> <<"q", s.total>>
      [] k = "geo_spread" -> GeoSpreadAnswer(s)
      [] k = "distance_from_home" -> HomeAnswer(s)

-----------------------------------------------------------------------------

Init ==
    /\ ops = [k \in Kinds |-> Fresh(k)]
    /\ hist = <<>>
    /\ now = StartTime

\* An event reaches the entity; the clock of the server may be set back.
Arrive(v, d, w, p, j) ==
    LET e == [v |-> v, t |-> now + d, w |-> w, p |-> p, j |-> j] IN
    /\ Len(hist) < MaxEvents
    /\ now' = now + d
    /\ hist' = Append(hist, e)
    /\ ops' = [k \in Kinds |-> UpdateOp(k, ops[k], e)]

Next ==
    \E v \in Values, d \in Steps, w \in BOOLEAN, p \in Points, j \in Draws :
        Arrive(v, d, w, p, j)

Spec == Init /\ [][Next]_vars

-----------------------------------------------------------------------------
(* What the history says. *)

Answer(k, t) == QueryOp(k, ops[k], t)
Monotone == \A d \in Steps : d >= 0

Matched == SelectSeq(hist, LAMBDA e : e.w)
Valued == SelectSeq(Matched, LAMBDA e : Given(e.v))
Numbered == SelectSeq(Matched, LAMBDA e : Numeric(e.v))
Located == SelectSeq(Matched, LAMBDA e : e.p # <<>>)
Over1(s, F(_)) == [i \in DOMAIN s |-> F(s[i])]
Numbers == Over1(Numbered, LAMBDA e : Num(e.v))
Taken == Over1(Valued, LAMBDA e : e.v)
Places == Over1(Located, LAMBDA e : Whole(e.p[1]))
Newest(s, n) == SubSeq(s, IF Len(s) > n THEN Len(s) - n + 1 ELSE 1, Len(s))

Squares(s) == Total(Over1(s, LAMBDA x : Times(Minus(x, Mean(s)), Minus(x, Mean(s)))))
Smallest(s) == s[CHOOSE i \in DOMAIN s : \A j \in DOMAIN s : s[i][2] <= s[j][2]]
Largest(s) == s[CHOOSE i \in DOMAIN s : \A j \in DOMAIN s : s[i][2] >= s[j][2]]
Within(x, s) ==
    (\E i \in DOMAIN s : ~Less(x, s[i])) /\ (\E i \in DOMAIN s : ~Less(s[i], x))

-----------------------------------------------------------------------------
(* The core operators answer what a pass over all the events computes:     *)
(* nulls, missing fields and values that are not numbers leave sum, mean,  *)
(* variance and extremes alone, and do count for count and ratio.  The     *)
(* variance is the sample variance, as agg_state.rs and its tests say;     *)
(* docs/python/operators.mdx calls it the population variance.             *)
CoreExact ==
    LET n == Len(Numbers) IN
    /\ Answer("count", now) = <<"i", Len(Matched)>>
    /\ Answer("sum", now) = IF n = 0 THEN None ELSE <<"q", Total(Numbers)>>
    /\ Answer("avg", now) = IF n = 0 THEN None ELSE <<"q", Mean(Numbers)>>
    /\ Answer("variance", now) = IF n < 2 THEN None ELSE <<"q", Over(Squares(Numbers), Whole(n - 1))>>
    /\ Answer("stddev", now) = IF n < 2 THEN None ELSE <<"root", Over(Squares(Numbers), Whole(n - 1))>>
    /\ Answer("min", now) = IF Taken = <<>> THEN None ELSE <<"v", Smallest(Taken)>>
    /\ Answer("max", now) = IF Taken = <<>> THEN None ELSE <<"v", Largest(Taken)>>
    /\ Answer("ratio", now) = IF hist = <<>> THEN None ELSE <<"q", Frac(Len(Matched), Len(hist))>>

(* The bounded buffers hold what their names say, through every number of  *)
(* wrap-arounds: the first n and the last n values in order of arrival,    *)
(* the same last n from the ring of most_recent_n, the value n before the  *)
(* last, the last difference, the number of changes, and a sample of the   *)
(* right size made of values that did arrive, none more often than that.   *)
(* The ring is read oldest first, as the tests of agg_buffer.rs expect;    *)
(* docs/python/operators.mdx says newest first.                            *)
BuffersExact ==
    LET n == Len(Taken) m == Len(Numbers)
        Times1(s, x) == Cardinality({i \in DOMAIN s : s[i] = x})
        sample == Answer("reservoir_sample", now)[2]
    IN
    /\ n > 0 => Answer("first", now)[2] = Taken[1] /\ Answer("last", now)[2] = Taken[n]
    /\ Answer("first_n", now)[2] = SubSeq(Taken, 1, IF n < N THEN n ELSE N)
    /\ Answer("last_n", now)[2] = Newest(Taken, N)
    /\ Answer("most_recent_n", now) = Answer("last_n", now)
    /\ Answer("lag", now) = IF n > N THEN <<"v", Taken[n - N]>> ELSE None
    /\ Answer("delta_from_prev", now) = IF m < 2 THEN None ELSE <<"q", Minus(Numbers[m], Numbers[m - 1])>>
    /\ Answer("value_change_count", now)[2] = Cardinality({i \in 2 .. n : Taken[i] # Taken[i - 1]})
    /\ Len(sample) = IF n < N THEN n ELSE N
    /\ \A i \in DOMAIN sample : Times1(sample, sample[i]) <= Times1(Taken, sample[i])

(* Recency answers agree with each other whatever the clock does: nothing  *)
(* is ever negative; while the clock runs forward, the last match is no    *)
(* older than the n-th last and that one no older than the first; an event *)
(* is in the window exactly while the time since it is below the window;   *)
(* streaks are the runs of matching and of other events at the end.        *)
RecencyConsistent ==
    /\ \A q \in (now - 1) .. (now + Window) :
        LET since == Answer("time_since", q) nth == Answer("time_since_last_n", q)
            age == Answer("age", q)
        IN  /\ \A a \in {since, nth, age} \ {None} : a[2] >= 0
            /\ (age # None) = Answer("has_seen", q)[2]
            /\ (nth # None) = (Len(Matched) >= N)
            /\ Monotone /\ age # None => since[2] <= age[2]
            /\ Monotone /\ nth # None => since[2] <= nth[2] /\ nth[2] <= age[2]
            /\ Monotone /\ q >= now =>
                Answer("first_seen_in_window", q)[2] = (since # None /\ since[2] < Window)
            /\ since # None /\ since[2] > 0 => since[2] = q - Answer("last_seen", q)[2]
    /\ LET run == Answer("streak", now)[2]
           neg == Answer("negative_streak", now)[2]
           RunAt(i, n, w) == \A j \in 0 .. n - 1 : hist[i - j].w = w
           len == Len(hist)
       IN  /\ RunAt(len, run, TRUE) /\ (run < len => ~hist[len - run].w)
           /\ RunAt(len, neg, FALSE) /\ (neg < len => hist[len - neg].w)
           /\ \A i \in 1 .. len : \A n \in 1 .. i : RunAt(i, n, TRUE) => n <= Answer("max_streak", now)[2]

(* While the clock runs forward, a decayed sum is the sum of the values    *)
(* halved once per half-life of age (at the last event), a decayed count   *)
(* the same with ones, and the time-weighted mean weighs every value with  *)
(* the time until the next one.                                            *)
DecayExact ==
    LET Weigh(s, X(_)) ==
            LET last == s[Len(s)].t IN
            Total(Over1(s, LAMBDA e : Times(X(e), HalfTo((last - e.t) \div HalfLife))))
        m == Len(Numbered)
        span == Numbered[m].t - Numbered[1].t
        Held == [i \in 1 .. m - 1 |-> Times(Numbers[i], Whole(Numbered[i + 1].t - Numbered[i].t))]
    IN
    /\ Answer("decayed_sum", now) =
        IF m = 0 THEN None ELSE <<"q", Weigh(Numbered, LAMBDA e : Num(e.v))>>
    /\ Answer("decayed_count", now) =
        IF Matched = <<>> THEN None ELSE <<"q", Weigh(Matched, LAMBDA e : Whole(1))>>
    /\ m > 0 =>
        Answer("twa", now) = <<"q", IF span = 0 THEN Numbers[m] ELSE Over(Total(Held), Whole(span))>>

(* Whatever the clock does, the averages stay between the smallest and the *)
(* largest value, no variance becomes negative, and a decayed count stays  *)
(* between one and the number of events.                                   *)
AveragesBounded ==
    /\ Numbers # <<>> =>
        /\ Within(Answer("ewma", now)[2], Numbers)
        /\ Within(Answer("twa", now)[2], Numbers)
        /\ Within(ops["ewvar"][1].mean, Numbers)
        /\ ~Less(ops["ewvar"][1].m2, Zero)
    /\ Matched # <<>> =>
        LET c == Answer("decayed_count", now)[2] IN
        ~Less(c, Whole(1)) /\ ~Less(Whole(Len(Matched)), c)

(* While the clock runs forward: the trend is the least squares slope, the *)
(* residual the distance of the last value from that line, the mean gap    *)
(* the span over the number of gaps, an outlier an event far from the      *)
(* values before it, a burst the fullest sub-window, the z-score that of   *)
(* the last value among all.  The residual is that of the last event, as   *)
(* agg_state_velocity.rs defines it; docs/python/operators.mdx describes   *)
(* the RMS of all residuals.                                               *)
VelocityExact ==
    LET m == Len(Numbers)
        X == Over1(Numbered, LAMBDA e : Whole(e.t))
        Cov == Total([i \in 1 .. m |->
                        Times(Minus(X[i], Mean(X)), Minus(Numbers[i], Mean(Numbers)))])
        slope == Over(Cov, Squares(X))
        Before(i) == SubSeq(Numbers, 1, i - 1)
        Far(i) ==
            LET b == Before(i) d == Minus(Numbers[i], Mean(b)) IN
            /\ Len(b) >= MinBaseline /\ Len(b) >= 2 /\ Squares(b) # Zero
            /\ Less(Over(Times(Whole(Sigma * Sigma), Squares(b)), Whole(Len(b) - 1)), Times(d, d))
        k == Len(Matched)
        InSub(i) == Cardinality({j \in 1 .. k : Matched[j].t \div SubWindow = Matched[i].t \div SubWindow})
    IN
    /\ m >= 2 /\ Squares(X) # Zero =>
        /\ Answer("trend", now) = <<"q", slope>>
        /\ Answer("trend_residual", now) =
            <<"q", Minus(Minus(Numbers[m], Mean(Numbers)), Times(slope, Minus(X[m], Mean(X))))>>
    /\ m >= 1 /\ Squares(X) = Zero => Answer("trend", now) = None
    /\ Answer("inter_arrival_stats", now) =
        IF k < 2 THEN None ELSE <<"q", Frac(Matched[k].t - Matched[1].t, k - 1)>>
    /\ Answer("outlier_count", now)[2] = Cardinality({i \in 1 .. m : Far(i)})
    /\ k > 0 => Answer("burst_count", now)[2] \in {InSub(i) : i \in 1 .. k}
    /\ \A i \in 1 .. k : InSub(i) <= Answer("burst_count", now)[2]
    /\ m >= 2 /\ Squares(Numbers) # Zero =>
        Answer("z_score", now) =
            <<"z", Minus(Numbers[m], Mean(Numbers)), Over(Squares(Numbers), Whole(m - 1))>>

(* The fixed-size histograms lose no event and agree with each other: the  *)
(* hours of the day are the sums of the hours of the week; a value falls   *)
(* in the bucket between its edges; the shares of a mix are out of all     *)
(* events, the dropped categories too, and no more than max_categories are *)
(* kept; the seasonal deviation is the z-score within the hour.            *)
ShapesExact ==
    LET h == Answer("histogram", now)[2]
        day == Answer("hour_of_day_histogram", now)[2]
        week == Answer("dow_hour_histogram", now)[2]
        mix == Answer("event_type_mix", now)[2]
        SumOf(S, f) == FoldSet(LAMBDA x, a : a + f[x], 0, S)
        Cats == Over1(SelectSeq(Matched, LAMBDA e : Category(e.v) # <<>>), LAMBDA e : Category(e.v)[1])
        dev == Answer("seasonal_deviation", now)
        m == Len(Numbered)
        SameHour == Over1(SelectSeq(Numbered, LAMBDA e : HourOf(e.t) = HourOf(Numbered[m].t)),
                          LAMBDA e : Num(e.v))
    IN
    /\ \A i \in 0 .. Len(Edges) :
        h[i] = Len(SelectSeq(Numbered, LAMBDA e :
                    (i > 0 => Edges[i] <= e.v[2]) /\ (i < Len(Edges) => e.v[2] < Edges[i + 1])))
    /\ SumOf(DOMAIN day, day) = Len(Matched)
    /\ \A x \in DOMAIN day :
        day[x] = SumOf({d * DayHours + x : d \in 0 .. WeekDays - 1}, week)
    /\ \A c \in DOMAIN mix :
        ~Less(Frac(Cardinality({i \in DOMAIN Cats : Cats[i] = c}), Len(Cats)), mix[c])
    /\ Categories # {} => \A c \in DOMAIN mix :
        mix[c] = Frac(Cardinality({i \in DOMAIN Cats : Cats[i] = c}), Len(Cats))
    /\ Categories = {} => Cardinality(DOMAIN mix) <= MaxCategories
    /\ m > 0 /\ Len(SameHour) > 1 /\ Squares(SameHour) # Zero =>
        dev = <<"z", Minus(Numbers[m], Mean(SameHour)),
                Over(Squares(SameHour), Whole(Len(SameHour) - 1))>>

(* Positions: the distance is the length of the path, the velocity the     *)
(* speed of its fastest leg, the spread the root of the population         *)
(* variance, the distance from home the one to the mean of the last        *)
(* samples; an event without a position is no part of any of them.         *)
GeoExact ==
    LET m == Len(Places)
        Leg(i) == Dist(Places[i], Places[i + 1])
        Home == Newest(Places, N)
        Legs == {i \in 1 .. m - 1 : Located[i + 1].t > Located[i].t}
        Speeds == {Over(Leg(i), Whole(Located[i + 1].t - Located[i].t)) : i \in Legs} \cup {Zero}
    IN
    /\ Answer("geo_distance", now) = <<"q", Total([i \in 1 .. m - 1 |-> Leg(i)])>>
    /\ Answer("geo_velocity", now) =
        IF m = 0 THEN None ELSE <<"q", CHOOSE x \in Speeds : \A y \in Speeds : ~Less(x, y)>>
    /\ Answer("geo_spread", now) = IF m < 2 THEN None ELSE <<"root", Over(Squares(Places), Whole(m))>>
    /\ Answer("distance_from_home", now) =
        IF m = 0 THEN None ELSE <<"q", Dist(Places[m], Mean(Home))>>

=============================================================================
