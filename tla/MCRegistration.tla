--------------------------- MODULE MCRegistration ---------------------------
(* Payloads for Registration.  Events are e and s; a, c, t and u are         *)
(* aggregations, b is derived from e and d from b.                           *)
EXTENDS Registration

MCOrder == <<"a", "avg_x", "b", "big", "c", "cnt", "d", "e", "h", "k", "n", "s", "t", "tot", "u", "usum", "x", "z">>

Fields == [k |-> "str", n |-> "i64", x |-> "f64"]
Event(name, fields) == [kind |-> "event", name |-> name, fields |-> fields]
E == Event("e", Fields)
EStr == Event("e", [Fields EXCEPT !.n = "str"])
S == Event("s", [k |-> "str", n |-> "i64"])

Derived(name, up, ops) ==
    [kind |-> "derivation", name |-> name, ups |-> <<up>>, ops |-> ops, out |-> "event",
     pk |-> <<>>, schema |-> <<>>]
Table(name, up, prefix, aggs) ==
    [kind |-> "derivation", name |-> name, ups |-> <<up>>,
     ops |-> Append(prefix, <<"group", <<"k">>, aggs>>), out |-> "table",
     pk |-> <<"k">>, schema |-> <<>>]
Agg(op, field) ==
    [op |-> op, field |-> field, where |-> "none", window |-> "none", cap |-> 0, arg |-> "ok"]

B == Derived("b", "e", <<<<"select", {"k", "n"}>>>>)
BJoin == Derived("b", "e", <<<<"join", "s">>>>)
D == Derived("d", "b", <<<<"filter", "n", 1>>>>)
A == Table("a", "e", <<>>, [cnt |-> Agg("count", "none"), tot |-> Agg("sum", "x")])
ABig == Table("a", "e", <<>>, [cnt |-> Agg("count", "none"), tot |-> Agg("sum", "x"),
                               big |-> Agg("max", "n")])
AWindow == Table("a", "e", <<>>, [cnt |-> Agg("count", "none"),
                                  tot |-> [Agg("sum", "x") EXCEPT !.window = "1h"]])
C == Table("c", "e", <<>>, [avg_x |-> Agg("mean", "n")])
CBad == Table("c", "e", <<>>, [avg_x |-> Agg("mean", "zz")])
TOnB == Table("t", "b", <<>>, [h |-> Agg("mean", "n")])
TOnE == Table("t", "e", <<>>, [h |-> Agg("mean", "n")])
AField == Table("a", "e", <<>>, [cnt |-> Agg("count", "none"), tot |-> Agg("sum", "n")])
EZ == Event("e", Fields @@ [z |-> "i64"])
CZ == Table("c", "e", <<>>, [avg_x |-> Agg("mean", "z")])
DOnE == Derived("d", "e", <<<<"filter", "n", 1>>>>)
BOnD == Derived("b", "d", <<<<"select", {"k", "n"}>>>>)
ETime == E @@ [event_time_field |-> "n"]
UOnS == Table("u", "s", <<>>, [usum |-> Agg("sum", "n")])
UOnZ == Table("u", "zz", <<>>, [usum |-> Agg("sum", "n")])
Hist(op, window, cap) ==
    Table("c", "e", <<>>, [h |-> [Agg(op, "none") EXCEPT !.window = window, !.cap = cap]])

\* A pipeline that grows, changes type, window, features and upstream, and is cut
\* back; some payloads are wrong.
Evolve ==
    {<<E>>, <<E, A>>, <<E, A, C>>, <<E, ABig, C>>, <<E, AWindow>>, <<EStr, B, D>>,
     <<E, B, TOnB>>, <<E, B, D>>, <<A, E>>, <<E, CBad>>, <<S, UOnS>>, <<E, A, UOnZ>>,
     <<ETime, A>>, <<E, BJoin>>, <<E, [S EXCEPT !.kind = "table"]>>, <<>>}

\* Ops without a bound of their memory, with one too large, and ones that do
\* not exist.
Bounds == {<<E, Hist("histogram", "none", 0)>>, <<E, Hist("first_n", "none", 9)>>,
           <<E, Hist("count", "bad", 0)>>, <<E, Hist("nope", "none", 0)>>}

\* A new field with an aggregation over it; a field, an upstream and a chain that
\* change under an unchanged outline; derivations whose names sort before their
\* upstreams'; and a change of e that builds on b without repeating it.
Hard == {<<EZ, CZ>>, <<E, AField>>, <<E, B, TOnE>>, <<E, DOnE, BOnD>>, <<EStr, TOnB>>}

MCPayloads == Evolve \cup Bounds \cup Hard

\* No step and no invariant reads the answer; the action property is checked of
\* every step, new state or not.
WithoutAnswer == <<reg, log, snap, owners, diverged, restarts>>

=============================================================================
