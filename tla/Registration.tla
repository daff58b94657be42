---------------------------- MODULE Registration ----------------------------
(***************************************************************************)
(* Registering a pipeline: the checks a payload passes                     *)
(* (register_validate.rs, agg_compile.rs), its diff against the registry   *)
(* and the names a forced call removes (apply_shard.rs), the logged bump   *)
(* (register.rs), the registry it changes (registry.rs), and the registry  *)
(* a restart rebuilds from a snapshot and the logged bumps (recovery.rs).  *)
(*                                                                         *)
(* A payload is a sequence of nodes:                                       *)
(*   [kind |-> "event", name, fields]                                      *)
(*   [kind |-> "derivation", name, ups, ops, out, pk, schema]              *)
(* fields and schema map names to types.  An op is <<"select", S>>,        *)
(* <<"filter", field, constant>> or <<"group", keys, aggs>>, with aggs a   *)
(* function from feature names to                                          *)
(*   [op, field, where, window, cap, arg]                                  *)
(* cap is the n, buckets or samples of an op that needs one, arg says      *)
(* whether the other parameters of the op (half-life, q, k, ...) are in    *)
(* range.  The other row ops are in OpChain, the expressions in ExprLang.  *)
(* Tables cannot be registered in this version and are left out.           *)
(***************************************************************************)
EXTENDS Naturals, FiniteSets, Sequences, TLC
LOCAL INSTANCE SequencesExt

CONSTANTS
    Payloads,     \* the payloads that are sent
    Order,        \* all names, in the order a BTreeMap has them
    MaxCap,       \* the largest n of first_n, last_n, lag, ... (1024)
    Enforce,      \* memory_governance_enforce
    MaxBumps,     \* bound: bumps in the registry WAL
    MaxLeft,      \* bound: bumps that were refused among them
    MaxRestarts   \* bound: restarts of a behaviour

VARIABLES
    reg,       \* the registry in memory
    log,       \* the bumps in the registry WAL
    snap,      \* the descriptors of the newest snapshot, or <<>>
    answer,    \* the last request, and the status it was answered with
    owners,    \* the aggregations that ever had an agg_id, since the start
    diverged,  \* whether a restart replayed a bump that had been refused
    restarts

vars == <<reg, log, snap, answer, owners, diverged, restarts>>

Rank(n) == CHOOSE i \in DOMAIN Order : Order[i] = n
Sorted(S) == SetToSortSeq(S, LAMBDA a, b : Rank(a) < Rank(b))
With(fn, x, v) == (x :> v) @@ fn
Without(fn, S) == [x \in (DOMAIN fn) \ S |-> fn[x]]
Get(fn, x, default) == IF x \in DOMAIN fn THEN fn[x] ELSE default
Nothing == <<>>

\* mixed is not in the code: the descriptors that came in with a payload of
\* which a node was left out because its name was taken by another shape.
EmptyRegistry ==
    [version |-> 0, events |-> Nothing, derivs |-> Nothing, chains |-> Nothing,
     aggs |-> Nothing, bysource |-> Nothing, findex |-> Nothing,
     clusters |-> Nothing, nextId |-> 0, mixed |-> {}]

IsGroup(op) == op[1] = "group"
Names(p) == {p[i].name : i \in DOMAIN p}
Registered(r) == (DOMAIN r.events) \cup (DOMAIN r.derivs)
Derivations(p) == {p[i] : i \in {j \in DOMAIN p : p[j].kind = "derivation"}}

-----------------------------------------------------------------------------
(* Aggregation operators: which exist, and what each one asks for. *)

KnownOps ==
    {"count", "sum", "mean", "min", "max", "var", "std", "ratio", "first", "last", "first_n",
     "last_n", "lag", "first_seen", "last_seen", "age", "has_seen", "time_since",
     "time_since_last_n", "streak", "max_streak", "negative_streak", "first_seen_in_window",
     "ewma", "ema", "ewvar", "ew_zscore", "decayed_sum", "decayed_count", "twa",
     "rate_of_change", "inter_arrival_stats", "burst_count", "delta_from_prev", "trend",
     "trend_residual", "outlier_count", "value_change_count", "z_score", "n_unique",
     "quantile", "top_k", "bloom_member", "entropy", "histogram", "hour_of_day_histogram",
     "dow_hour_histogram", "seasonal_deviation", "event_type_mix", "most_recent_n",
     "reservoir_sample", "geo_velocity", "geo_distance", "geo_spread", "distance_from_home"}

FieldRequired == {"first", "last", "first_n", "last_n", "lag"}
FieldChecked == FieldRequired \cup
    {"sum", "mean", "min", "max", "var", "std", "ewma", "ema", "ewvar", "ew_zscore",
     "decayed_sum", "twa", "rate_of_change", "delta_from_prev", "trend", "trend_residual",
     "outlier_count", "value_change_count", "z_score", "n_unique", "quantile", "top_k",
     "bloom_member", "entropy"}
CountRequired == {"first_n", "last_n", "lag", "time_since_last_n"}
ArgRequired == {"ewma", "ema", "ewvar", "ew_zscore", "decayed_sum", "decayed_count",
                "burst_count"}
ArgChecked == ArgRequired \cup {"bloom_member", "quantile", "top_k"}

\* agg_kind_rejects_window, and bloom_member
WindowRejected == CountRequired \cup
    {"first", "last", "first_seen", "last_seen", "age", "has_seen", "time_since", "streak",
     "max_streak", "negative_streak", "histogram", "hour_of_day_histogram",
     "dow_hour_histogram", "seasonal_deviation", "event_type_mix", "most_recent_n",
     "reservoir_sample", "geo_velocity", "geo_distance", "geo_spread", "distance_from_home",
     "bloom_member"}

\* lifetime_bound_for_op_str: the ops whose memory is bounded by a parameter
CapRequired == CountRequired \cup {"histogram", "most_recent_n", "reservoir_sample"}

\* pre_check_unbounded_op_in_lifetime_mode: windowed ops are not looked at
Bounded(spec) ==
    \/ spec.window # "none"
    \/ spec.op \in CapRequired /\ spec.cap > 0
    \/ spec.op \in KnownOps \ CapRequired

ArgGiven(spec) == spec.arg = "ok"
DurationValid(w) == w # "bad"

FieldOK(spec, fields) ==
    /\ spec.op \in FieldRequired => spec.field # "none"
    /\ spec.op \in FieldChecked => spec.field \in (DOMAIN fields) \cup {"none"}
    /\ spec.op \in CountRequired => spec.cap \in 1..MaxCap

WindowOK(spec) ==
    /\ spec.op \in WindowRejected => spec.window = "none"
    /\ spec.op = "first_seen_in_window" => spec.window # "none"
    /\ DurationValid(spec.window)

WhereOK(spec, fields) == spec.where \in (DOMAIN fields) \cup {"none"}

\* compile_aggregations_from_nodes, one feature
FeatureOK(name, spec, keys, fields) ==
    /\ spec.op \in KnownOps
    /\ name \notin Range(keys)
    /\ spec.op \in ArgRequired => ArgGiven(spec)
    /\ spec.op \in ArgChecked => spec.arg # "bad"
    /\ FieldOK(spec, fields)
    /\ WindowOK(spec)
    /\ WhereOK(spec, fields)

-----------------------------------------------------------------------------
(* validate_payload.  The result is [ok, schemas, chains, aggs]. *)

UpstreamsKnown(r, p) ==
    \A d \in Derivations(p) : Range(d.ups) \subseteq Names(p) \cup Registered(r)

TopologicalOrder(p) ==
    \A i, j \in DOMAIN p : p[i].kind = "derivation" /\ p[j].name \in Range(p[i].ups) => j <= i

\* validate_acyclicity: registered derivations, with those of the payload over
\* them, have no set of nodes that all have an upstream in the set
Acyclic(r, p) ==
    LET edges == [n \in {d.name : d \in Derivations(p)} |->
                      Range((CHOOSE d \in Derivations(p) : d.name = n).ups)]
                 @@ [n \in DOMAIN r.derivs |-> Range(r.derivs[n].ups)]
    IN  \A S \in (SUBSET DOMAIN edges) \ {{}} : \E n \in S : edges[n] \cap S = {}

Structure(r, p) ==
    /\ \A i, j \in DOMAIN p : p[i].name = p[j].name => i = j
    /\ \A i \in DOMAIN p : p[i].kind = "event" => DOMAIN p[i].fields # {}
    /\ \A d \in Derivations(p) :
          /\ d.ops # <<>> \/ DOMAIN d.schema # {}
          /\ d.out = "table" => d.pk # <<>>
    /\ UpstreamsKnown(r, p)
    /\ TopologicalOrder(p)
    /\ Acyclic(r, p)

\* propagate_schema, the two ops used here
ChainStep(s, op) ==
    CASE op[1] = "select" -> [fields |-> Without(s.fields, (DOMAIN s.fields) \ op[2]),
                              ok |-> s.ok /\ op[2] \subseteq DOMAIN s.fields]
      [] op[1] = "filter" -> [s EXCEPT !.ok = @ /\ op[2] \in DOMAIN s.fields]
ChainSchema(fields, ops) == FoldLeft(ChainStep, [fields |-> fields, ok |-> TRUE], ops)

\* resolve_upstream_schema: the payload's node comes before the registered one
UpstreamSchema(u, r, p) ==
    LET inPayload == {i \in DOMAIN p : p[i].name = u}
    IN  IF inPayload # {}
        THEN LET n == p[CHOOSE i \in inPayload : \A j \in inPayload : i <= j]
             IN  IF n.kind = "event" THEN n.fields ELSE n.schema
        ELSE IF u \in DOMAIN r.events THEN r.events[u].fields ELSE r.derivs[u].schema

\* validate_expressions, one node: of two upstreams with one field the later wins
PropagateNode(x, n, r, p) ==
    LET In(u) == IF u \in DOMAIN x.schemas THEN x.schemas[u] ELSE UpstreamSchema(u, r, p)
        input == FoldLeft(LAMBDA f, u : In(u) @@ f, Nothing, n.ups)
        prefix == SelectSeq(n.ops, LAMBDA op : ~IsGroup(op))
        out == ChainSchema(input, prefix)
        Set(fields) == [x EXCEPT !.schemas = With(@, n.name, fields)]
        chained == [x EXCEPT !.ok = @ /\ out.ok, !.chains = With(@, n.name, prefix)]
    IN  CASE n.kind = "event" -> x
          [] n.kind # "event" /\ n.ups = <<>> -> Set(n.schema)
          [] n.kind # "event" /\ n.ups # <<>> /\ n.ops = <<>> -> Set(input)
          [] OTHER ->
                [(IF prefix = <<>> THEN x ELSE chained) EXCEPT
                    !.schemas = With(@, n.name,
                                     IF \E i \in DOMAIN n.ops : IsGroup(n.ops[i])
                                     THEN n.schema ELSE out.fields)]

Propagate(r, p) ==
    FoldLeft(LAMBDA x, n : PropagateNode(x, n, r, p),
             [ok |-> TRUE, schemas |-> Nothing, chains |-> Nothing], p)

\* resolve_upstream_schema_for_agg: an event's fields, and those of the event
\* derivations of it that are in the payload
AggInput(u, r, p, schemas) ==
    LET isEvent == \/ \E i \in DOMAIN p : p[i].name = u /\ p[i].kind = "event"
                   \/ u \notin Names(p) /\ u \in DOMAIN r.events
        siblings == SelectSeq(p, LAMBDA n : n.kind = "derivation" /\ n.out = "event"
                                                /\ n.ups = <<u>>)
        base == IF u \in DOMAIN schemas THEN schemas[u] ELSE UpstreamSchema(u, r, p)
    IN  IF isEvent THEN FoldLeft(LAMBDA f, n : n.schema @@ f, base, siblings) ELSE base

IsTable(u, r, p) ==
    \/ u \in DOMAIN r.derivs /\ r.derivs[u].out = "table"
    \/ \E d \in Derivations(p) : d.name = u /\ d.out = "table"

\* compile_aggregations_from_nodes, the group_by of one derivation
CompileGroup(d, r, p, schemas) ==
    LET at == CHOOSE i \in DOMAIN d.ops : IsGroup(d.ops[i])
        keys == d.ops[at][2]
        specs == d.ops[at][3]
        prefix == SubSeq(d.ops, 1, at - 1)
        u == d.ups[1]
        bare == IF u \in DOMAIN schemas THEN schemas[u] ELSE UpstreamSchema(u, r, p)
        fields == IF prefix = <<>> THEN AggInput(u, r, p, schemas)
                  ELSE ChainSchema(bare, prefix).fields
        feats == Sorted(DOMAIN specs)
    IN  [ok |-> /\ ~IsTable(u, r, p)
                /\ \A i \in DOMAIN keys : Get(fields, keys[i], "f64") # "f64"
                /\ \A f \in DOMAIN specs : FeatureOK(f, specs[f], keys, fields),
         agg |-> [node |-> d.name, source |-> u, keys |-> keys,
                  feats |-> [i \in DOMAIN feats |-> specs[feats[i]] @@ [name |-> feats[i]]],
                  pos |-> Nothing, id |-> 0, cluster |-> 0]]

\* Feature names are unique over the payload and the registered aggregations.
UniqueFeatures(r, aggs) ==
    \A a \in DOMAIN aggs : \A i \in DOMAIN aggs[a].feats :
        LET f == aggs[a].feats[i].name
        IN  /\ f \in DOMAIN r.findex => r.findex[f][1] = a
            /\ \A b \in (DOMAIN aggs) \ {a} : \A j \in DOMAIN aggs[b].feats :
                  f # aggs[b].feats[j].name

Invalid == [ok |-> FALSE, schemas |-> Nothing, chains |-> Nothing, aggs |-> Nothing]

\* Later stages run only when the ones before found no error.
Validate(r, p) ==
    LET x == Propagate(r, p)
        grouped == {d \in Derivations(p) : \E i \in DOMAIN d.ops : IsGroup(d.ops[i])}
        compiled == [d \in grouped |-> CompileGroup(d, r, p, x.schemas)]
        aggs == [n \in {d.name : d \in grouped} |->
                    compiled[CHOOSE d \in grouped : d.name = n].agg]
    IN  IF /\ Structure(r, p)
           /\ x.ok
           /\ \A d \in grouped : d.ups # <<>> /\ compiled[d].ok
           /\ UniqueFeatures(r, aggs)
        THEN [ok |-> TRUE, schemas |-> x.schemas, chains |-> x.chains, aggs |-> aggs]
        ELSE Invalid

-----------------------------------------------------------------------------
(* Registry::apply_registration and its parts. *)

\* The fields the aggregations of a source read, in order: apply_field_names.
FieldUnion(aggs) ==
    Sorted(UNION {{a.feats[i].field : i \in DOMAIN a.feats} : a \in aggs} \ {"none"})

\* resolve_field_indices_for_agg_mut_inner: the position each feature reads, or 0;
\* a field the event does not have leaves the whole aggregation as it was
ResolveFields(a, event, union) ==
    LET At(f) == IF f \in Range(union) THEN CHOOSE i \in DOMAIN union : union[i] = f ELSE 0
    IN  IF \A i \in DOMAIN a.feats : a.feats[i].field \in (DOMAIN event.fields) \cup {"none"}
        THEN [a EXCEPT !.pos = [i \in DOMAIN a.feats |-> At(a.feats[i].field)]]
        ELSE a

InsertEvent(r, n, v) ==
    IF n.name \in DOMAIN r.events THEN r
    ELSE [r EXCEPT !.events = With(@, n.name,
            [fields |-> n.fields, since |-> r.version + 1,
             extracted |-> FieldUnion({v.aggs[m] : m \in {k \in DOMAIN v.aggs :
                                                      v.aggs[k].source = n.name}})])]

\* The next agg_id, the cluster of the key list, and the source's field positions.
InsertAggregation(r, n, v) ==
    LET a == v.aggs[n.name]
        cluster == Get(r.clusters, a.keys, Cardinality(DOMAIN r.clusters))
        owned == [a EXCEPT !.id = r.nextId, !.cluster = cluster]
        placed == IF a.source \in DOMAIN r.events
                  THEN ResolveFields(owned, r.events[a.source], r.events[a.source].extracted)
                  ELSE owned
    IN  [r EXCEPT !.nextId = @ + 1,
                  !.clusters = With(@, a.keys, cluster),
                  !.bysource = With(@, a.source, Append(Get(@, a.source, <<>>), placed)),
                  !.aggs = With(@, n.name, placed)]

InsertDerivation(r, n, v) ==
    IF n.name \in DOMAIN r.derivs THEN r
    ELSE [(IF n.name \in DOMAIN v.aggs THEN InsertAggregation(r, n, v) ELSE r) EXCEPT
            !.chains = IF n.name \in DOMAIN v.chains
                       THEN With(@, n.name, v.chains[n.name]) ELSE @,
            !.derivs = With(@, n.name,
                [n EXCEPT !.schema = v.schemas[n.name]] @@ [since |-> r.version + 1])]

\* Mutant: aggregations that were there before keep their positions.
ResolvedAgain(a, event, union, new) ==
    IF a.node \in new THEN ResolveFields(a, event, union) ELSE a

\* Every aggregation of the source is resolved again, the old ones too.
Reresolve(a, event, union, new) == ResolveFields(a, event, union)

\* The fields read from a source changed.
Refresh(r, source, new) ==
    LET union == FieldUnion(Range(r.bysource[source]))
        again == [i \in DOMAIN r.bysource[source] |->
                    Reresolve(r.bysource[source][i], r.events[source], union, new)]
        Of(n) == {i \in DOMAIN again : again[i].node = n}
    IN  IF source \notin DOMAIN r.events THEN r
        ELSE [r EXCEPT !.events[source].extracted = union,
                       !.bysource[source] = again,
                       !.aggs = [n \in DOMAIN @ |-> IF Of(n) = {} THEN @[n]
                                                    ELSE again[CHOOSE i \in Of(n) : TRUE]]]

\* An index entry that is there stays.
IndexFeatures(r, new) ==
    LET entry(f) == {<<n, i>> \in (new \X (1..Len(Order))) :
                        i \in DOMAIN r.aggs[n].feats /\ r.aggs[n].feats[i].name = f}
        names == UNION {{r.aggs[n].feats[i].name : i \in DOMAIN r.aggs[n].feats} : n \in new}
    IN  [r EXCEPT !.findex = @ @@ [f \in names |-> CHOOSE e \in entry(f) : TRUE]]

\* A node of the payload is registered as it was sent.
Installed(r, n) ==
    IF n.kind = "event"
    THEN n.name \in DOMAIN r.events /\ r.events[n.name].fields = n.fields
    ELSE /\ n.name \in DOMAIN r.derivs
         /\ r.derivs[n.name].ups = n.ups
         /\ r.derivs[n.name].ops = n.ops

\* Names that are taken keep what they have.
ApplyRegistration(r, p, v) ==
    LET filled == FoldLeft(LAMBDA s, n : IF n.kind = "event" THEN InsertEvent(s, n, v)
                                         ELSE InsertDerivation(s, n, v), r, p)
        new == (DOMAIN filled.aggs) \ (DOMAIN r.aggs)
        sources == Sorted({filled.aggs[n].source : n \in new})
        placed == FoldLeft(LAMBDA s, e : Refresh(s, e, new), filled, sources)
    IN  [IndexFeatures(placed, new) EXCEPT
            !.version = @ + 1,
            !.mixed = IF \A i \in DOMAIN p : Installed(placed, p[i]) THEN @
                      ELSE @ \cup (Names(p) \ Registered(r))]

\* Mutant: the id of a removed aggregation is given out again.
RemoveReusingIds(r, S) ==
    [r EXCEPT !.events = Without(@, S), !.derivs = Without(@, S), !.chains = Without(@, S),
              !.aggs = Without(@, S), !.mixed = @ \ S,
              !.nextId = @ - Cardinality(S \cap DOMAIN r.aggs),
              !.bysource = [e \in DOMAIN @ |-> SelectSeq(@[e], LAMBDA a : a.node \notin S)],
              !.findex = Without(@, {f \in DOMAIN @ : @[f][1] \in S})]

\* Mutant: the index keeps the features of removed aggregations.
RemoveKeepingIndex(r, S) ==
    [r EXCEPT !.events = Without(@, S), !.derivs = Without(@, S), !.chains = Without(@, S),
              !.aggs = Without(@, S), !.mixed = @ \ S,
              !.bysource = [e \in DOMAIN @ |-> SelectSeq(@[e], LAMBDA a : a.node \notin S)]]

\* force_remove_descriptors: apply_field_names and clusters are left as they are
ForceRemove(r, S) ==
    [r EXCEPT !.events = Without(@, S), !.derivs = Without(@, S), !.chains = Without(@, S),
              !.aggs = Without(@, S), !.mixed = @ \ S,
              !.bysource = [e \in DOMAIN @ |-> SelectSeq(@[e], LAMBDA a : a.node \notin S)],
              !.findex = Without(@, {f \in DOMAIN @ : @[f][1] \in S})]

\* apply_registry_bump: the removal stays when the second validation fails
ApplyBump(r, bump) ==
    LET left == ForceRemove(r, bump.removed)
        v == Validate(left, bump.nodes)
    IN  IF v.ok THEN [ok |-> TRUE, reg |-> ApplyRegistration(left, bump.nodes, v)]
        ELSE [ok |-> FALSE, reg |-> left]

-----------------------------------------------------------------------------
(* classify_register_diff.  An entry is kept as the name of the descriptor  *)
(* it is about: broken for the destructive ones, grown for new fields and   *)
(* aggregations, new and present for whole descriptors.                     *)

EventBroken(old, new) ==
    \E f \in DOMAIN old.fields : Get(new.fields, f, "absent") # old.fields[f]
EventGrown(old, new) == ~(DOMAIN new.fields \subseteq DOMAIN old.fields)

GroupPairs(old, new) ==
    {i \in (DOMAIN old.ops) \cap (DOMAIN new.ops) : IsGroup(old.ops[i]) /\ IsGroup(new.ops[i])}

\* Only group_by ops are compared, of their features only op and window.
DerivationBroken(old, new) ==
    \/ Len(old.ops) > Len(new.ops)
    \/ \E i \in GroupPairs(old, new) :
          LET was == old.ops[i][3]
              is == new.ops[i][3]
          IN  \/ old.ops[i][2] # new.ops[i][2]
              \/ \E f \in DOMAIN was : \/ f \notin DOMAIN is
                                       \/ was[f].window # is[f].window
                                       \/ was[f].op # is[f].op
    \/ "table" \in {old.out, new.out} /\ old.pk # new.pk


DerivationGrown(old, new) ==
    \E i \in GroupPairs(old, new) : \E f \in DOMAIN new.ops[i][3] :
        f \in DOMAIN old.ops[i][3] => old.ops[i][3][f].op # new.ops[i][3][f].op

\* A removed descriptor and an added one of its kind are paired as a rename.
Renamed(r, p) ==
    LET Lost(k) == {n \in Registered(r) \ Names(p) : (n \in DOMAIN r.events) = (k = "event")}
        added == SelectSeq(p, LAMBDA n : n.name \notin Registered(r))
        Before(i) == {j \in 1..i : added[j].kind = added[i].kind}
    IN  {added[i].name : i \in {j \in DOMAIN added :
                                  Cardinality(Before(j)) <= Cardinality(Lost(added[j].kind))}}

Classify(r, p) ==
    LET Both(n, kind, where) == n.kind = kind /\ n.name \in DOMAIN where
        nodes == {p[i] : i \in DOMAIN p}
        broken == {n.name : n \in {m \in nodes :
                      \/ Both(m, "event", r.events) /\ EventBroken(r.events[m.name], m)
                      \/ Both(m, "derivation", r.derivs)
                             /\ DerivationBroken(r.derivs[m.name], m)}}
        grown == {n.name : n \in {m \in nodes :
                      \/ Both(m, "event", r.events) /\ EventGrown(r.events[m.name], m)
                      \/ Both(m, "derivation", r.derivs)
                             /\ DerivationGrown(r.derivs[m.name], m)}}
    IN  [new |-> (Names(p) \ Registered(r)) \ Renamed(r, p),
         grown |-> grown,
         broken |-> broken \cup (Registered(r) \ Names(p)),
         present |-> (Names(p) \cap Registered(r)) \ (broken \cup grown)]

\* Mutant: only direct dependants follow.
DependantsOnce(r, S) ==
    S \cup {d \in DOMAIN r.derivs : Range(r.derivs[d].ups) \cap S # {}}

\* The names a forced call removes, with everything downstream of them: as many
\* rounds as there are descriptors.
Dependants(r, S) ==
    LET Round[k \in Nat] ==
            IF k = 0 THEN S
            ELSE Round[k - 1] \cup
                    {d \in DOMAIN r.derivs : Range(r.derivs[d].ups) \cap Round[k - 1] # {}}
    IN  Round[Cardinality(Registered(r))]

-----------------------------------------------------------------------------
(* A register request (dispatch_register, execute_register_inner). *)

\* pre_check_removed_ops
RemovedOps(p) ==
    \E d \in Derivations(p) : \E i \in DOMAIN d.ops : d.ops[i][1] \in {"join", "union"}

\* pre_check_unsupported_node_kind
KindsSupported(p) == \A i \in DOMAIN p : p[i].kind \in {"event", "derivation"}

\* pre_check_legacy_event_time_keys
LegacyKeys(p) ==
    \E i \in DOMAIN p : {"event_time_field", "tolerate_delay_ms"} \cap DOMAIN p[i] # {}

\* The checks of the raw body, before the payload is decoded.
PreChecked(p) ==
    /\ ~RemovedOps(p)
    /\ ~LegacyKeys(p)
    /\ KindsSupported(p)
    /\ Enforce => \A d \in Derivations(p) : \A i \in DOMAIN d.ops :
          IsGroup(d.ops[i]) => \A f \in DOMAIN d.ops[i][3] : Bounded(d.ops[i][3][f])

\* What the logged bump does to the registry.
Committed(bump) ==
    IF bump.removed = {}
    THEN [ok |-> TRUE, reg |-> ApplyRegistration(reg, bump.nodes, Validate(reg, bump.nodes))]
    ELSE ApplyBump(reg, bump)

Owned(r) == {<<r.aggs[n].id, n, r.aggs[n].feats>> : n \in DOMAIN r.aggs}

Answer(p, mode, status) ==
    answer' = [payload |-> p, mode |-> mode, status |-> status]

\* A forced call removes every descriptor the payload changes.
Removal(diff, mode) ==
    IF mode = "force" THEN Dependants(reg, diff.broken \cup diff.grown) ELSE {}

\* The answers given before anything is validated, or 0 to go on.
Preflight(p, mode, diff) ==
    CASE ~PreChecked(p) -> 400
      [] PreChecked(p) /\ mode = "dry" -> 200
      [] PreChecked(p) /\ mode = "plain" /\ diff.broken # {} -> 409
      [] OTHER -> 0

\* Mutant: the registry is changed before its bump is logged.
AppliedFirst(p, mode, bump) ==
    /\ log' = log
    /\ reg' = Committed(bump).reg
    /\ owners' = owners \cup Owned(reg')
    /\ Answer(p, mode, 503)

\* append_record_at_least failed: nothing is applied, and the bump is in the
\* file or not.
Unlogged(p, mode, bump) ==
    /\ \/ log' = log
       \/ /\ Cardinality({k \in DOMAIN log : ~log[k].acked}) < MaxLeft
          /\ log' = Append(log, bump @@ [acked |-> FALSE])
    /\ Answer(p, mode, 503)
    /\ UNCHANGED <<reg, owners>>

\* The bump is durable, and then applied.
LoggedAndApplied(p, mode, bump) ==
    /\ log' = Append(log, bump @@ [acked |-> Committed(bump).ok])
    /\ reg' = Committed(bump).reg
    /\ owners' = owners \cup Owned(reg')
    /\ Answer(p, mode, IF Committed(bump).ok THEN 200 ELSE 503)

Register(p, mode) ==
    LET diff == Classify(reg, p)
        removed == Removal(diff, mode)
        bump == [version |-> reg.version + 1, nodes |-> p, removed |-> removed]
        Refuse(status) == Answer(p, mode, status) /\ UNCHANGED <<reg, log, owners>>
    IN  /\ Len(log) < MaxBumps
        /\ UNCHANGED <<snap, diverged, restarts>>
        /\ IF Preflight(p, mode, diff) # 0 THEN Refuse(Preflight(p, mode, diff))
           ELSE IF p = <<>> THEN Refuse(200)
           ELSE IF ~Validate(reg, p).ok THEN Refuse(400)
           ELSE IF diff.new = {} /\ removed = {} THEN Refuse(200)
           ELSE Unlogged(p, mode, bump) \/ LoggedAndApplied(p, mode, bump)

-----------------------------------------------------------------------------
(* Snapshots and restarts. *)

\* The descriptors only: no caches and no counters.
TakeSnapshot ==
    /\ reg.version > 0
    /\ snap' = [version |-> reg.version, derivs |-> reg.derivs, mixed |-> reg.mixed,
                events |-> [e \in DOMAIN reg.events |->
                              [reg.events[e] EXCEPT !.extracted = <<>>]]]
    /\ snap' # snap
    /\ UNCHANGED <<reg, log, answer, owners, diverged, restarts>>

\* Mutant: the descriptors are put back without compiling them.
InstallPlain(s) ==
    [EmptyRegistry EXCEPT !.version = s.version, !.events = s.events, !.derivs = s.derivs]

\* install_from_descriptors: events, then derivations, each in name order, go
\* through the checks and apply_registration of a fresh registry.  If a check
\* fails the descriptors are installed as they are, with no caches.
InstallSnapshot(s) ==
    LET events == Sorted(DOMAIN s.events)
        derivs == Sorted(DOMAIN s.derivs)
        p == [i \in DOMAIN events |-> [kind |-> "event", name |-> events[i],
                                       fields |-> s.events[events[i]].fields]]
             \o [i \in DOMAIN derivs |-> s.derivs[derivs[i]]]
        v == Validate(EmptyRegistry, p)
    IN  IF v.ok
        THEN [ApplyRegistration(EmptyRegistry, p, v) EXCEPT !.version = s.version]
        ELSE [EmptyRegistry EXCEPT !.version = s.version, !.events = s.events,
                                   !.derivs = s.derivs, !.mixed = s.mixed]

\* replay_wal_from_lsn: a bump that does not apply ends the replay, and build
\* goes on with what there is
Recovered ==
    LET start == IF snap = <<>> THEN EmptyRegistry ELSE InstallSnapshot(snap)
        Replay(x, bump) ==
            IF ~x.ok \/ bump.version <= x.reg.version THEN x ELSE ApplyBump(x.reg, bump)
    IN  FoldLeft(Replay, [ok |-> TRUE, reg |-> start], log).reg

\* A bump that was answered with an error and is replayed all the same.
Strays == {k \in DOMAIN log : ~log[k].acked /\
                              (snap = <<>> \/ log[k].version > snap.version)}

Restart ==
    /\ restarts < MaxRestarts
    /\ restarts' = restarts + 1
    /\ reg' = Recovered
    /\ owners' = Owned(reg')
    /\ diverged' = (diverged \/ Strays # {})
    /\ answer' = [payload |-> <<>>, mode |-> "none", status |-> 0]
    /\ UNCHANGED <<log, snap>>

Init ==
    /\ reg = EmptyRegistry
    /\ log = <<>>
    /\ snap = <<>>
    /\ answer = [payload |-> <<>>, mode |-> "none", status |-> 0]
    /\ owners = {}
    /\ diverged = FALSE
    /\ restarts = 0

Next ==
    \/ \E p \in Payloads, mode \in {"plain", "force", "dry"} : Register(p, mode)
    \/ TakeSnapshot
    \/ Restart

Spec == Init /\ [][Next]_vars

-----------------------------------------------------------------------------
(* What the hot path and queries rely on. *)

FeatureNames(a) == {a.feats[i].name : i \in DOMAIN a.feats}

\* Aggregations of a source are listed once, as compiled, and each feature reads
\* the position of its own field in what the apply loop extracts from the event,
\* whatever was registered or removed later (registry.rs).
HotPathCoherent ==
    /\ UNION {{a.node : a \in Range(reg.bysource[e])} : e \in DOMAIN reg.bysource}
           = DOMAIN reg.aggs
    /\ \A e \in DOMAIN reg.bysource : \A k \in DOMAIN reg.bysource[e] :
          LET a == reg.bysource[e][k]
          IN  /\ reg.aggs[a.node] = a
              /\ \A j \in (DOMAIN reg.bysource[e]) \ {k} : reg.bysource[e][j].node # a.node
              /\ \A i \in DOMAIN a.pos :
                    IF a.feats[i].field = "none" THEN a.pos[i] = 0
                    ELSE reg.events[e].extracted[a.pos[i]] = a.feats[i].field

\* A query for a feature finds the aggregation that computes it, and no other
\* name resolves (registry.rs, feature_index).
FeaturesIndexed ==
    /\ DOMAIN reg.findex = UNION {FeatureNames(reg.aggs[n]) : n \in DOMAIN reg.aggs}
    /\ \A f \in DOMAIN reg.findex :
          LET n == reg.findex[f][1] IN reg.aggs[n].feats[reg.findex[f][2]].name = f

\* A table slot belongs to one aggregation for ever: a forced change never counts
\* on in the state of what it replaced.
AggIdsPrivate == \A x, y \in owners : x[1] = y[1] => x = y

SchemaOf(n) == IF n \in DOMAIN reg.events THEN reg.events[n].fields ELSE reg.derivs[n].schema

\* Nothing registered depends on something that is gone or on a shape it no longer
\* has: a derived schema is the one its registered upstreams give, and the keys
\* and fields of an aggregation are fields of what feeds it.  Excepted are the
\* descriptors that came in with a node that was left out.
NothingStale ==
    /\ \A d \in DOMAIN reg.derivs : Range(reg.derivs[d].ups) \subseteq Registered(reg)
    /\ \A d \in (DOMAIN reg.derivs) \ (DOMAIN reg.aggs \cup reg.mixed) :
          (~\E i \in DOMAIN reg.derivs[d].ops : IsGroup(reg.derivs[d].ops[i])) =>
          reg.derivs[d].schema = ChainSchema(SchemaOf(reg.derivs[d].ups[1]),
                                             reg.derivs[d].ops).fields
    /\ \A n \in (DOMAIN reg.aggs) \ reg.mixed :
          LET a == reg.aggs[n]
              input == ChainSchema(SchemaOf(a.source), Get(reg.chains, n, <<>>)).fields
          IN  Range(a.keys) \cup {a.feats[i].field : i \in DOMAIN a.feats}
                  \subseteq (DOMAIN input) \cup {"none"}

\* registry.rs: until a restart replays a bump that had been refused, the caches the
\* apply loop and queries read (aggregations by source, field positions, the
\* feature index) agree with the registered descriptors, and nothing registered
\* depends on something a forced change removed.
CachesCoherent == diverged \/ (HotPathCoherent /\ FeaturesIndexed /\ NothingStale)

\* What a client can tell of a registry, by asking and by pushing.
Shape(r) ==
    [version |-> r.version,
     events |-> [e \in DOMAIN r.events |-> r.events[e].fields],
     derivs |-> [d \in DOMAIN r.derivs |-> Without(r.derivs[d], {"since"})],
     chains |-> r.chains,
     aggs |-> [n \in DOMAIN r.aggs |-> Without(r.aggs[n], {"id", "cluster", "pos"})],
     findex |-> r.findex]

\* The descriptors of the snapshot pass the checks again: each derivation's name
\* sorts after those it is derived from, and none came in with a node left out.
Reinstallable(s) ==
    /\ s.mixed = {}
    /\ \A d \in DOMAIN s.derivs : \A u \in Range(s.derivs[d].ups) \cap DOMAIN s.derivs :
          Rank(u) < Rank(d)

\* recovery.rs: a restart, from the newest snapshot and the bumps or from the bumps
\* alone, brings back the registry and its compiled aggregations, as long as it
\* replays no bump that was refused and the snapshot can be installed.
RestartKeepsRegistry ==
    [][restarts' # restarts /\ Strays = {} /\ ~diverged
         /\ (snap # <<>> => Reinstallable(snap)) => Shape(reg') = Shape(reg)]_vars

Sent(status, mode) ==
    UNCHANGED <<snap, restarts>> /\ answer'.status = status /\ answer'.mode = mode

\* What a registration is told apart by from one of the same name: the keys, the
\* features with their op and window, and the primary key.
Outline(d) ==
    [groups |-> {[at |-> i, keys |-> d.ops[i][2],
                  feats |-> [f \in DOMAIN d.ops[i][3] |->
                               <<d.ops[i][3][f].op, d.ops[i][3][f].window>>]] :
                   i \in {j \in DOMAIN d.ops : IsGroup(d.ops[j])}},
     pk |-> d.pk]
Lookalike(r, n) ==
    /\ n.kind = "derivation" /\ n.name \in DOMAIN r.derivs
    /\ Len(n.ops) >= Len(r.derivs[n.name].ops)
    /\ Outline(n) = Outline(r.derivs[n.name])


=============================================================================
