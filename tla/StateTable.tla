----------------------------- MODULE StateTable -----------------------------
(* The table of one aggregation: how an event finds its entity, the        *)
(* eviction of cold entities, what a snapshot writes and restores, the     *)
(* replay of later events, and how a query's key string finds an entity    *)
(* (crates/beava-core/src/agg_state_table.rs and agg_apply.rs,             *)
(* crates/beava-server/src/feature_query.rs and recovery.rs).  The         *)
(* operators of an entity are abstracted to the events that fed them.      *)
EXTENDS Integers, Sequences, FiniteSets
LOCAL INSTANCE SequencesExt
LOCAL INSTANCE FiniteSetsExt

CONSTANTS
    Arity,        \* number of group keys; 0 for a global table
    KeyType,      \* declared type of a single group key
    KeyValues,    \* values of a group key in an event
    Steps,        \* by how much the clock moves between events
    ColdAfter,    \* cold_after_ms, 0 when the source has none
    Payload,      \* 2^60: the part of a 64-bit key that is kept
    MaxEvents,    \* bound on the events
    OldFormat,    \* whether snapshots have the older format, with every key a text
    MaxRestarts   \* bound on restarts

(* A value is <<type, x>>: an i64, a datetime or a bool by its value, an   *)
(* f64 by its bits (an unsigned word of 16 * Payload), a str by its text.  *)
(* A text is <<form, x>>: the numeral of an integer or of a float, a       *)
(* truth value, a word, a word with a bar in it, or such a word with the   *)
(* bar percent-encoded.                                                    *)

VARIABLES
    table,      \* entity key shape -> the numbers of the events that fed it
    last,       \* entity key shape -> last_seen_ms
    snap,       \* the latest snapshot: its entries and how many events it covers
    log,        \* the durable events
    clock,
    restarts,
    cuts        \* history: how many events the snapshots covered that restarts loaded

vars == <<table, last, snap, log, clock, restarts, cuts>>

-----------------------------------------------------------------------------
\* EntityKeyShape

Word == 16 * Payload
Bits(v) == CASE v[1] = "f64" -> v[2] [] v[1] = "bool" -> IF v[2] THEN 1 ELSE 0 [] OTHER -> v[2] % Word
VariantTag(type) == CASE type = "i64" -> 1 [] type = "f64" -> 2 [] type = "bool" -> 3 [] type = "datetime" -> 4

\* Mutant: the tag is left out
TagU64NoTag(v) == Bits(v) % Payload
TagU64(v) == VariantTag(v[1]) * Payload + (Bits(v) % Payload)

Text(v) ==
    CASE v[1] = "str" -> v[2] [] v[1] = "f64" -> <<"float", v[2]>>
      [] v[1] = "bool" -> <<"truth", v[2]>> [] OTHER -> <<"integer", v[2]>>

NotAKey == {"null", "nan", "absent", "bytes", "json"}
\* Mutant: a compound key with a missing part is kept
NoShapeLenient(key) == \A i \in DOMAIN key : key[i][1] \in NotAKey
NoShape(key) == \E i \in DOMAIN key : key[i][1] \in NotAKey
\* Mutant: the parts of a compound key in another order
PartsReversed(key) == [i \in DOMAIN key |-> Text(key[Len(key) + 1 - i])]
Parts(key) == [i \in DOMAIN key |-> Text(key[i])]
FromRow(key) ==
    IF Arity = 1 THEN (IF key[1][1] = "str" THEN <<"str", key[1][2]>> ELSE <<"u64", TagU64(key[1])>>)
    ELSE <<"multi", Parts(key)>>

-----------------------------------------------------------------------------
\* apply_event_to_aggregations for one aggregation

Put(f, x, y) == [z \in DOMAIN f \union {x} |-> IF z = x THEN y ELSE f[z]]
Monus(a, b) == IF a > b THEN a - b ELSE 0

\* Mutant: an entity is cold as soon as the idle time reaches the threshold
ColdAtThreshold(t, sh, now) == sh \in DOMAIN t.last /\ Monus(now, t.last[sh]) >= ColdAfter
Cold(t, sh, now) == sh \in DOMAIN t.last /\ Monus(now, t.last[sh]) > ColdAfter

\* evict_entity_by_shape_if_cold, get_or_init_by_shape, the updates, and
\* record_last_seen_by_shape
Apply(t, e, n) ==
    IF NoShape(e.key) THEN t
    ELSE LET sh == FromRow(e.key)
             evicted == ColdAfter # 0 /\ Cold(t, sh, e.t)
             fed == IF sh \in DOMAIN t.table /\ ~evicted THEN Append(t.table[sh], n) ELSE <<n>>
         IN  [table |-> Put(t.table, sh, fed),
              last |-> IF ColdAfter # 0 THEN Put(t.last, sh, e.t) ELSE t.last]

Nothing == [table |-> <<>>, last |-> <<>>]
\* Applies the events numbered from + 1 on.
ApplyAll(t, events, from) ==
    FoldLeft(LAMBDA u, n : Apply(u, events[n], n), t, [i \in 1 .. Len(events) - from |-> from + i])

-----------------------------------------------------------------------------
\* Snapshot: iter_sorted writes typed keys, insert_from_entity_key_with_types
\* reads them, and the texts that older snapshots have in their place

KeyOf(tag, payload) ==
    CASE tag = 1 -> <<"i64", payload>>
      [] tag = 2 -> <<"f64", payload + 2 * Payload>>
      [] tag = 3 -> <<"bool", payload # 0>>
      [] tag = 4 -> <<"datetime", payload>>
      [] OTHER -> <<"str", <<"word", "unknown">>>>

WrittenKey(sh) ==
    IF sh[1] # "u64" THEN sh
    ELSE LET key == KeyOf(sh[2] \div Payload, sh[2] % Payload)
         IN  IF OldFormat \/ key[1] = "str" THEN <<"str", Text(key)>> ELSE <<"value", key>>

\* s.parse::<T>() of a single text key, when the group key has type T
Parses(text, type) ==
    CASE text[1] = "integer" -> type \in {"i64", "datetime"}
      [] text[1] = "float" -> type = "f64"
      [] text[1] = "truth" -> type = "bool"
      [] OTHER -> FALSE

\* Mutant: the declared type of the key is not used
ReadShapeUntyped(k) == IF k[1] = "value" THEN <<"u64", TagU64(k[2])>> ELSE k
\* Mutant: restored keys stay in the map of compound keys
ReadShapeMulti(k) == IF k[1] = "str" THEN <<"multi", <<k[2]>>>> ELSE <<"u64", TagU64(k[2])>>
ReadShape(k) ==
    CASE k[1] = "str" -> IF Parses(k[2], KeyType) THEN <<"u64", TagU64(<<KeyType, k[2][2]>>)>> ELSE k
      [] k[1] = "value" -> <<"u64", TagU64(k[2])>>
      [] k[1] = "multi" -> k

\* Text keys come first in the sorted order, so a typed entry of the same
\* shape overwrites a text one.
Restored(entries) ==
    LET shapes == {ReadShape(k) : k \in DOMAIN entries}
        Typed(sh) == {k \in DOMAIN entries : k[1] = "value" /\ ReadShape(k) = sh}
        Of(sh) == IF Typed(sh) # {} THEN Typed(sh) ELSE {k \in DOMAIN entries : ReadShape(k) = sh}
    IN  [sh \in shapes |-> entries[CHOOSE k \in Of(sh) : TRUE]]

Written(t) ==
    [k \in {WrittenKey(sh) : sh \in DOMAIN t} |-> t[CHOOSE sh \in DOMAIN t : WrittenKey(sh) = k]]

-----------------------------------------------------------------------------
\* Queries: parse_entity_key and query_feature

\* The key string that a client sends, as the segments split('|') finds.
Segments(text) == IF text[1] = "barred" THEN <<<<"word", text[2]>>, <<"word", text[3]>>>> ELSE <<text>>
PercentEncoded(text) == IF text[1] = "barred" THEN <<"encoded", text[2], text[3]>> ELSE text
ParseEntityKey(segments) == IF Len(segments) = Arity THEN segments ELSE <<"key_parse_failure">>

\* Mutant: a single text key is looked up among compound keys only
QueryMultiOnly(texts) ==
    IF <<"multi", texts>> \in DOMAIN table THEN table[<<"multi", texts>>] ELSE <<>>
Query(texts) ==
    LET single == IF Len(texts) = 1 THEN <<"str", texts[1]>> ELSE <<"multi", texts>> IN
    CASE single \in DOMAIN table -> table[single]
      [] single \notin DOMAIN table /\ <<"multi", texts>> \in DOMAIN table -> table[<<"multi", texts>>]
      [] OTHER -> <<>>

\* What a read of an event's own key answers, if the client encodes each part.
AnswerTo(key) ==
    Query(ParseEntityKey(FlattenSeq([i \in DOMAIN key |-> Segments(PercentEncoded(Text(key[i])))])))

-----------------------------------------------------------------------------

Init ==
    /\ table = <<>> /\ last = <<>> /\ log = <<>> /\ clock = 0 /\ restarts = 0 /\ cuts = {}
    /\ snap = [entries |-> <<>>, upto |-> 0]

Push(key, d) ==
    LET e == [key |-> key, t |-> clock + d]
        after == Apply([table |-> table, last |-> last], e, Len(log) + 1)
    IN  /\ Len(log) < MaxEvents
        /\ clock' = clock + d
        /\ log' = Append(log, e)
        /\ table' = after.table /\ last' = after.last
        /\ UNCHANGED <<snap, restarts, cuts>>

TakeSnapshot ==
    /\ snap.upto < Len(log)
    /\ snap' = [entries |-> Written(table), upto |-> Len(log)]
    /\ UNCHANGED <<table, last, log, clock, restarts, cuts>>

\* load_snapshot_if_any, then the replay of the later events at their own times;
\* the snapshot has no last_seen_ms
Restart ==
    LET after == ApplyAll([table |-> Restored(snap.entries), last |-> <<>>], log, snap.upto) IN
    /\ restarts < MaxRestarts /\ log # <<>>
    /\ restarts' = restarts + 1 /\ cuts' = cuts \union {snap.upto}
    /\ table' = after.table /\ last' = after.last
    /\ UNCHANGED <<snap, log, clock>>

Next ==
    \/ \E key \in [1 .. Arity -> KeyValues], d \in Steps : Push(key, d)
    \/ TakeSnapshot
    \/ Restart

Spec == Init /\ [][Next]_vars

-----------------------------------------------------------------------------

Keyed == {n \in DOMAIN log : \A i \in 1 .. Arity : log[n].key[i][1] \notin NotAKey}
Fed(n) == {sh \in DOMAIN table : \E i \in DOMAIN table[sh] : table[sh][i] = n}

\* A single integer or time is kept by its low bits only; agg_state_table.rs
\* lists that as a limitation.
Alike(m, n) ==
    \/ log[m].key = log[n].key
    \/ /\ Arity = 1 /\ log[m].key[1][1] = log[n].key[1][1]
       /\ log[m].key[1][1] \in {"i64", "datetime"}
       /\ (log[m].key[1][2] - log[n].key[1][2]) % Payload = 0

(* Every event with a full key fed one row, and two events share a row     *)
(* exactly when they have the same key, up to the bits of an integer that  *)
(* are not kept.                                                           *)
RowPerKey ==
    /\ \A m, n \in Keyed : (Fed(m) = Fed(n)) <=> Alike(m, n)
    /\ \A n \in DOMAIN log : Cardinality(Fed(n)) = (IF n \in Keyed THEN 1 ELSE 0)

(* A restart leaves the table as an uninterrupted process would have it.   *)
TableRebuilt == table = ApplyAll(Nothing, log, 0).table

(* With a cold threshold a row holds exactly the events since the last     *)
(* time the key was idle for longer than that, if the idle time does not   *)
(* span the snapshot that a restart loaded.                                *)
ColdExact ==
    \A n \in Keyed :
        LET mine == {m \in Keyed : Alike(m, n)}
            Before(m) == {x \in mine : x < m}
            Gap(m) ==
                /\ Before(m) # {} /\ Monus(log[m].t, log[Max(Before(m))].t) > ColdAfter
                /\ ~\E c \in cuts : Max(Before(m)) <= c /\ c < m
            start == Max({Min(mine)} \union {m \in mine : Gap(m)})
        IN  table[FromRow(log[n].key)] = SetToSortSeq({m \in mine : m >= start}, LAMBDA x, y : x < y)

(* An event can be read back under its own key.                            *)
ReadBack == \A n \in Keyed : \E i \in DOMAIN AnswerTo(log[n].key) :
                AnswerTo(log[n].key)[i] = n
=============================================================================
