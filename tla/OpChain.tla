------------------------------ MODULE OpChain -------------------------------
(***************************************************************************)
(* The chain of row operations of a derivation (filter, select, drop,      *)
(* rename, with_columns, cast, fillna): the output schema registration     *)
(* computes for it (schema_propagate.rs), the rows it produces when an     *)
(* event arrives (op_chain.rs), and what an aggregation on the derivation  *)
(* is fed (agg_apply.rs).                                                  *)
(*                                                                         *)
(* A behaviour writes a chain op by op.  An op is                          *)
(*   <<"filter", e>>  <<"select", S>>  <<"drop", S>>                       *)
(*   <<"rename", <<old, new>>...>>  <<"with", <<name, e>>...>>             *)
(*   <<"cast", <<field, target>>...>>  <<"fillna", <<field, value>>...>>   *)
(* with the pairs of a map in the order of its keys, which is the order a  *)
(* BTreeMap is read in.  Expressions are parsed (see SdkExpr for parsing). *)
(***************************************************************************)
EXTENDS ExprLang
LOCAL INSTANCE SequencesExt

CONSTANTS
    Candidates,  \* the ops a chain is made of
    MaxOps,      \* bound: ops of a chain
    Source,      \* the fields of the source event and their types
    Optional,    \* those of them that are optional
    Key,         \* the group key of the aggregation
    Features     \* the fields its features read; the first one is observed

VARIABLES
    ops

-----------------------------------------------------------------------------
(* Rows the push handler lets through (apply_shard.rs). *)

Samples == [t \in {"str", "i64", "f64", "bool"} |->
    CASE t = "str" -> {Str("a"), Str("2")} [] t = "bool" -> {Bool(TRUE)}
      [] OTHER -> {I64(1), Fin(1)}]

\* value_type_compatible: both number types take either kind of number
TypeCompatible(v, t) == v[1] = t \/ (IsNumeric(v) /\ NumericType(t))

\* validate_row_against_descriptor: a required field is there with its type, an
\* optional one is not looked at
EventRows ==
    LET Sent == {Null} \cup UNION {Samples[Source[f]] : f \in DOMAIN Source}
    IN  {row \in UNION {[(DOMAIN Source) \ O -> Sent] : O \in SUBSET Optional} :
            \A f \in (DOMAIN Source) \ Optional : TypeCompatible(row[f], Source[f])}

\* Events whose optional fields are null or of their type, too.
TypedRows ==
    {row \in EventRows : \A f \in DOMAIN row :
        TypeCompatible(row[f], Source[f]) \/ row[f] = Null}

-----------------------------------------------------------------------------
(* Schema propagation.  A schema is [fields, opt, err]. *)

Without(fn, S) == [x \in (DOMAIN fn) \ S |-> fn[x]]
With(fn, x, v) == (x :> v) @@ fn
Firsts(pairs) == {pairs[i][1] : i \in DOMAIN pairs}
Seconds(pairs) == {pairs[i][2] : i \in DOMAIN pairs}
Refused(s) == [s EXCEPT !.err = TRUE]

\* apply_filter_schema: the predicate's type is computed and thrown away
FilterSchema(s, e) == IF Accepted(e, s.fields) THEN s ELSE Refused(s)

\* apply_select_schema
SelectSchema(s, S) ==
    [fields |-> Without(s.fields, (DOMAIN s.fields) \ S), opt |-> s.opt \cap S,
     err |-> s.err \/ ~(S \subseteq DOMAIN s.fields)]

\* apply_drop_schema
DropSchema(s, S) ==
    [fields |-> Without(s.fields, S), opt |-> s.opt \ S,
     err |-> s.err \/ ~(S \subseteq DOMAIN s.fields)]

NewName(pairs, f) ==
    IF f \in Firsts(pairs) THEN (CHOOSE i \in DOMAIN pairs : pairs[i][1] = f) ELSE 0
Renamed(pairs, f) == IF NewName(pairs, f) = 0 THEN f ELSE pairs[NewName(pairs, f)][2]

\* Mutant: the optional flag stays with the old name.
RenamedOptOld(s, pairs) == s.opt \ Firsts(pairs)

\* The optional flag moves to the new name.
RenamedOpt(s, pairs) == {Renamed(pairs, f) : f \in s.opt}

\* apply_rename_schema: of two fields given one name the later key wins
RenameSchema(s, pairs) ==
    LET Olds(n) == {f \in DOMAIN s.fields : Renamed(pairs, f) = n}
        Latest(n) == CHOOSE f \in Olds(n) : \A g \in Olds(n) : StrRank(g) <= StrRank(f)
        bad == \/ ~(Firsts(pairs) \subseteq DOMAIN s.fields)
               \/ \E n \in Seconds(pairs) : n \in (DOMAIN s.fields) \ Firsts(pairs)
    IN  [fields |-> [n \in {Renamed(pairs, f) : f \in DOMAIN s.fields} |-> s.fields[Latest(n)]],
         opt |-> RenamedOpt(s, pairs), err |-> s.err \/ bad]

\* apply_with_columns_schema, one column: a column without a type is not added
ColumnSchema(s, pair) ==
    LET t == Infer(pair[2], s.fields).t
    IN  CASE ~Accepted(pair[2], s.fields) -> Refused(s)
          [] t = "none" -> s
          [] t = "nulllit" -> [s EXCEPT !.fields = With(@, pair[1], "str")]
          [] OTHER -> [s EXCEPT !.fields = With(@, pair[1], t), !.opt = @ \ {pair[1]}]

\* Mutant: the field keeps the type it had.
CastKeepsType(s, pair) == IF pair[1] \notin DOMAIN s.fields THEN Refused(s) ELSE s

\* apply_cast_schema, one field
CastSchema(s, pair) ==
    IF pair[1] \notin DOMAIN s.fields \/ ParseCastTarget(pair[2]) = "none" THEN Refused(s)
    ELSE [s EXCEPT !.fields = With(@, pair[1], ParseCastTarget(pair[2]))]

\* apply_fillna_schema, one field: the default's type is not looked at
FillnaSchema(s, pair) ==
    IF pair[1] \notin DOMAIN s.fields THEN Refused(s) ELSE [s EXCEPT !.opt = @ \ {pair[1]}]

SchemaStep(s, op) ==
    CASE op[1] = "filter" -> FilterSchema(s, op[2])
      [] op[1] = "select" -> SelectSchema(s, op[2])
      [] op[1] = "drop" -> DropSchema(s, op[2])
      [] op[1] = "rename" -> RenameSchema(s, op[2])
      [] op[1] = "with" -> FoldLeft(ColumnSchema, s, op[2])
      [] op[1] = "cast" -> FoldLeft(CastSchema, s, op[2])
      [] op[1] = "fillna" -> FoldLeft(FillnaSchema, s, op[2])

\* propagate_schema
PropagateSchema(chain) ==
    FoldLeft(SchemaStep, [fields |-> Source, opt |-> Optional, err |-> FALSE], chain)

-----------------------------------------------------------------------------
(* Applying a chain to a row.  The result is [kept, row]. *)

\* The row without the old names, then the new ones set in order.
RenameRow(row, pairs) ==
    FoldLeft(LAMBDA r, p : IF p[1] \in DOMAIN row THEN With(r, p[2], row[p[1]]) ELSE r,
             Without(row, Firsts(pairs)), pairs)

\* A column sees the ones before it.
WithColumnsRow(row, pairs) ==
    FoldLeft(LAMBDA r, p : With(r, p[1], Eval(p[2], r)), row, pairs)

CastRow(row, pairs) ==
    FoldLeft(LAMBDA r, p : IF p[1] \in DOMAIN r
                           THEN With(r, p[1], CastEval(r[p[1]], p[2])) ELSE r, row, pairs)

\* Only a null that is there is replaced.
FillnaRow(row, pairs) ==
    FoldLeft(LAMBDA r, p : IF p[1] \in DOMAIN r /\ r[p[1]] = Null
                           THEN With(r, p[1], p[2]) ELSE r, row, pairs)

\* OpChain::apply, one op: a filter keeps a row only when it is true
RowStep(x, op) ==
    LET Set(row) == [x EXCEPT !.row = row]
    IN  CASE ~x.kept -> x
          [] op[1] = "filter" -> [x EXCEPT !.kept = (Eval(op[2], x.row) = Bool(TRUE))]
          [] op[1] = "select" -> Set(Without(x.row, (DOMAIN x.row) \ op[2]))
          [] op[1] = "drop" -> Set(Without(x.row, op[2]))
          [] op[1] = "rename" -> Set(RenameRow(x.row, op[2]))
          [] op[1] = "with" -> Set(WithColumnsRow(x.row, op[2]))
          [] op[1] = "cast" -> Set(CastRow(x.row, op[2]))
          [] op[1] = "fillna" -> Set(FillnaRow(x.row, op[2]))

Apply(chain, row) == FoldLeft(RowStep, [kept |-> TRUE, row |-> row], chain)

-----------------------------------------------------------------------------
(* What an aggregation on the derivation is fed (apply_event_to_aggregations *)
(* _with_descs).                                                             *)

\* Fields are read at positions of the source event, unless some feature reads a
\* field the source does not have: then resolution fails for the whole
\* aggregation and every field is read by name from the chain's row.
Positional == \A i \in DOMAIN Features : Features[i] \in DOMAIN Source

\* Mutant: the chain's verdict on the row is not looked at.
FedAnyway(chain, row) ==
    IF FieldValue(row, Key) \in {Null, NaN} THEN <<"skipped">>
    ELSE <<"fed", FieldValue(row, Key),
           FieldValue(IF Positional THEN row ELSE Apply(chain, row).row, Features[1])>>

\* The group key is read from the source row, and a null key skips the event.
Fed(chain, row) ==
    LET x == Apply(chain, row)
    IN  IF ~x.kept \/ FieldValue(row, Key) \in {Null, NaN} THEN <<"skipped">>
        ELSE <<"fed", FieldValue(row, Key),
               FieldValue(IF Positional THEN row ELSE x.row, Features[1])>>

-----------------------------------------------------------------------------
Init == ops = <<>>

AddOp ==
    \E op \in Candidates :
        /\ Len(ops) < MaxOps
        /\ ops' = Append(ops, op)

Next == AddOp
Spec == Init /\ [][Next]_ops

Out == PropagateSchema(ops)
Registered == ~Out.err /\ Key \in DOMAIN Out.fields
                  /\ \A i \in DOMAIN Features : Features[i] \in DOMAIN Out.fields

\* Every default of a fillna has the type its field has there; registration does
\* not compare the two.
DefaultsTyped ==
    \A i \in {i \in DOMAIN ops : ops[i][1] = "fillna"} : \A j \in DOMAIN ops[i][2] :
        LET fields == PropagateSchema(SubSeq(ops, 1, i - 1)).fields
            pair == ops[i][2][j]
        IN  pair[1] \in DOMAIN fields => TypeCompatible(pair[2], fields[pair[1]])

\* The fields of the output that were optional when a fillna named them, under
\* their present names: the schema calls them required, a row may lack them.
FilledStep(x, op) ==
    [schema |-> SchemaStep(x.schema, op),
     filled |->
        CASE op[1] = "fillna" -> x.filled \cup (Firsts(op[2]) \cap x.schema.opt)
          [] op[1] = "with" -> x.filled \ Firsts(op[2])
          [] op[1] = "rename" -> {Renamed(op[2], f) : f \in x.filled}
          [] OTHER -> x.filled]
Filled ==
    FoldLeft(FilledStep, [schema |-> PropagateSchema(<<>>), filled |-> {}], ops).filled

\* A row that leaves the chain holds what its schema promises: no other fields,
\* and each value null or of the declared type, if the event and the defaults were
\* well typed.  Downstream derivations and aggregations are checked against that
\* schema only.
ChainFollowsSchema ==
    ~Out.err /\ DefaultsTyped =>
        \A row \in TypedRows :
            LET x == Apply(ops, row)
            IN  x.kept =>
                  /\ DOMAIN x.row \subseteq DOMAIN Out.fields
                  /\ \A f \in DOMAIN x.row :
                        x.row[f] = Null \/ TypeCompatible(x.row[f], Out.fields[f])

\* A field the output schema calls required is in every row that leaves the chain,
\* unless a fillna made it required: fillna replaces a null and adds no field.
RequiredFieldsPresent ==
    ~Out.err =>
        \A row \in TypedRows :
            LET x == Apply(ops, row)
            IN  x.kept => (DOMAIN Out.fields) \ (Out.opt \cup Filled) \subseteq DOMAIN x.row

\* An op that changes field f.
Touches(op, f) ==
    \/ op[1] \in {"with", "cast", "fillna"} /\ f \in Firsts(op[2])
    \/ op[1] = "rename" /\ f \in Firsts(op[2]) \cup Seconds(op[2])

\* An event the chain drops feeds nothing, and where no op changes the key or the
\* fields read, an aggregation is fed the key and the value of the chain's row.
FedFromUntouchedFields ==
    Registered /\ (\A i \in DOMAIN ops : \A f \in {Key, Features[1]} : ~Touches(ops[i], f)) =>
        \A row \in EventRows :
            LET x == Apply(ops, row)
            IN  Fed(ops, row) =
                  IF x.kept /\ FieldValue(x.row, Key) # Null
                  THEN <<"fed", FieldValue(x.row, Key), FieldValue(x.row, Features[1])>>
                  ELSE <<"skipped">>

=============================================================================
