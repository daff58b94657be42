------------------------------ MODULE ExprLang ------------------------------
(***************************************************************************)
(* The expression language of filters, computed columns and `where`        *)
(* predicates: how the Python SDK writes an expression (_col.py), how the  *)
(* server parses it back (expr.rs), which type it infers                   *)
(* (schema_propagate.rs), and what it evaluates to on a row (eval.rs,      *)
(* expr_builtins.rs, row.rs).  Operators only; SdkExpr checks them on      *)
(* expressions built with the SDK, OpChain uses them in derivations.       *)
(*                                                                         *)
(* Values are tagged tuples.  An i64 is an integer of MinInt..MaxInt; an   *)
(* f64 is an infinity, NaN or a number of halves up to FMax.  Bytes,       *)
(* datetimes and JSON values are left out.                                 *)
(***************************************************************************)
EXTENDS Integers, Sequences, FiniteSets, TLC

CONSTANTS
    MaxInt,      \* the largest i64
    FMax,        \* the largest finite f64, in halves
    MaxDepth,    \* MAX_PARSE_DEPTH = MAX_EVAL_DEPTH
    StrOrder     \* every text that occurs, in byte order

-----------------------------------------------------------------------------
(* Values (row.rs). *)

MinInt == -MaxInt - 1
Null == <<"null">>
Bool(b) == <<"bool", b>>
I64(n) == <<"i64", n>>
Str(s) == <<"str", s>>
Fin(h) == <<"f64", "fin", h>>
Inf(s) == <<"f64", "inf", s>>
NaN == <<"f64", "nan", 0>>
\* What the process does instead of returning: the release profile aborts.
Panic == <<"panic">>

Sign(n) == IF n > 0 THEN 1 ELSE IF n < 0 THEN -1 ELSE 0
\* Mutant: arithmetic wraps around.
ClampWraps(n, lo, hi) == lo + ((n - lo) % (hi - lo + 1))
Clamp(n, lo, hi) == IF n < lo THEN lo ELSE IF n > hi THEN hi ELSE n
TruncDiv(n, k) == Sign(n) * Sign(k) * ((n * Sign(n)) \div (k * Sign(k)))

IsNumeric(v) == v[1] \in {"i64", "f64"}
\* `x as f64`
AsFloat(v) == IF v[1] = "i64" THEN Fin(2 * v[2]) ELSE v
Rounded(h) == IF h > FMax THEN Inf(1) ELSE IF h < -FMax THEN Inf(-1) ELSE Fin(h)

FAdd(x, y) ==
    CASE "nan" \in {x[2], y[2]} -> NaN
      [] x[2] = "inf" /\ y[2] = "inf" -> IF x = y THEN x ELSE NaN
      [] x[2] = "inf" -> x
      [] y[2] = "inf" -> y
      [] OTHER -> Rounded(x[3] + y[3])

FNeg(x) == <<"f64", x[2], -x[3]>>

FMul(x, y) ==
    CASE "nan" \in {x[2], y[2]} -> NaN
      [] "inf" \in {x[2], y[2]} ->
             IF 0 \in {x[3], y[3]} THEN NaN ELSE Inf(Sign(x[3]) * Sign(y[3]))
      [] OTHER -> Rounded(TruncDiv(x[3] * y[3], 2))

\* The sign of a zero divisor is left out: it counts as +0.
FDiv(x, y) ==
    CASE "nan" \in {x[2], y[2]} -> NaN
      [] x[2] = "inf" -> IF y[2] = "inf" THEN NaN
                         ELSE Inf(x[3] * (IF y[3] < 0 THEN -1 ELSE 1))
      [] y[2] = "inf" -> Fin(0)
      [] y[3] = 0 -> IF x[3] = 0 THEN NaN ELSE Inf(Sign(x[3]))
      [] OTHER -> Rounded(TruncDiv(2 * x[3], y[3]))

-----------------------------------------------------------------------------
(* Evaluation (eval.rs). *)

\* i64 / i64: null by zero, truncating; MIN / -1 overflows, and Rust panics.
IntDiv(x, y) ==
    IF y = 0 THEN Null
    ELSE IF x = MinInt /\ y = -1 THEN Panic ELSE I64(TruncDiv(x, y))

\* arith_add, arith_sub, arith_mul, arith_div
Arith(op, a, b) ==
    CASE a[1] = "i64" /\ b[1] = "i64" ->
           (CASE op = "+" -> I64(Clamp(a[2] + b[2], MinInt, MaxInt))
              [] op = "-" -> I64(Clamp(a[2] - b[2], MinInt, MaxInt))
              [] op = "*" -> I64(Clamp(a[2] * b[2], MinInt, MaxInt))
              [] op = "/" -> IntDiv(a[2], b[2]))
      [] IsNumeric(a) /\ IsNumeric(b) ->
           LET x == AsFloat(a)
               y == AsFloat(b)
           IN  (CASE op = "+" -> FAdd(x, y)
                  [] op = "-" -> FAdd(x, FNeg(y))
                  [] op = "*" -> FMul(x, y)
                  [] op = "/" -> FDiv(x, y))
      [] OTHER -> Null

StrRank(s) == CHOOSE i \in DOMAIN StrOrder : StrOrder[i] = s
Cmp(x, y) == IF x < y THEN "lt" ELSE IF x > y THEN "gt" ELSE "eq"
\* Position of a float on the line; only compared when neither is NaN.
Place(x) == IF x[2] = "inf" THEN x[3] * (FMax + 2 * MaxInt + 2) ELSE x[3]

\* try_compare: "none" when the two are not comparable, or one is NaN
TryCompare(a, b) ==
    CASE IsNumeric(a) /\ IsNumeric(b) ->
           LET x == AsFloat(a)
               y == AsFloat(b)
           IN  IF "nan" \in {x[2], y[2]} THEN "none" ELSE Cmp(Place(x), Place(y))
      [] a[1] = "str" /\ b[1] = "str" -> Cmp(StrRank(a[2]), StrRank(b[2]))
      [] a[1] = "bool" /\ b[1] = "bool" ->
           Cmp(IF a[2] THEN 1 ELSE 0, IF b[2] THEN 1 ELSE 0)
      [] OTHER -> "none"

Holding == [o \in {">", ">=", "<", "<=", "==", "!="} |->
    CASE o = ">" -> {"gt"} [] o = ">=" -> {"gt", "eq"} [] o = "<" -> {"lt"}
      [] o = "<=" -> {"lt", "eq"} [] o = "==" -> {"eq"} [] o = "!=" -> {"lt", "gt"}]

\* cmp_op, cmp_eq, cmp_ne
Compare(op, a, b) ==
    LET ord == TryCompare(a, b)
    IN  IF ord # "none" THEN Bool(ord \in Holding[op])
        ELSE IF IsNumeric(a) /\ IsNumeric(b) THEN Bool(FALSE) ELSE Null

\* Mutant: an unknown operand makes the conjunction unknown.
AndStrict(a, b) ==
    IF a[1] = "bool" /\ b[1] = "bool" THEN Bool(a[2] /\ b[2]) ELSE Null

\* and_three_valued
AndThreeValued(a, b) ==
    CASE {a[1], b[1]} \subseteq {"bool", "null"} /\ Bool(FALSE) \in {a, b} -> Bool(FALSE)
      [] a = Bool(TRUE) /\ b = Bool(TRUE) -> Bool(TRUE)
      [] OTHER -> Null

\* or_three_valued
OrThreeValued(a, b) ==
    CASE {a[1], b[1]} \subseteq {"bool", "null"} /\ Bool(TRUE) \in {a, b} -> Bool(TRUE)
      [] a = Bool(FALSE) /\ b = Bool(FALSE) -> Bool(FALSE)
      [] OTHER -> Null

\* not_three_valued
NotThreeValued(a) == IF a[1] = "bool" THEN Bool(~a[2]) ELSE Null

(* Casts (expr_builtins.rs).  The text of a number is the text Rust prints. *)

IntText(n) == ToString(n)
FloatText(x) ==
    CASE x[2] = "nan" -> "NaN"
      [] x[2] = "inf" -> IF x[3] > 0 THEN "inf" ELSE "-inf"
      [] x[3] % 2 = 0 -> IntText(x[3] \div 2)
      [] OTHER -> IntText(x[3]) \o " halves"

ParsedOr(S, Text(_), s) ==
    IF \E v \in S : Text(v) = s THEN CHOOSE v \in S : Text(v) = s ELSE Null

CastToStr(v) ==
    CASE v[1] = "i64" -> Str(IntText(v[2]))
      [] v[1] = "f64" -> Str(FloatText(v))
      [] v[1] = "bool" -> Str(IF v[2] THEN "true" ELSE "false")
      [] OTHER -> v

\* A float becomes an integer as Rust's `as` does: truncated, saturating, NaN is 0.
CastToInt(v) ==
    CASE v[1] = "f64" /\ v[2] = "nan" -> I64(0)
      [] v[1] = "f64" /\ v[2] = "inf" -> I64(IF v[3] > 0 THEN MaxInt ELSE MinInt)
      [] v[1] = "f64" -> I64(Clamp(TruncDiv(v[3], 2), MinInt, MaxInt))
      [] v[1] = "bool" -> I64(IF v[2] THEN 1 ELSE 0)
      [] v[1] = "str" ->
           ParsedOr({I64(n) : n \in MinInt..MaxInt}, LAMBDA x : IntText(x[2]), v[2])
      [] OTHER -> v

CastToFloat(v) ==
    CASE v[1] = "i64" -> AsFloat(v)
      [] v[1] = "bool" -> Fin(IF v[2] THEN 2 ELSE 0)
      [] v[1] = "str" ->
           ParsedOr({Fin(h) : h \in -FMax..FMax} \cup {Inf(1), Inf(-1), NaN}, FloatText, v[2])
      [] OTHER -> v

CastToBool(v) ==
    CASE v[1] = "i64" -> Bool(v[2] # 0)
      [] v[1] = "f64" -> Bool(v[2] # "nan" /\ v[3] # 0)
      [] v[1] = "str" -> IF v[2] \in {"true", "false"} THEN Bool(v[2] = "true") ELSE Null
      [] OTHER -> v

\* cast_eval: an unknown target or a null gives null
CastEval(v, target) ==
    CASE target = "str" -> CastToStr(v)
      [] target = "int" -> CastToInt(v)
      [] target = "float" -> CastToFloat(v)
      [] target = "bool" -> CastToBool(v)
      [] OTHER -> Null

(* Server expressions are <<"field", n>>, <<"lit", v>>, <<"bare", s>>,       *)
(* <<"bin", op, l, r>>, <<"not", x>> and <<"call", f, args>>.  cast and      *)
(* isnull are the calls modelled; quadkey is left out (it fails inference).  *)

\* Builtins: cast takes two arguments, isnull one; anything else is null.
CallBuiltin(f, args) ==
    CASE Panic \in {args[i] : i \in DOMAIN args} -> Panic
      [] f = "cast" /\ Len(args) = 2 ->
           IF args[2][1] = "str" THEN CastEval(args[1], args[2][2]) ELSE Null
      [] f = "isnull" /\ Len(args) = 1 -> Bool(args[1] = Null)
      [] OTHER -> Null

FieldValue(row, n) == IF n \in DOMAIN row THEN row[n] ELSE Null

RECURSIVE EvalDepth(_, _, _)
\* eval_depth: beyond the depth limit an expression is silently null
EvalDepth(e, row, d) ==
    LET Sub(x) == EvalDepth(x, row, d + 1)
        Lazy(l, r, stop, Op(_, _)) ==
            IF l = stop THEN l
            ELSE LET rv == Sub(r) IN IF Panic \in {l, rv} THEN Panic ELSE Op(l, rv)
        Strict(op, a, b) ==
            CASE Panic \in {a, b} -> Panic
              [] Null \in {a, b} -> Null
              [] op \in DOMAIN Holding -> Compare(op, a, b)
              [] OTHER -> Arith(op, a, b)
    IN  CASE d > MaxDepth -> Null
          [] e[1] = "field" -> FieldValue(row, e[2])
          [] e[1] = "lit" -> e[2]
          [] e[1] = "bare" -> Str(e[2])
          [] e[1] = "not" -> LET v == Sub(e[2]) IN IF v = Panic THEN v ELSE NotThreeValued(v)
          [] e[1] = "bin" ->
               (CASE e[2] = "and" -> Lazy(Sub(e[3]), e[4], Bool(FALSE), AndThreeValued)
                  [] e[2] = "or" -> Lazy(Sub(e[3]), e[4], Bool(TRUE), OrThreeValued)
                  [] OTHER -> Strict(e[2], Sub(e[3]), Sub(e[4])))
          [] e[1] = "call" -> CallBuiltin(e[2], [i \in DOMAIN e[3] |-> Sub(e[3][i])])

Eval(e, row) == EvalDepth(e, row, 0)

-----------------------------------------------------------------------------
(* Writing an expression: to_expr_string of the SDK, as the tokens the       *)
(* server's lexer reads in it.  SDK expressions are <<"col", n>>,            *)
(* <<"lit", v>>, <<"bin", op, l, r>>, <<"~", x>>, <<"isnull", x>> and        *)
(* <<"cast", x, target>>.                                                    *)

Keyword(k) == <<k>>
Ident(n) == <<"ident", n>>
\* A character no token starts with, or a number that does not fit.
Bad == <<"bad">>

\* Python's repr read by advance_lookahead: a text with an apostrophe is put in
\* double quotes, which no token starts with; the escape of a control character
\* is kept as two characters; the bytes of a non-ASCII character become one
\* character each.
StrToken(s) ==
    CASE s = "apostrophe" -> Bad
      [] s = "newline" -> <<"value", Str("backslash n")>>
      [] s = "accent" -> <<"value", Str("two chars")>>
      [] OTHER -> <<"value", Str(s)>>

\* lex_number has no sign: '-' is a token of its own, and the digits of MIN overflow.
IntTokens(n) ==
    IF n >= 0 THEN <<<<"value", I64(n)>>>>
    ELSE <<Keyword("-"), IF -n > MaxInt THEN Bad ELSE <<"value", I64(-n)>> >>

\* inf and nan are words, so they are read as names of fields.
FloatTokens(x) ==
    CASE x[2] = "nan" -> <<Ident("nan")>>
      [] x[2] = "inf" -> IF x[3] > 0 THEN <<Ident("inf")>> ELSE <<Keyword("-"), Ident("inf")>>
      [] x[3] >= 0 -> <<<<"value", x>>>>
      [] OTHER -> <<Keyword("-"), <<"value", FNeg(x)>> >>

LitTokens(v) ==
    CASE v = Null -> <<Keyword("null")>>
      [] v[1] = "bool" -> <<Keyword(IF v[2] THEN "true" ELSE "false")>>
      [] v[1] = "str" -> <<StrToken(v[2])>>
      [] v[1] = "i64" -> IntTokens(v[2])
      [] v[1] = "f64" -> FloatTokens(v)

Parens(toks) == <<Keyword("(")>> \o toks \o <<Keyword(")")>>

RECURSIVE ToExprString(_)
ToExprString(e) ==
    CASE e[1] = "col" -> <<Ident(e[2])>>
      [] e[1] = "lit" -> LitTokens(e[2])
      [] e[1] = "bin" -> Parens(ToExprString(e[3]) \o <<Keyword(e[2])>> \o ToExprString(e[4]))
      [] e[1] = "isnull" -> Parens(ToExprString(e[2]) \o <<Keyword("=="), Keyword("null")>>)
      [] e[1] = "~" -> Parens(<<Keyword("not")>> \o ToExprString(e[2]))
      [] e[1] = "cast" -> <<Ident("cast")>> \o
             Parens(ToExprString(e[2]) \o <<Keyword(","), Ident(e[3])>>)

-----------------------------------------------------------------------------
(* Parsing (expr.rs). A result is [ok, e, i]: the expression and the index   *)
(* of the next token.                                                        *)

Fail == [ok |-> FALSE, e |-> <<"none">>, i |-> 0]
Done(e, i) == [ok |-> TRUE, e |-> e, i |-> i]
Peek(toks, i) == IF i > Len(toks) THEN "end" ELSE toks[i][1]

\* Mutant: one comparison is missing from the table.
LevelOpsNoNe == <<{"or"}, {"and"}, DOMAIN Holding \ {"!="}, {"+", "-"}, {"*", "/"}>>

\* parse_or, parse_and, parse_cmp, parse_add, parse_mul: the operators of a level
LevelOps == <<{"or"}, {"and"}, DOMAIN Holding, {"+", "-"}, {"*", "/"}>>
CmpLevel == 3

\* Mutant: the operators of a level group to the right.
RightFirst(op, left, right) ==
    IF left[1] = "bin" /\ left[2] \in {"+", "-", "*", "/"} /\ op \in {"+", "-", "*", "/"}
    THEN <<"bin", left[2], left[3], <<"bin", op, left[4], right>>>>
    ELSE <<"bin", op, left, right>>

BinNode(op, left, right) == <<"bin", op, left, right>>

RECURSIVE ParseExpr(_, _, _, _), ParseLevel(_, _, _, _, _), ParseRest(_, _, _, _, _),
          ParseAtom(_, _, _, _), ParseArgs(_, _, _, _, _)

\* parse_expr: pd is paren_depth, d is parse_depth
ParseExpr(toks, i, pd, d) ==
    IF d + 1 > MaxDepth THEN Fail ELSE ParseLevel(toks, i, pd, d + 1, 1)

ParseLevel(toks, i, pd, d, lvl) ==
    IF lvl > Len(LevelOps) THEN ParseAtom(toks, i, pd, d)
    ELSE ParseRest(toks, ParseLevel(toks, i, pd, d, lvl + 1), pd, d, lvl)

\* The loop of a level; operators are only read inside parentheses, and a
\* comparison is not repeated.
ParseRest(toks, left, pd, d, lvl) ==
    IF ~left.ok \/ pd = 0 \/ Peek(toks, left.i) \notin LevelOps[lvl] THEN left
    ELSE LET right == ParseLevel(toks, left.i + 1, pd, d, lvl + 1)
             both == Done(BinNode(Peek(toks, left.i), left.e, right.e), right.i)
         IN  IF ~right.ok THEN Fail
             ELSE IF lvl = CmpLevel THEN both
             ELSE ParseRest(toks, both, pd, d, lvl)

\* expect(RParen)
Closed(toks, r, e) == IF r.ok /\ Peek(toks, r.i) = ")" THEN Done(e, r.i + 1) ELSE Fail

ParseAtom(toks, i, pd, d) ==
    LET k == Peek(toks, i)
    IN  CASE k = "(" /\ Peek(toks, i + 1) = "not" ->
               LET r == ParseExpr(toks, i + 2, pd + 1, d) IN Closed(toks, r, <<"not", r.e>>)
          [] k = "(" /\ Peek(toks, i + 1) # "not" ->
               LET r == ParseExpr(toks, i + 1, pd + 1, d) IN Closed(toks, r, r.e)
          [] k = "ident" /\ Peek(toks, i + 1) = "(" ->
               LET r == ParseArgs(toks, i + 2, pd, d, <<>>)
               IN  Closed(toks, r, <<"call", toks[i][2], r.e>>)
          [] k = "ident" /\ Peek(toks, i + 1) # "(" -> Done(<<"field", toks[i][2]>>, i + 1)
          [] k = "value" -> Done(<<"lit", toks[i][2]>>, i + 1)
          [] k \in {"true", "false"} -> Done(<<"lit", Bool(k = "true")>>, i + 1)
          [] k = "null" -> Done(<<"lit", Null>>, i + 1)
          [] k = "-" /\ Peek(toks, i + 1) = "value" /\ IsNumeric(toks[i + 1][2]) ->
               LET v == toks[i + 1][2]
               IN  Done(<<"lit", IF v[1] = "i64" THEN I64(-v[2]) ELSE FNeg(v)>>, i + 2)
          [] OTHER -> Fail

\* parse_arglist: the parentheses of a call do not raise paren_depth
ParseArgs(toks, i, pd, d, args) ==
    IF args = <<>> /\ Peek(toks, i) = ")" THEN Done(<<>>, i)
    ELSE LET r == ParseExpr(toks, i, pd, d)
         IN  IF ~r.ok THEN Fail
             ELSE IF Peek(toks, r.i) = ","
                  THEN ParseArgs(toks, r.i + 1, pd, d, Append(args, r.e))
                  ELSE Done(Append(args, r.e), r.i)

RECURSIVE NormalizeCast(_), RewriteNullEq(_)
\* normalize_cast: the name of the target type is not a field
NormalizeCast(e) ==
    CASE e[1] = "call" ->
           LET args == [i \in DOMAIN e[3] |-> NormalizeCast(e[3][i])]
           IN  IF e[2] = "cast" /\ Len(args) = 2 /\ args[2][1] = "field"
               THEN <<"call", "cast", <<args[1], <<"bare", args[2][2]>>>>>>
               ELSE <<"call", e[2], args>>
      [] e[1] = "bin" -> <<"bin", e[2], NormalizeCast(e[3]), NormalizeCast(e[4])>>
      [] e[1] = "not" -> <<"not", NormalizeCast(e[2])>>
      [] OTHER -> e

NullLit == <<"lit", Null>>
IsNullOf(e) == <<"call", "isnull", <<e>>>>

\* Mutant: the null test is always of the left operand.
NullTestLeft(op, l, r) ==
    CASE NullLit \in {l, r} /\ op = "==" -> IsNullOf(l)
      [] NullLit \in {l, r} /\ op = "!=" -> <<"not", IsNullOf(l)>>
      [] OTHER -> <<"bin", op, l, r>>

\* rewrite_null_eq at one comparison
NullTest(op, l, r) ==
    LET other == IF r = NullLit THEN l ELSE r
    IN  CASE NullLit \in {l, r} /\ op = "==" -> IsNullOf(other)
          [] NullLit \in {l, r} /\ op = "!=" -> <<"not", IsNullOf(other)>>
          [] OTHER -> <<"bin", op, l, r>>

RewriteNullEq(e) ==
    CASE e[1] = "bin" -> NullTest(e[2], RewriteNullEq(e[3]), RewriteNullEq(e[4]))
      [] e[1] = "not" -> <<"not", RewriteNullEq(e[2])>>
      [] e[1] = "call" -> <<"call", e[2], [i \in DOMAIN e[3] |-> RewriteNullEq(e[3][i])]>>
      [] OTHER -> e

\* parse: the whole source is one expression
Parse(toks) ==
    LET r == ParseExpr(toks, 1, 0, 0)
    IN  IF r.ok /\ r.i = Len(toks) + 1
        THEN [ok |-> TRUE, e |-> RewriteNullEq(NormalizeCast(r.e))]
        ELSE [ok |-> FALSE, e |-> <<"none">>]

RECURSIVE ReferencedFields(_)
\* referenced_fields
ReferencedFields(e) ==
    CASE e[1] = "field" -> {e[2]}
      [] e[1] = "bin" -> ReferencedFields(e[3]) \cup ReferencedFields(e[4])
      [] e[1] = "not" -> ReferencedFields(e[2])
      [] e[1] = "call" -> UNION {ReferencedFields(e[3][i]) : i \in DOMAIN e[3]}
      [] OTHER -> {}

-----------------------------------------------------------------------------
(* Type inference (schema_propagate.rs).  A result is the inferred type,     *)
(* "nulllit" for a null literal, "none" when there is none, and whether an   *)
(* error was recorded: the two do not always go together.                    *)

Typed(t) == [t |-> t, err |-> FALSE]
NoType(err) == [t |-> "none", err |-> err]
NumericType(t) == t \in {"i64", "f64"}
BoolCompatible(t) == t \in {"bool", "nulllit"}
TypeOfLit(v) == IF v = Null THEN "nulllit" ELSE v[1]
TypesAreComparable(l, r) ==
    "nulllit" \in {l, r} \/ l = r \/ (NumericType(l) /\ NumericType(r))
\* Mutant: bool() is taken for a number.
CastTargetNumbers(s) ==
    CASE s = "str" -> "str" [] s = "int" -> "i64" [] s = "float" -> "f64"
      [] s = "bool" -> "i64" [] OTHER -> "none"

\* parse_cast_target
ParseCastTarget(s) ==
    CASE s = "str" -> "str" [] s = "int" -> "i64" [] s = "float" -> "f64"
      [] s = "bool" -> "bool" [] OTHER -> "none"

\* resolve_null_arithmetic
NullArithmetic(op, other) ==
    IF op = "/" /\ ~NumericType(other) /\ other # "nulllit" THEN NoType(FALSE) ELSE Typed(other)

\* infer_arithmetic_type
InferArithmetic(op, l, r) ==
    CASE "nulllit" \in {l, r} -> NullArithmetic(op, IF l = "nulllit" THEN r ELSE l)
      [] ~(NumericType(l) /\ NumericType(r)) -> NoType(TRUE)
      [] OTHER -> Typed(IF "f64" \in {l, r} THEN "f64" ELSE "i64")

\* infer_binop_type once both operands have a type
InferBinop(op, l, r) ==
    CASE op \in DOMAIN Holding ->
           IF TypesAreComparable(l, r) THEN Typed("bool") ELSE NoType(TRUE)
      [] op \in {"and", "or"} ->
           IF BoolCompatible(l) /\ BoolCompatible(r) THEN Typed("bool") ELSE NoType(TRUE)
      [] OTHER -> InferArithmetic(op, l, r)

\* infer_call_type: err says whether the first argument recorded an error, whose
\* type is not used
InferCall(f, args, err) ==
    CASE f = "isnull" /\ Len(args) = 1 -> [t |-> "bool", err |-> err]
      [] f = "cast" /\ Len(args) = 2 ->
           LET a == args[2]
               target == IF a[1] = "bare" THEN ParseCastTarget(a[2])
                         ELSE IF a[1] = "lit" /\ a[2][1] = "str" THEN ParseCastTarget(a[2][2])
                         ELSE "none"
           IN  [t |-> target, err |-> err \/ target = "none"]
      [] OTHER -> NoType(TRUE)

RECURSIVE Infer(_, _)
\* infer_expr_type_inner
Infer(e, schema) ==
    CASE e[1] = "field" ->
           IF e[2] \in DOMAIN schema THEN Typed(schema[e[2]]) ELSE NoType(FALSE)
      [] e[1] = "lit" -> Typed(TypeOfLit(e[2]))
      [] e[1] = "bare" -> Typed("str")
      [] e[1] = "not" ->
           LET o == Infer(e[2], schema)
           IN  CASE o.t = "none" -> o
                 [] ~BoolCompatible(o.t) -> NoType(TRUE)
                 [] OTHER -> [t |-> "bool", err |-> o.err]
      [] e[1] = "bin" ->
           LET l == Infer(e[3], schema)
               r == Infer(e[4], schema)
           IN  CASE l.t = "none" -> l
                 [] r.t = "none" -> NoType(l.err \/ r.err)
                 [] OTHER -> LET b == InferBinop(e[2], l.t, r.t)
                             IN  [b EXCEPT !.err = @ \/ l.err \/ r.err]
      [] e[1] = "call" ->
           InferCall(e[2], e[3], IF e[3] = <<>> THEN FALSE ELSE Infer(e[3][1], schema).err)

\* apply_filter_schema: what registration accepts as a filter
Accepted(e, schema) == ReferencedFields(e) \subseteq DOMAIN schema /\ ~Infer(e, schema).err

=============================================================================
