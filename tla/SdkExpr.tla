------------------------------- MODULE SdkExpr ------------------------------
(***************************************************************************)
(* An expression built with the Python SDK, one overloaded operator at a   *)
(* time, bottom-up on a stack.  The properties compare, on the finished    *)
(* expression and for every row of Rows, what the SDK wrote, what the      *)
(* server parsed and inferred, and what it evaluates.                      *)
(***************************************************************************)
EXTENDS ExprLang

CONSTANTS
    Leaves,      \* the columns and literals an expression is built from
    BinOps,      \* the binary operators used
    CastTargets, \* the targets given to cast()
    MaxNodes,    \* bound: nodes of an expression
    Schema,      \* declared field types: a function to {"str","i64","f64","bool"}
    Rows         \* rows the schema admits: functions from fields to values

VARIABLES
    stack        \* the SDK expressions built so far

-----------------------------------------------------------------------------
(* Building an expression with the SDK. *)

RECURSIVE Size(_)
Size(e) ==
    CASE e[1] \in {"col", "lit"} -> 1
      [] e[1] = "bin" -> 1 + Size(e[3]) + Size(e[4])
      [] OTHER -> 1 + Size(e[2])

RECURSIVE Nodes(_)
Nodes(s) == IF s = <<>> THEN 0 ELSE Size(Head(s)) + Nodes(Tail(s))

Top == stack[Len(stack)]
Below == SubSeq(stack, 1, Len(stack) - 1)
Room(n) == Nodes(stack) + n <= MaxNodes

Init == stack = <<>>

\* col(), lit() and _coerce; an operand still has to be combined
PushLeaf ==
    \E e \in Leaves :
        /\ Room(IF stack = <<>> THEN 1 ELSE Len(stack) + 1)
        /\ stack' = Append(stack, e)

\* ~e and e.isnull()
Unary ==
    \E k \in {"~", "isnull"} :
        /\ stack # <<>> /\ Room(Len(stack))
        /\ stack' = Append(Below, <<k, Top>>)

\* e.cast(target)
CastOp ==
    \E t \in CastTargets :
        /\ stack # <<>> /\ Room(Len(stack))
        /\ stack' = Append(Below, <<"cast", Top, t>>)

\* An operator of _Expr.  Python folds an operator of two literals itself.
Combine ==
    \E op \in BinOps :
        /\ Len(stack) >= 2
        /\ LET l == stack[Len(stack) - 1]
           IN  /\ ~(l[1] = "lit" /\ Top[1] = "lit")
               /\ stack' = Append(SubSeq(stack, 1, Len(stack) - 2), <<"bin", op, l, Top>>)

Next == PushLeaf \/ Unary \/ CastOp \/ Combine
Spec == Init /\ [][Next]_stack

-----------------------------------------------------------------------------
(* What an expression means, by the rules that the head of eval.rs lists and   *)
(* docs/pipeline-dsl/expressions.md states, on exact numbers: the value is     *)
(* computed as a fraction and brought back into the result's type last.        *)

\* Kleene's logic, as an order: false, then unknown, then true.
Kleene(v) == IF v = Null THEN 1 ELSE IF v[2] THEN 2 ELSE 0
OfKleene(k) == IF k = 1 THEN Null ELSE Bool(k = 2)

\* A number in halves; an infinity is further out than anything finite.
Huge == 100 * (FMax + MaxInt)
Amount(v) ==
    CASE v[1] = "i64" -> 2 * v[2] [] v[1] = "bool" -> IF v[2] THEN 2 ELSE 0
      [] v[2] = "inf" -> v[3] * Huge [] OTHER -> v[3]
Magnitude(n) == IF n < 0 THEN -n ELSE n

\* The number of S that comes closest to num / den without going beyond it.
Inward(S, num, den) ==
    LET Within(h) == h * num * den >= 0 /\ Magnitude(h * den) <= Magnitude(num)
    IN  CHOOSE h \in S : Within(h) /\ \A k \in S : Within(k) => Magnitude(k) <= Magnitude(h)
IntegerOf(num, den) == I64(Inward({2 * n : n \in MinInt..MaxInt}, num, den) \div 2)
FloatOf(num, den) ==
    IF Magnitude(num) >= (FMax + 1) * Magnitude(den) THEN Inf(IF (num < 0) = (den < 0) THEN 1 ELSE -1)
    ELSE Fin(Inward(-FMax..FMax, num, den))

\* Forms that have no value.
Indeterminate(op, x, y) ==
    \/ op = "+" /\ Magnitude(x) = Huge /\ y = -x
    \/ op = "-" /\ Magnitude(x) = Huge /\ y = x
    \/ op = "*" /\ {Magnitude(x), Magnitude(y)} = {0, Huge}
    \/ op = "/" /\ Magnitude(x) = Magnitude(y) /\ Magnitude(x) \in {0, Huge}

Calculated(op, a, b) ==
    LET x == Amount(a)
        y == Amount(b)
        Of(num, den) == IF {a[1], b[1]} = {"i64"} THEN IntegerOf(num, den) ELSE FloatOf(num, den)
    IN  CASE NaN \in {a, b} \/ Indeterminate(op, x, y) -> NaN
          [] op = "+" -> Of(x + y, 1)
          [] op = "-" -> Of(x - y, 1)
          [] op = "*" -> Of(x * y, 2)
          [] op = "/" -> IF y = 0 THEN Inf(IF x > 0 THEN 1 ELSE -1) ELSE FloatOf(2 * x, y)

\* A comparison; one with NaN is false.
Compared(op, a, b) ==
    LET x == IF a[1] = "str" THEN StrRank(a[2]) ELSE Amount(a)
        y == IF b[1] = "str" THEN StrRank(b[2]) ELSE Amount(b)
        holds == CASE op = "<" -> x < y [] op = "<=" -> x <= y [] op = ">" -> x > y
                   [] op = ">=" -> x >= y [] op = "==" -> x = y [] op = "!=" -> x # y
    IN  Bool(NaN \notin {a, b} /\ holds)

\* The values of a type, and what cast() makes of a number or a text of one.
Integers == {I64(n) : n \in MinInt..MaxInt}
Floats == {Fin(h) : h \in -FMax..FMax} \cup {Inf(1), Inf(-1), NaN}
Written(v) == IF v[1] = "i64" THEN IntText(v[2]) ELSE IF v[1] = "f64" THEN FloatText(v)
              ELSE IF v[2] THEN "true" ELSE "false"
OfText(S, text) == IF \E v \in S : Written(v) = text THEN CHOOSE v \in S : Written(v) = text ELSE Null
Converted(v, target) ==
    CASE v = Null -> Null
      [] target = "str" -> IF v[1] = "str" THEN v ELSE Str(Written(v))
      [] v[1] = "str" -> OfText(CASE target = "int" -> Integers [] target = "float" -> Floats
                                  [] target = "bool" -> {Bool(TRUE), Bool(FALSE)}, v[2])
      [] target = "int" -> IF v = NaN THEN I64(0) ELSE IntegerOf(Amount(v), 1)
      [] target = "float" -> IF v[1] = "f64" THEN v ELSE Fin(Amount(v))
      [] target = "bool" -> Bool(v # NaN /\ Amount(v) # 0)

RECURSIVE Meaning(_, _)
Meaning(e, row) ==
    CASE e[1] = "col" -> FieldValue(row, e[2])
      [] e[1] = "lit" -> e[2]
      [] e[1] = "isnull" -> Bool(Meaning(e[2], row) = Null)
      [] e[1] = "~" -> OfKleene(2 - Kleene(Meaning(e[2], row)))
      [] e[1] = "cast" -> Converted(Meaning(e[2], row), e[3])
      [] e[1] = "bin" ->
           LET l == Meaning(e[3], row)
               r == Meaning(e[4], row)
           IN  CASE e[2] = "and" -> OfKleene(IF Kleene(l) < Kleene(r) THEN Kleene(l) ELSE Kleene(r))
                 [] e[2] = "or" -> OfKleene(IF Kleene(l) > Kleene(r) THEN Kleene(l) ELSE Kleene(r))
                 [] e[2] = "==" /\ NullLit \in {e[3], e[4]} ->
                      Bool(l = Null /\ r = Null)
                 [] e[2] = "!=" /\ NullLit \in {e[3], e[4]} ->
                      Bool(~(l = Null /\ r = Null))
                 [] Null \in {l, r} -> Null
                 [] e[2] \in {"+", "-", "*", "/"} -> Calculated(e[2], l, r)
                 [] OTHER -> Compared(e[2], l, r)

RECURSIVE DividesIntegers(_, _)
\* Two integers are divided: documented to widen to f64 (expressions.md:75), but
\* eval.rs truncates, gives null for a zero divisor, and panics on MIN / -1.
DividesIntegers(e, row) ==
    CASE e[1] \in {"col", "lit"} -> FALSE
      [] e[1] = "bin" ->
           \/ DividesIntegers(e[3], row) \/ DividesIntegers(e[4], row)
           \/ e[2] = "/" /\ Meaning(e[3], row)[1] = "i64" /\ Meaning(e[4], row)[1] = "i64"
      [] OTHER -> DividesIntegers(e[2], row)

\* The expression on the stack is complete, and the server accepts it.
Source == Parse(ToExprString(stack[1]))
Complete == Len(stack) = 1
Admitted == Source.ok /\ Accepted(Source.e, Schema)

\* What an SDK expression means survives the trip through its text: the server
\* parses what to_expr_string wrote and, for every row on which no two integers are
\* divided, evaluates it to the value the expression has in exact arithmetic and
\* three-valued logic, with two-valued null tests.
SdkMeaningKept ==
    Complete /\ Admitted =>
        \A row \in Rows :
            DividesIntegers(stack[1], row) \/ Eval(Source.e, row) = Meaning(stack[1], row)

\* Every expression the SDK can write is parsed, unless it is too deep.
SdkExpressionsParse ==
    Complete /\ Size(stack[1]) < MaxDepth => Source.ok

\* The type registration infers is the type of the value, up to the two number
\* types (a row may hold either) and null: later ops and the output schema of a
\* derivation rest on it.
InferredTypeSound ==
    Complete /\ Admitted =>
        LET t == Infer(Source.e, Schema).t
        IN  \A row \in Rows :
                LET v == Eval(Source.e, row)
                IN  \/ v = Null
                    \/ v[1] = t
                    \/ (IsNumeric(v) /\ NumericType(t))

=============================================================================
