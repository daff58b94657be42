------------------------------- MODULE MCTexts -------------------------------
(***************************************************************************)
(* What a client writes and the server reads: expressions of the SDK       *)
(* (SdkExpr), chains of row operations (OpChain), byte streams (WireCodec) *)
(* and push envelopes (Envelopes), each alone.  bench says which one runs; *)
(* the variables are shared, and those a module does not have keep their   *)
(* first value.                                                            *)
(***************************************************************************)
EXTENDS Integers, Sequences, TLC

VARIABLES bench, written, incoming, buf, got, status

all == <<bench, written, incoming, buf, got, status>>

TextOrder == <<"-1", "-1 halves", "-2", "-3", "-3 halves", "-4", "-inf", "0", "1", "1 halves", "2",
    "3", "3 halves", "NaN", "a", "c", "d", "false", "inf", "k", "n", "o", "true">>
LOCAL INSTANCE ExprLang WITH MaxInt <- 3, FMax <- 5, MaxDepth <- 9, StrOrder <- TextOrder

-----------------------------------------------------------------------------
(* Expressions. *)

Col(n) == <<"col", n>>
Lit(v) == <<"lit", v>>

\* n is an integer column, x a float, s a text, p and q are Booleans.
Columns == [n |-> "i64", x |-> "f64", s |-> "str", p |-> "bool", q |-> "bool"]

Row(n, x, s, p, q) == [n |-> n, x |-> x, s |-> s, p |-> p, q |-> q]
TableRows ==
    {Row(I64(MinInt), Fin(1), Str("a"), Bool(TRUE), Null),
     Row(I64(1), I64(0), Str("2"), Bool(FALSE), Bool(TRUE)),
     Row(Fin(3), Fin(0), Null, Null, Bool(FALSE)),
     [p |-> Bool(TRUE), q |-> Bool(FALSE)]}

\* Logic and null tests.
LogicLeaves == {Col("p"), Col("q"), Col("n"), Lit(Null), Lit(I64(1))}
\* Numbers.
NumberLeaves == {Col("n"), Col("x"), Lit(I64(2)), Lit(I64(-1))}
\* Conversions.
CastLeaves == {Col("n"), Col("x"), Col("s"), Col("p"), Lit(Inf(1)), Lit(Null)}

ExprBench ==
    [logic |-> [leaves |-> LogicLeaves, bin |-> {"and", "or", "==", "!=", "<"}, casts |-> {}, nodes |-> 5, depth |-> 9],
     numbers |-> [leaves |-> NumberLeaves, bin |-> {"+", "-", "*", "/", "<", "!="}, casts |-> {}, nodes |-> 5, depth |-> 9],
     casts |-> [leaves |-> CastLeaves, bin |-> {"/", ">", "=="}, casts |-> {"str", "int", "float", "bool"},
                nodes |-> 5, depth |-> 3]]

Sdk(b) == INSTANCE SdkExpr WITH stack <- written, Leaves <- ExprBench[b].leaves, BinOps <- ExprBench[b].bin,
    CastTargets <- ExprBench[b].casts, MaxNodes <- ExprBench[b].nodes, MaxDepth <- ExprBench[b].depth,
    MaxInt <- 3, FMax <- 5, Schema <- Columns, Rows <- TableRows, StrOrder <- TextOrder

-----------------------------------------------------------------------------
(* Chains: k is the group key, n a number, o an optional number. *)

SourceFields == [k |-> "str", n |-> "i64", o |-> "i64"]
F(n) == <<"field", n>>
Bin(op, l, r) == <<"bin", op, l, r>>

\* Every kind of op, with renames that collide or swap, columns that depend on each
\* other, and defaults for the optional field, one of them of another type.
AnyOps ==
    {<<"filter", Bin(">", F("n"), Lit(I64(0)))>>,
     <<"filter", Bin("==", F("k"), Lit(Str("a")))>>,
     <<"select", {"k", "n"}>>,
     <<"drop", {"o"}>>,
     <<"rename", <<<<"n", "o">>, <<"o", "n">>>>>>,
     <<"rename", <<<<"o", "c">>>>>>,
     <<"rename", <<<<"n", "c">>>>>>,
     <<"with", <<<<"c", Bin("+", F("o"), Lit(Fin(1)))>>, <<"d", Bin("<", F("c"), F("n"))>>>>>>,
     <<"with", <<<<"o", Lit(Null)>>>>>>,
     <<"cast", <<<<"k", "int">>>>>>,
     <<"cast", <<<<"n", "str">>>>>>,
     <<"fillna", <<<<"k", I64(0)>>>>>>,
     <<"fillna", <<<<"o", I64(0)>>>>>>,
     <<"fillna", <<<<"o", Str("a")>>>>>>}

\* Ops that leave the key and the observed field alone.
FeedOps ==
    {<<"filter", Bin(">", F("n"), Lit(I64(0)))>>,
     <<"select", {"k", "n"}>>,
     <<"drop", {"o"}>>,
     <<"with", <<<<"c", Bin("+", F("n"), Lit(I64(1)))>>>>>>,
     <<"filter", Bin("<", F("o"), Lit(I64(1)))>>,
     <<"rename", <<<<"o", "c">>>>>>,
     <<"cast", <<<<"n", "float">>>>>>}

ChainBench == [chain |-> AnyOps, feed |-> FeedOps]

Chain(b) == INSTANCE OpChain WITH ops <- written, Candidates <- ChainBench[b], MaxOps <- 3,
    Source <- SourceFields, Optional <- {"o"}, Key <- "k", Features <- <<"n">>,
    MaxInt <- 3, FMax <- 5, MaxDepth <- 9, StrOrder <- TextOrder

-----------------------------------------------------------------------------
(* Streams of up to three pipelined requests. *)

UpTo3(S) == UNION {[1..n -> S] : n \in 1..3}

\* Frames with payloads up to one byte over the limit; payload bytes look like
\* a length prefix.
FramePool ==
  {[op |-> 16, content_type |-> 1, payload |-> p] :
      p \in {<<>>, <<0, 0, 0>>, <<0, 0, 0, 3>>, <<0, 0, 0, 3, 9, 0, 0>>}}
Frames == {[proto |-> "tcp", requests |-> s] : s \in UpTo3(FramePool)}

\* 300: no body; 301: two bytes; 302: chunked; 303: chunked with a length;
\* 304: a length over the limit; 305: a length of zero; 306: a head that httparse
\* refuses; 307: a length that is no number.
Fields(length, chunked, fault) == [length |-> length, chunked |-> chunked, fault |-> fault]
HeadTable == (300 :> Fields(-1, FALSE, "none")) @@ (301 :> Fields(2, FALSE, "none"))
        @@ (302 :> Fields(-1, TRUE, "none")) @@ (303 :> Fields(1, TRUE, "none"))
        @@ (304 :> Fields(18, FALSE, "none")) @@ (305 :> Fields(0, FALSE, "none"))
        @@ (306 :> Fields(-1, FALSE, "head")) @@ (307 :> Fields(-1, TRUE, "length"))

Req(head, padding, data, chunks) ==
  [head |-> head, padding |-> padding, data |-> data, chunks |-> chunks]
Chunk(size, n, data) == [size |-> size, n |-> n, data |-> data]
Long == [i \in 1..17 |-> 48]

\* Bodies hold line ends and digits; sizes are written plainly, with an extension
\* and blanks, with a sign, with a leading zero and in two digits (11 is seventeen).
WellFormed ==
  {Req(300, 0, <<>>, <<>>), Req(300, 6, <<>>, <<>>), Req(301, 1, <<13, 10>>, <<>>), Req(305, 0, <<>>, <<>>),
   Req(302, 0, <<>>, <<>>), Req(302, 1, <<>>, <<Chunk(<<43, 50>>, 2, <<13, 10>>), Chunk(<<49, 32, 59, 120>>, 1, <<48>>)>>),
   Req(303, 0, <<>>, <<Chunk(<<48, 52>>, 4, <<48, 13, 10, 13>>)>>), Req(302, 0, <<>>, <<Chunk(<<49, 49>>, 17, Long)>>)}
\* The sizes are no number, no text, one too large for a usize, the largest usize.
Faulty ==
  {Req(304, 0, <<>>, <<>>), Req(306, 1, <<>>, <<>>), Req(307, 0, <<>>, <<>>)}
    \cup {Req(302, 0, <<>>, <<c>>) :
            c \in {Chunk(<<120>>, -1, <<48>>), Chunk(<<49, 59, 200>>, -1, <<48>>),
                  Chunk(<<49, 48, 48>>, 256, <<48>>), Chunk(<<102, 102>>, 255, <<48>>)}}
Requests ==
  {[proto |-> "http", requests |-> s] :
      s \in UpTo3(WellFormed) \cup {<<f>> : f \in Faulty} \cup {<<r, f>> : r \in WellFormed, f \in Faulty}}

Wire == INSTANCE WireCodec WITH stream <- written, Streams <- Frames \cup Requests, Heads <- HeadTable,
    MaxFrame <- 6, MaxHeader <- 8, MaxBody <- 17, Usize <- 256

-----------------------------------------------------------------------------
(* Envelopes. *)

\* A token, and how many values must follow it.
Tok(bytes, opens) == [bytes |-> bytes, opens |-> opens]

\* JSON:  "  \  [  ]  }  {"a":  1,  t
JsonTokens ==
  {Tok(<<34>>, 0), Tok(<<92>>, 0), Tok(<<91>>, 0), Tok(<<93>>, 0), Tok(<<125>>, 0), Tok(<<123, 34, 97, 34, 58>>, 0), Tok(<<49, 44>>, 0), Tok(<<116>>, 0)}

\* Event first, body first, and spaced with an unknown member in front.
JsonLayouts ==
  {<<<<123, 34, 101, 118, 101, 110, 116, 34, 58, 34>>, <<-1>>, <<34, 44, 34, 98, 111, 100, 121, 34, 58>>, <<-2>>, <<125>>>>,
   <<<<123, 34, 98, 111, 100, 121, 34, 58>>, <<-2>>, <<44, 34, 101, 118, 101, 110, 116, 34, 58, 34>>, <<-1>>, <<34, 125>>>>,
   <<<<32, 123, 32, 34, 120, 34, 32, 58, 32>>, <<-2>>, <<32, 44, 32, 34, 101, 118, 101, 110, 116, 34, 32, 58, 32, 34>>, <<-1>>, <<34, 32, 44, 32, 34, 98, 111, 100, 121, 34, 32, 58, 32>>, <<-2>>, <<10, 125, 32>>>>}

\* e, and e"\ escaped
JsonNames == {<<101>>, <<101, 92, 34, 92, 92>>}

\* nil, integers, texts, binaries, extensions, floats, an empty map, arrays
\* and maps, in the short and the long forms; data bytes look like markers.
MsgpackTokens ==
  {Tok(<<192>>, 0),
   Tok(<<5>>, 0),
   Tok(<<161, 192>>, 0),
   Tok(<<217, 1, 145>>, 0),
   Tok(<<218, 0, 1, 7>>, 0),
   Tok(<<196, 1, 9>>, 0),
   Tok(<<197, 0, 1, 9>>, 0),
   Tok(<<199, 1, 3, 9>>, 0),
   Tok(<<200, 0, 0, 3>>, 0),
   Tok(<<212, 3, 9>>, 0),
   Tok(<<202, 1, 2, 3, 4>>, 0),
   Tok(<<205, 1, 2>>, 0),
   Tok(<<203, 0, 0, 0, 0, 0, 0, 0, 0>>, 0),
   Tok(<<128>>, 0),
   Tok(<<146>>, 2),
   Tok(<<129>>, 2),
   Tok(<<220, 0, 1>>, 1),
   Tok(<<222, 0, 1>>, 2),
   Tok(<<223, 0, 0, 0, 1>>, 2)}

\* The three map headers, both orders, keys in three forms, bytes behind.
MsgpackLayouts ==
  {<<<<130, 165, 101, 118, 101, 110, 116>>, <<-1>>, <<164, 98, 111, 100, 121>>, <<-2>>>>,
   <<<<222, 0, 2, 218, 0, 4, 98, 111, 100, 121>>, <<-2>>, <<217, 5, 101, 118, 101, 110, 116>>, <<-1>>, <<192>>>>,
   <<<<223, 0, 0, 0, 2, 217, 5, 101, 118, 101, 110, 116>>, <<-1>>, <<218, 0, 4, 98, 111, 100, 121>>, <<-2>>>>}

MsgpackNames == {<<101>>, <<255>>}

EnvelopeBench ==
    [json |-> [tokens |-> JsonTokens, max |-> 6, names |-> JsonNames, layouts |-> JsonLayouts],
     msgpack |-> [tokens |-> MsgpackTokens, max |-> 4, names |-> MsgpackNames, layouts |-> MsgpackLayouts]]

Envelope(b) == INSTANCE Envelopes WITH body <- buf, pending <- got, written <- written, Format <- b,
    Tokens <- EnvelopeBench[b].tokens, MaxTokens <- EnvelopeBench[b].max,
    Names <- EnvelopeBench[b].names, Layouts <- EnvelopeBench[b].layouts

-----------------------------------------------------------------------------

Exprs == DOMAIN ExprBench
Chains == DOMAIN ChainBench
Formats == DOMAIN EnvelopeBench

Init ==
    \/ /\ \/ \E b \in Exprs : bench = b /\ Sdk(b)!Init
          \/ \E b \in Chains : bench = b /\ Chain(b)!Init
       /\ buf = <<>> /\ got = 0 /\ incoming = <<>> /\ status = "open"
    \/ bench = "wire" /\ Wire!Init
    \/ /\ \E b \in Formats : bench = b /\ Envelope(b)!Init
       /\ incoming = <<>> /\ status = "open"

Next ==
    /\ UNCHANGED bench
    /\ \/ /\ \/ \E b \in Exprs : bench = b /\ Sdk(b)!Next
             \/ \E b \in Chains : bench = b /\ Chain(b)!Next
          /\ UNCHANGED <<incoming, buf, got, status>>
       \/ bench = "wire" /\ Wire!Next
       \/ /\ \E b \in Formats : bench = b /\ Envelope(b)!Next
          /\ UNCHANGED <<incoming, status>>

Spec == Init /\ [][Next]_all

-----------------------------------------------------------------------------

\* _col.py, expr.rs, eval.rs: what an SDK expression means survives the trip
\* through its text: the server parses, normalises and evaluates it, for every
\* row on which no two integers are divided, to the value it has in exact
\* arithmetic and three-valued logic with two-valued null tests.
SdkMeaningKept == \A b \in Exprs : bench = b => Sdk(b)!SdkMeaningKept

\* _col.py, expr.rs: every expression the SDK can write is parsed, unless it is
\* too deep.
SdkExpressionsParse == \A b \in Exprs : bench = b => Sdk(b)!SdkExpressionsParse

\* schema_propagate.rs, eval.rs: the type that registration infers for a column is
\* the type of its values, up to the two number types and null.
InferredTypeSound == bench = "casts" => Sdk("casts")!InferredTypeSound

\* schema_propagate.rs, op_chain.rs: a row that leaves a chain has no other fields
\* than its output schema, each null or of the declared type, if the defaults of
\* fillna have the types of their fields, which registration does not check.
ChainFollowsSchema == bench = "chain" => Chain("chain")!ChainFollowsSchema

\* schema_propagate.rs, op_chain.rs: a field the output schema calls required is in
\* every row that leaves the chain, through renames that swap names, unless it was
\* optional and a fillna made it required (schema_propagate.rs:416).
RequiredFieldsPresent == bench = "chain" => Chain("chain")!RequiredFieldsPresent

\* agg_apply.rs, registry.rs: an event the chain drops feeds nothing, and where no
\* op changes them, an aggregation reads key and field as the chain's row has them.
FedFromUntouchedFields == bench = "feed" => Chain("feed")!FedFromUntouchedFields

\* wire.rs, http_listener.rs: however the bytes are cut into pieces and however
\* many requests share one, the requests decoded are those sent, in order and
\* with their bodies; a well-formed one within the limits is never refused, any
\* other never accepted; and at the end nothing is left undecoded.  Frames whose
\* length is over the limit with op and content type and within it without them are
\* left open: docs/wire-spec.md:37 refuses them, wire.rs:230 accepts them.
RequestsAsSent == bench = "wire" => Wire!RequestsAsSent

\* wire.rs: a frame over the limit is refused as soon as its length has arrived,
\* so the read buffer never waits for more than one frame of legal size.
BufferBounded == bench = "wire" => Wire!BufferBounded

\* tcp_listener.rs parse_json_envelope: whatever a valid body holds, wherever it
\* stands among the members, the scanner returns exactly its bytes and the name.
JsonBodyExact == bench = "json" => Envelope("json")!JsonBodyExact

\* tcp_listener.rs skip_msgpack_value: a value of any type and nesting is skipped to
\* its last byte and no further, one that is cut short is an error, and the
\* envelope scanner returns the body's bytes in either order of the keys.
MsgpackBodyExact == bench = "msgpack" => Envelope("msgpack")!MsgpackBodyExact

\* _col.py, expr.rs, eval.rs: every expression of the SDK is parsed by the server
\* and evaluates, on every row, to what it meant where it was written.  A quotient of
\* two integers is left out: docs/pipeline-dsl/expressions.md:75 says it widens to
\* f64, eval.rs:20 that it truncates, and the code truncates.
ExpressionsKept == SdkMeaningKept /\ SdkExpressionsParse

\* schema_propagate.rs, op_chain.rs, agg_apply.rs: what registration computed about
\* types and fields is true of every row that reaches an aggregation later, but for
\* what it takes from fillna: that a default has the field's type, and that the field
\* is there afterwards.
SchemasSound ==
    /\ InferredTypeSound /\ ChainFollowsSchema
    /\ RequiredFieldsPresent /\ FedFromUntouchedFields

\* wire.rs, http_listener.rs: the requests decoded are those sent, whatever pieces
\* they come in, and no more than one frame of legal size is ever waited for.  A
\* chunk size next to 2^64 is the one request that stops the process
\* (http_listener.rs:370).
StreamsDecoded == RequestsAsSent /\ BufferBounded

\* tcp_listener.rs: both envelope scanners return exactly the bytes of the body.
BodiesExact == JsonBodyExact /\ MsgpackBodyExact
=============================================================================
