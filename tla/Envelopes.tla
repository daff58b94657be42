------------------------------ MODULE Envelopes ------------------------------
(***************************************************************************)
(* The two hand-written scanners that split a push frame into the name of  *)
(* the event and the bytes of its body (tcp_listener.rs): parse_json_      *)
(* envelope walks a JSON object, parse_msgpack_envelope a two-entry map.   *)
(* Neither decodes the body: they only find where it ends.                 *)
(*                                                                         *)
(* A client writes a body token by token; every state's body is wrapped    *)
(* in envelopes of every layout and scanned.  Positions count from 1; an   *)
(* end is the position behind a value, 0 stands for an error.              *)
(***************************************************************************)
EXTENDS Integers, Sequences, SequencesExt, FiniteSetsExt

CONSTANTS
  Format,       \* "json" or "msgpack"
  Tokens,       \* records [bytes, opens]: what a client writes; opens is the
                \* number of values a msgpack container still has to be given
  MaxTokens,    \* bound on the tokens of a body
  Names,        \* event names, as bytes inside the quotes
  Layouts       \* how an envelope may be laid out (see Wrapped)

VARIABLES
  body,         \* the bytes written so far
  pending,      \* msgpack: values still to be written; JSON: unused
  written       \* tokens written

vars == <<body, pending, written>>

Error == 0
At(bytes, p) == IF p \in 1..Len(bytes) THEN bytes[p] ELSE -1
Slice(bytes, from, end) == SubSeq(bytes, from, end - 1)

-----------------------------------------------------------------------------
(* JSON.  Bytes are ASCII codes. *)

Quote == 34
Backslash == 92
Comma == 44
Colon == 58
OpenBrace == 123
CloseBrace == 125
OpenBracket == 91
CloseBracket == 93
Blanks == {32, 9, 10, 13}
Letters == (97..122) \cup (65..90)
Digits == 48..57
Numeric == Digits \cup {45, 43, 46, 101, 69}

\* The first position at or after p whose byte is not in set.
PastAll(bytes, p, set) ==
  Min({q \in p..(Len(bytes) + 1) : q > Len(bytes) \/ bytes[q] \notin set})

SkipWs(bytes, p) == PastAll(bytes, p, Blanks)

\* Mutant: a backslash does not shield the byte behind it.
ShieldNot(bytes, p) == p + 1

\* Where scanning goes on behind a backslash; Error: it is the last byte.
Shield(bytes, p) == IF p + 1 > Len(bytes) THEN Error ELSE p + 2

\* scan_string_end: the position of the closing quote, from behind the opening one.
RECURSIVE ScanStringEnd(_, _)
ScanStringEnd(bytes, p) ==
  IF p = Error \/ p > Len(bytes) THEN Error
  ELSE IF bytes[p] = Quote THEN p
  ELSE IF bytes[p] = Backslash THEN ScanStringEnd(bytes, Shield(bytes, p))
  ELSE ScanStringEnd(bytes, p + 1)

\* scan_balanced: only brackets of the kind that was opened are counted, and
\* none inside a string.
RECURSIVE ScanBalanced(_, _, _, _, _, _)
ScanBalanced(bytes, p, open, close, depth, inString) ==
  LET b == bytes[p]
      go(d, s) == ScanBalanced(bytes, p + 1, open, close, d, s) IN
  IF p > Len(bytes) THEN Error
  ELSE IF inString
       THEN IF b = Backslash
            THEN IF p + 1 > Len(bytes) THEN Error
                 ELSE ScanBalanced(bytes, p + 2, open, close, depth, TRUE)
            ELSE go(depth, b # Quote)
  ELSE IF b = Quote THEN go(depth, TRUE)
  ELSE IF b = open THEN go(depth + 1, FALSE)
  ELSE IF b = close THEN IF depth = 1 THEN p + 1 ELSE go(depth - 1, FALSE)
  ELSE go(depth, FALSE)

\* scan_value_end: words and numbers go on while their bytes do.
ScanValueEnd(bytes, p) ==
  LET b == At(bytes, p)
      quote == ScanStringEnd(bytes, p + 1) IN
  CASE b = OpenBrace -> ScanBalanced(bytes, p, OpenBrace, CloseBrace, 0, FALSE)
    [] b = OpenBracket -> ScanBalanced(bytes, p, OpenBracket, CloseBracket, 0, FALSE)
    [] b = Quote -> IF quote = Error THEN Error ELSE quote + 1
    [] b \in {116, 102, 110} -> PastAll(bytes, p, Letters)
    [] b \in Digits \cup {45} -> PastAll(bytes, p, Numeric)
    [] OTHER -> Error

\* serde_json on a string with escapes: here the two that stand for themselves.
RECURSIVE Unescaped(_)
Unescaped(raw) ==
  IF raw = <<>> THEN <<>>
  ELSE IF raw[1] # Backslash THEN <<raw[1]>> \o Unescaped(Tail(raw))
  ELSE <<raw[2]>> \o Unescaped(SubSeq(raw, 3, Len(raw)))

\* The backslash at i begins an escape: an odd run of them ends here.
Escapes(bytes, from, i) ==
  Cardinality({j \in from..i : \A k \in j..i : bytes[k] = Backslash}) % 2 = 1
BadEscape(raw) ==
  \E i \in 1..Len(raw) : Escapes(raw, 1, i) /\ At(raw, i + 1) \notin {Quote, Backslash}

EventKey == <<101, 118, 101, 110, 116>>
BodyKey == <<98, 111, 100, 121>>

None == [ok |-> FALSE]
Some(bytes) == [ok |-> TRUE, bytes |-> bytes]
Answer(event, slice) ==
  IF event.ok /\ slice.ok THEN [ok |-> TRUE, event |-> event.bytes, body |-> slice.bytes] ELSE None

\* One turn of the member loop of parse_json_envelope from p, a comma or the
\* opening brace behind: keys are compared unescaped, a key given twice takes
\* its last value, an unknown one is skipped, and the closing brace may follow
\* a comma and be followed by anything.
RECURSIVE Members(_, _, _, _)
Members(bytes, p0, event, slice) ==
  LET p == SkipWs(bytes, p0)
      keyEnd == ScanStringEnd(bytes, p + 1)
      key == Slice(bytes, p + 1, keyEnd)
      colon == SkipWs(bytes, keyEnd + 1)
      v == SkipWs(bytes, colon + 1)
      quote == IF At(bytes, v) = Quote THEN ScanStringEnd(bytes, v + 1) ELSE Error
      raw == Slice(bytes, v + 1, quote)
      event2 == IF key = EventKey THEN Some(Unescaped(raw)) ELSE event
      end == IF key # EventKey THEN ScanValueEnd(bytes, v)
             ELSE IF quote = Error THEN Error
             ELSE IF BadEscape(raw) THEN Error ELSE quote + 1
      slice2 == IF key = BodyKey THEN Some(Slice(bytes, v, end)) ELSE slice
      after == SkipWs(bytes, end) IN
  IF At(bytes, p) = CloseBrace THEN Answer(event, slice)
  ELSE IF At(bytes, p) # Quote \/ keyEnd = Error THEN None
  ELSE IF At(bytes, colon) # Colon \/ end = Error THEN None
  ELSE IF At(bytes, after) = Comma THEN Members(bytes, after + 1, event2, slice2)
  ELSE IF At(bytes, after) = CloseBrace THEN Answer(event2, slice2)
  ELSE None

ParseJsonEnvelope(bytes) ==
  LET p == SkipWs(bytes, 1) IN
  IF At(bytes, p) # OpenBrace THEN None ELSE Members(bytes, p + 1, None, None)

-----------------------------------------------------------------------------
(* MessagePack. *)

BigEndian(bytes, p, width) ==
  FoldLeft(LAMBDA n, b : 256 * n + b, 0, SubSeq(bytes, p, p + width - 1))

\* The bytes behind the marker of a value of fixed size.
FixedSize(marker) ==
  CASE marker \in (0..127) \cup (224..255) \cup {192, 194, 195} -> 0
    [] marker \in {204, 208} -> 1
    [] marker \in {205, 209, 212} -> 2
    [] marker = 213 -> 3
    [] marker \in {202, 206, 210} -> 4
    [] marker = 214 -> 5
    [] marker \in {203, 207, 211} -> 8
    [] marker = 215 -> 9
    [] marker = 216 -> 17
    [] OTHER -> -1

\* Mutant: the type byte of an extension is forgotten.
ExtTypeForgotten(marker) == 0

\* The type byte between the length of an extension and its data.
ExtType(marker) == IF marker \in 199..201 THEN 1 ELSE 0

\* The width of the length field of a binary, extension or text value.
LengthWidth(marker) ==
  CASE marker \in {196, 199, 217} -> 1
    [] marker \in {197, 200, 218} -> 2
    [] marker \in {198, 201, 219} -> 4
    [] OTHER -> -1

\* Arrays and maps: the width of the count field and the values per entry.
ContainerWidth(marker) ==
  CASE marker \in 128..159 -> 0 [] marker \in {220, 222} -> 2 [] marker \in {221, 223} -> 4 [] OTHER -> -1

\* Mutant: an entry of a map is one value.
PerEntryOne(marker) == 1

PerEntry(marker) == IF marker \in (128..143) \cup {222, 223} THEN 2 ELSE 1

\* Behind n bytes from p, when they are there.
Within(bytes, p, n) == IF p + n > Len(bytes) + 1 THEN Error ELSE p + n

\* skip_msgpack_value, n values in a row from p.
RECURSIVE SkipValues(_, _, _)
SkipValues(bytes, p, n) ==
  LET m == At(bytes, p)
      q == p + 1
      container == ContainerWidth(m)
      width == LengthWidth(m)
      entries == IF container = 0 THEN m % 16 ELSE BigEndian(bytes, q, container)
      end ==
        IF m = 193 THEN Error
        ELSE IF m \in 160..191 THEN Within(bytes, q, m % 32)
        ELSE IF FixedSize(m) # -1 THEN Within(bytes, q, FixedSize(m))
        ELSE IF width # -1
             THEN IF Within(bytes, q, width + ExtType(m)) = Error THEN Error
                  ELSE Within(bytes, q + width + ExtType(m), BigEndian(bytes, q, width))
        ELSE IF Within(bytes, q, container) = Error THEN Error
        ELSE SkipValues(bytes, q + container, PerEntry(m) * entries) IN
  IF n = 0 THEN p
  ELSE IF m = -1 \/ end = Error THEN Error
  ELSE SkipValues(bytes, end, n - 1)

SkipMsgpackValue(bytes, p) == SkipValues(bytes, p, 1)

\* read_msgpack_str: the text and the position behind it.
ReadMsgpackStr(bytes, p) ==
  LET m == At(bytes, p)
      width == IF m \in 160..191 THEN 0 ELSE IF m \in 217..219 THEN LengthWidth(m) ELSE -1
      start == p + 1 + width
      len == IF width = 0 THEN m % 32 ELSE BigEndian(bytes, p + 1, width) IN
  IF width = -1 \/ start > Len(bytes) + 1 THEN [end |-> Error]
  ELSE IF start + len > Len(bytes) + 1 THEN [end |-> Error]
  ELSE [end |-> start + len, bytes |-> Slice(bytes, start, start + len)]

\* std::str::from_utf8, told by a byte that no text holds
Utf8(bytes) == 255 \notin Range(bytes)

\* The header of a map with two entries; Error: anything else.
TwoEntries(bytes) ==
  CASE At(bytes, 1) = 130 -> 2
    [] SubSeq(bytes, 1, 3) = <<222, 0, 2>> -> 4
    [] SubSeq(bytes, 1, 5) = <<223, 0, 0, 0, 2>> -> 6
    [] OTHER -> Error

\* n entries still to be read; the same key twice leaves the other one missing.
RECURSIVE Entries(_, _, _, _, _)
Entries(bytes, p, n, event, slice) ==
  LET key == ReadMsgpackStr(bytes, p)
      text == ReadMsgpackStr(bytes, key.end)
      end == SkipMsgpackValue(bytes, key.end) IN
  IF n = 0 THEN Answer(event, slice)
  ELSE IF key.end = Error THEN None
  ELSE IF key.bytes = EventKey
       THEN IF text.end = Error THEN None
            ELSE IF ~Utf8(text.bytes) THEN None
            ELSE Entries(bytes, text.end, n - 1, Some(text.bytes), slice)
  ELSE IF key.bytes = BodyKey
       THEN IF end = Error THEN None
            ELSE Entries(bytes, end, n - 1, event, Some(Slice(bytes, key.end, end)))
  ELSE None

ParseMsgpackEnvelope(bytes) ==
  LET p == TwoEntries(bytes) IN
  IF p = Error THEN None ELSE Entries(bytes, p, 2, None, None)

-----------------------------------------------------------------------------
(* The client. *)

Init == body = <<>> /\ pending = 1 /\ written = 0

Write(token) ==
  /\ written < MaxTokens
  /\ pending > 0
  /\ body' = body \o token.bytes
  /\ pending' = IF Format = "json" THEN pending ELSE pending - 1 + token.opens
  /\ written' = written + 1

Next == \E token \in Tokens : Write(token)

Spec == Init /\ [][Next]_vars

-----------------------------------------------------------------------------
(* Properties *)

\* An envelope around a body: a layout is a sequence of byte strings and of
\* the holes <<-1>> (the name) and <<-2>> (the body).
Wrapped(layout, name, text) ==
  FlattenSeq([i \in 1..Len(layout) |->
    CASE layout[i] = <<-1>> -> name [] layout[i] = <<-2>> -> text [] OTHER -> layout[i]])

\* The JSON grammar, as a reference: the positions behind a value that starts
\* at p.  Letters stand for the words true, false and null only.
Words == {<<116, 114, 117, 101>>, <<102, 97, 108, 115, 101>>, <<110, 117, 108, 108>>}
StringEnds(bytes, p) ==
  LET quotes == {q \in (p + 1)..Len(bytes) : bytes[q] = Quote /\ ~Escapes(bytes, p + 1, q - 1)} IN
  IF At(bytes, p) # Quote \/ quotes = {} THEN {}
  ELSE IF BadEscape(SubSeq(bytes, p + 1, Min(quotes) - 1)) THEN {} ELSE {Min(quotes) + 1}
RECURSIVE ValueEnds(_, _)
RECURSIVE ListEnds(_, _, _)
\* Ends of a comma-separated list (of members, or of values) that starts at p.
ListEnds(bytes, p, members) ==
  LET firsts == IF members
                THEN UNION {ValueEnds(bytes, k + 1) : k \in {e \in StringEnds(bytes, p) : At(bytes, e) = Colon}}
                ELSE ValueEnds(bytes, p) IN
  firsts \cup UNION {ListEnds(bytes, e + 1, members) : e \in {f \in firsts : At(bytes, f) = Comma}}
ValueEnds(bytes, p) ==
  LET close == IF At(bytes, p) = OpenBrace THEN CloseBrace ELSE CloseBracket IN
  IF At(bytes, p) \in {OpenBrace, OpenBracket}
  THEN {e + 1 : e \in {f \in {p + 1} \cup ListEnds(bytes, p + 1, At(bytes, p) = OpenBrace) : At(bytes, f) = close}}
  ELSE StringEnds(bytes, p)
         \cup {q + 1 : q \in {q \in p..Len(bytes) : \A i \in p..q : bytes[i] \in Digits}}
         \cup {p + Len(w) : w \in {w \in Words : IsPrefix(w, SubSeq(bytes, p, Len(bytes)))}}
IsJson(bytes) == Len(bytes) + 1 \in ValueEnds(bytes, 1)

\* tcp_listener.rs parse_json_envelope: whatever a valid body holds (brackets
\* and escaped quotes in strings, nesting), wherever it stands among the
\* members and however the envelope is spaced, the scanner returns exactly its
\* bytes and the event's name.
JsonBodyExact ==
  Format = "json" /\ IsJson(body) =>
    \A layout \in Layouts : \A name \in Names :
      ParseJsonEnvelope(Wrapped(layout, name, body))
        = [ok |-> TRUE, event |-> Unescaped(name), body |-> body]

\* tcp_listener.rs skip_msgpack_value: a value of any type and nesting is
\* skipped to its last byte and no further, whatever follows it, and a value
\* that is cut short is an error; so the envelope scanner returns the body's
\* bytes and the name in either order of the keys.
MsgpackBodyExact ==
  Format = "msgpack" =>
    \A layout \in Layouts : \A name \in Names :
      LET r == ParseMsgpackEnvelope(Wrapped(layout, <<160 + Len(name)>> \o name, body)) IN
      IF pending = 0
      THEN /\ Utf8(name) => r = [ok |-> TRUE, event |-> name, body |-> body]
           /\ ~Utf8(name) => ~r.ok
           /\ \A n \in 0..(Len(body) - 1) : SkipMsgpackValue(SubSeq(body, 1, n), 1) = Error
      ELSE SkipMsgpackValue(body, 1) = Error
=============================================================================
