------------------------------ MODULE WireCodec ------------------------------
(***************************************************************************)
(* How a connection's byte stream becomes requests.  TCP: length-prefixed  *)
(* frames (beava-core wire.rs).  HTTP: a head, then a body delimited by    *)
(* Content-Length or by chunks (http_listener.rs).  The bytes arrive in    *)
(* pieces cut anywhere; after every piece the worker calls the decoder     *)
(* until it asks for more.                                                 *)
(*                                                                         *)
(* Bytes are numbers.  The header lines are read by the httparse crate:    *)
(* here they are one symbol above 255 that names an entry of Heads, after  *)
(* any number of padding bytes; the blank line that ends them is real.  A  *)
(* usize is a number below Usize, which stands for 2^64.                   *)
(***************************************************************************)
EXTENDS Integers, Sequences, SequencesExt

CONSTANTS
  Streams,     \* what clients may send: records [proto, requests]
  Heads,       \* header symbol -> [length, chunked, fault]; length -1: no such header
  MaxFrame,    \* tcp_max_frame_bytes
  MaxHeader,   \* MAX_HEADER_BYTES
  MaxBody,     \* MAX_BODY_BYTES
  Usize        \* 2^64

VARIABLES
  stream,      \* the member of Streams being sent
  incoming,    \* its bytes that have not arrived
  buf,         \* the connection's read buffer
  got,         \* requests decoded so far
  status       \* "open", the error that closes the connection, or "panic"

vars == <<stream, incoming, buf, got, status>>

CR == 13
LF == 10
CRLF == <<CR, LF>>

More == [kind |-> "more"]
Refused(error) == [kind |-> "refused", error |-> error]
Decoded(request, used) == [kind |-> "request", request |-> request, used |-> used]

-----------------------------------------------------------------------------
(* Frames: u32 length, u16 op, u8 content type, payload. *)

U16(n) == <<n \div 256, n % 256>>
U32(n) == U16(n \div 65536) \o U16(n % 65536)
ReadU16(bytes) == bytes[1] * 256 + bytes[2]
ReadU32(bytes) == ReadU16(bytes) * 65536 + ReadU16(SubSeq(bytes, 3, 4))

EncodeFrame(frame) ==
  U32(Len(frame.payload) + 3) \o U16(frame.op) \o <<frame.content_type>> \o frame.payload

\* Mutant: the length prefix is allowed for twice.
LimitWithPrefix(declared) == declared > MaxFrame + 7

OverLimit(declared) == declared > MaxFrame + 3

Needed(declared) == 4 + declared

\* Mutant: the limit is looked at once the whole frame is there.
DecodeFrameLate(bytes) ==
  LET declared == ReadU32(bytes) IN
  IF Len(bytes) < 4 THEN More
  ELSE IF declared < 3 THEN Refused("LengthUnderflow")
  ELSE IF Len(bytes) < Needed(declared) THEN More
  ELSE IF OverLimit(declared) THEN Refused("TooLarge")
  ELSE Decoded([op |-> ReadU16(SubSeq(bytes, 5, 6)), content_type |-> bytes[7],
                payload |-> SubSeq(bytes, 8, 4 + declared)], 4 + declared)

DecodeFrame(bytes) ==
  LET declared == ReadU32(bytes) IN
  IF Len(bytes) < 4 THEN More
  ELSE IF declared < 3 THEN Refused("LengthUnderflow")
  ELSE IF OverLimit(declared) THEN Refused("TooLarge")
  ELSE IF Len(bytes) < Needed(declared) THEN More
  ELSE Decoded([op |-> ReadU16(SubSeq(bytes, 5, 6)), content_type |-> bytes[7],
                payload |-> SubSeq(bytes, 8, 4 + declared)], 4 + declared)

-----------------------------------------------------------------------------
(* HTTP requests. *)

\* The position of the first occurrence of pattern at or after from; 0: none.
Find(bytes, pattern, from) ==
  LET at == {i \in from..(Len(bytes) - Len(pattern) + 1) :
               SubSeq(bytes, i, i + Len(pattern) - 1) = pattern} IN
  IF at = {} THEN 0 ELSE CHOOSE i \in at : \A j \in at : i <= j

FindCrlf(bytes, from) == Find(bytes, CRLF, from)

Digit(b) == IF b \in 48..57 THEN b - 48 ELSE IF b \in 97..102 THEN b - 87
            ELSE IF b \in 65..70 THEN b - 55 ELSE -1

\* usize::from_str_radix(.., 16); -1 when it fails, also because the number does
\* not fit
Plus == 43
Hex(text) ==
  LET digits == IF Len(text) > 1 /\ text[1] = Plus THEN Tail(text) ELSE text
      n == FoldLeft(LAMBDA m, b : 16 * m + Digit(b), 0, digits)
  IN  IF digits = <<>> \/ (\E i \in 1..Len(digits) : Digit(digits[i]) = -1) \/ n >= Usize THEN -1 ELSE n

\* str::trim
Blank == (9..13) \cup {32}
Trim(text) ==
  LET kept == {i \in DOMAIN text : text[i] \notin Blank} IN
  IF kept = {} THEN <<>> ELSE SubSeq(text, Min(kept), Max(kept))

\* Mutant: blanks around a size are not removed.
ChunkSizeUntrimmed(line) ==
  LET at == Find(line, <<59>>, 1) IN Hex(IF at = 0 THEN line ELSE SubSeq(line, 1, at - 1))

\* The number of a chunk-size line without its extension, -1 when there is none;
\* a line that is not UTF-8 has none (longer characters are left out).
Semicolon == 59
ChunkSize(line) ==
  LET text == Trim(line)
      at == Find(text, <<Semicolon>>, 1) IN
  IF \E i \in DOMAIN line : line[i] > 127 THEN -1
  ELSE Hex(Trim(IF at = 0 THEN text ELSE SubSeq(text, 1, at - 1)))

\* Mutant: the CRLF behind a chunk's data is not skipped.
AfterChunkNoCrlf(end) == end + 1

\* The next size line starts behind the two bytes after the data, whatever they are.
AfterChunk(end) == end + 3

\* parse_chunked_body of data from position at, the bytes of earlier chunks in body.
\* What follows the last chunk's line is two bytes that are not looked at.  The end
\* of a chunk is computed modulo 2^64: when it wraps around, the slice is out of
\* range and the process aborts.
RECURSIVE ChunkedFrom(_, _, _)
ChunkedFrom(data, at, body) ==
  LET eol == FindCrlf(data, at)
      size == ChunkSize(SubSeq(data, at, eol - 1))
      end == eol + 1 + size IN
  IF eol = 0 THEN More
  ELSE IF size = -1 THEN Refused("BadChunked")
  ELSE IF end + 2 >= Usize THEN Refused("panic")
  ELSE IF Len(data) < end + 2 THEN More
  ELSE IF size = 0 THEN Decoded(body, end + 2)
  ELSE ChunkedFrom(data, AfterChunk(end), body \o SubSeq(data, eol + 2, end))

\* The cap counts only while no end of the head is in the buffer.
HeadTooLong(bytes) == Find(bytes, CRLF \o CRLF, 1) = 0 /\ Len(bytes) > MaxHeader

\* httparse refuses a malformed head as soon as it sees what is wrong with it.
Malformed(head) == \E i \in DOMAIN head : head[i] \in DOMAIN Heads /\ Heads[head[i]].fault = "head"

ParseHttpRequest(bytes) ==
  LET blank == Find(bytes, CRLF \o CRLF, 1)
      headEnd == blank + 3
      sym == bytes[blank - 1]
      head == Heads[sym]
      request(body) == [head |-> sym, body |-> body] IN
  IF HeadTooLong(bytes) THEN Refused("TooLarge")
  ELSE IF Malformed(IF blank = 0 THEN bytes ELSE SubSeq(bytes, 1, blank - 1)) THEN Refused("Httparse")
  ELSE IF blank = 0 THEN More
  ELSE IF head.fault = "length" THEN Refused("InvalidContentLength")
  ELSE IF head.chunked
       THEN LET body == ChunkedFrom(SubSeq(bytes, headEnd + 1, Len(bytes)), 1, <<>>) IN
            IF body.kind = "request" THEN Decoded(request(body.request), headEnd + body.used) ELSE body
  ELSE IF head.length = -1 THEN Decoded(request(<<>>), headEnd)
  ELSE IF head.length > MaxBody THEN Refused("TooLarge")
  ELSE IF Len(bytes) < headEnd + head.length THEN More
  ELSE Decoded(request(SubSeq(bytes, headEnd + 1, headEnd + head.length)), headEnd + head.length)

-----------------------------------------------------------------------------
(* The connection. *)

\* What the client writes for one request.  A chunk is [size, n, data]: its size
\* line as written, the number that stands for, or -1, and its data.
EncodeHttp(request) ==
  LET chunk(c) == c.size \o CRLF \o c.data \o CRLF
      body == IF Heads[request.head].chunked
              THEN FlattenSeq([i \in 1..Len(request.chunks) |-> chunk(request.chunks[i])])
                     \o <<48>> \o CRLF \o CRLF
              ELSE request.data IN
  [i \in 1..request.padding |-> 120] \o <<request.head>> \o CRLF \o CRLF \o body

Bytes(s) ==
  FlattenSeq([i \in 1..Len(s.requests) |->
                IF s.proto = "tcp" THEN EncodeFrame(s.requests[i]) ELSE EncodeHttp(s.requests[i])])

Decode(bytes) == IF stream.proto = "tcp" THEN DecodeFrame(bytes) ELSE ParseHttpRequest(bytes)

Init ==
  /\ stream \in Streams
  /\ incoming = Bytes(stream)
  /\ buf = <<>> /\ got = <<>> /\ status = "open"

\* One more piece arrives, once the decoder has taken what it could.
Arrive(n) ==
  /\ status = "open" /\ Decode(buf) = More
  /\ n <= Len(incoming)
  /\ buf' = buf \o SubSeq(incoming, 1, n)
  /\ incoming' = SubSeq(incoming, n + 1, Len(incoming))
  /\ UNCHANGED <<stream, got, status>>

TakeRequest ==
  LET d == Decode(buf) IN
  /\ status = "open" /\ d.kind = "request"
  /\ got' = Append(got, d.request)
  /\ buf' = SubSeq(buf, d.used + 1, Len(buf))
  /\ UNCHANGED <<stream, incoming, status>>

\* A refused stream: nothing is consumed, the caller closes the connection; after a
\* panic there is no caller.
Refuse ==
  LET d == Decode(buf) IN
  /\ status = "open" /\ d.kind = "refused"
  /\ status' = d.error
  /\ UNCHANGED <<stream, incoming, buf, got>>

Next == (\E n \in 1..Len(incoming) : Arrive(n)) \/ TakeRequest \/ Refuse

Spec == Init /\ [][Next]_vars

-----------------------------------------------------------------------------
(* Properties *)

\* The request the client meant by what it wrote.
Meant(r) ==
  IF stream.proto = "tcp" THEN r
  ELSE [head |-> r.head,
        body |-> IF Heads[r.head].chunked
                 THEN FlattenSeq([i \in 1..Len(r.chunks) |-> r.chunks[i].data]) ELSE r.data]

\* The sizes that a chunked request declares, and whether one of them is no number or
\* so close to 2^64 that the end of its chunk is not a usize.
Sizes(r) == {r.chunks[i].n : i \in 1..Len(r.chunks)}
SizesFit(r) == \A n \in Sizes(r) : n # -1 /\ n < Usize \div 2

\* A request that may be taken, and one that may be refused.  wire.rs counts the
\* limit without op and content type, docs/wire-spec.md:37 with them: a frame between
\* the two may be either.  A head over the cap whose end arrives with it is read like
\* any other.
Acceptable(r) ==
  IF stream.proto = "tcp" THEN Len(r.payload) <= MaxFrame
  ELSE /\ Heads[r.head].fault = "none"
       /\ IF Heads[r.head].chunked THEN SizesFit(r) ELSE Heads[r.head].length <= MaxBody
Suspect(r) ==
  IF stream.proto = "tcp" THEN Len(r.payload) + 3 > MaxFrame
  ELSE ~Acceptable(r) \/ r.padding + 4 > MaxHeader

\* wire.rs decode_frame, http_listener.rs parse_http_request: however the bytes
\* are cut into pieces and however many requests are pipelined in one piece,
\* the requests decoded are those sent, in order, bodies included; a well-formed
\* request within the limits is never refused, one that is malformed or over them
\* never accepted; and when everything has arrived nothing is left undecoded.  The
\* process stops only on a chunk size that leaves no room below 2^64.
RequestsAsSent ==
  LET sent == stream.requests
      n == Len(got) IN
  /\ n <= Len(sent)
  /\ \A i \in 1..n : got[i] = Meant(sent[i]) /\ Acceptable(sent[i])
  /\ status # "open" => n < Len(sent) /\ Suspect(sent[n + 1])
  /\ status = "panic" => \E m \in Sizes(sent[n + 1]) : m >= Usize \div 2
  /\ status = "open" /\ incoming = <<>> /\ Decode(buf) = More => n = Len(sent) /\ buf = <<>>

\* wire.rs: a frame over the limit is refused as soon as its length prefix has
\* arrived, so the read buffer never waits for more than one frame of legal size.
BufferBounded ==
  stream.proto = "tcp" /\ status = "open" /\ Decode(buf) = More => Len(buf) < MaxFrame + 7

=============================================================================
