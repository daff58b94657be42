---------------------------- MODULE RequestPath -----------------------------
(***************************************************************************)
(* One request at a time through the apply thread: what the TCP and HTTP   *)
(* parsers make of it (parse_wire_request, parse_http_request, the         *)
(* router), what ApplyShard does with it (dispatch_one), and what the      *)
(* encoders answer.  Around it: the wall clock, the idempotency cache, the *)
(* restart of the process and the reset of test mode.                      *)
(*                                                                         *)
(* The registry holds one event type "E", with a dedupe key, and one table *)
(* "T" with a windowed feature "f" over it; they are registered together.  *)
(* An event of type E is [lsn, dk, at, boot]: at is the wall clock when it *)
(* was pushed and boot the run of the server it was pushed in.  Module     *)
(* Registration models real registries, module WindowedOps features.       *)
(***************************************************************************)
EXTENDS Naturals, Sequences, FiniteSets

CONSTANTS
  DKeys,         \* values of the dedupe key
  DedupeWindow,  \* dedupe_window_ms
  AggWindow,     \* window of the feature
  Protos,        \* subset of {"tcp", "http"}
  Inputs,        \* subset of {"push", "query", "admin"}
  TestMode,      \* effective_test_mode
  MaxTime,       \* bound: wall clock
  MaxEvents,     \* bound: events in the log
  MaxBoots       \* bound: runs of the server

VARIABLES
  wall,        \* SystemTime::now
  boot,        \* number of this run of the server
  known,       \* whether E and T are registered
  bumps,       \* what replaying the registry log comes to: "none", "installs"
               \* them, or "fails" at a bump that cannot be applied
  log,         \* the events in the data-plane log
  table,       \* the events the table of T has counted
  cache,       \* the idempotency cache: a set of entries
  watermark,   \* query_time_ms
  resets,      \* LSN of the last event before the table was last emptied
  resp         \* the answer to the last request

state == <<known, bumps, log, table, cache, watermark>>
vars == <<wall, boot, state, resets, resp>>

Last(s) == s[Len(s)]
LastLsn == IF log = <<>> THEN 0 ELSE Last(log).lsn
LargerOf(a, b) == IF a >= b THEN a ELSE b

-----------------------------------------------------------------------------
(* What arrives. *)

TcpOps == {"ping", "register", "push", "get", "mget", "get_multi",
           "batch_get", "reset", "push_sync", "other"}
ContentTypes == {"json", "msgpack", "other"}
Routes == {"push", "push-sync", "push-batch", "push-verb", "push-sync-verb",
           "ping", "reset", "get-single", "get", "batch_get", "register",
           "health", "ready", "registry", "none"}

\* A body of a push: an envelope that cannot be read or names no event, one
\* with the row under "data", or one with it under "body".  Rows: not decodable, with a control character, with a field the
\* schema does not have, with a required field missing or of a wrong type,
\* or good, with a value of the dedupe key.
PushBodies ==
  [env : {"bad", "nameless"}, event : {"E"}, row : {"good"}, dk : {"-"}] \cup
  [env : {"data", "body"}, event : {"E", "X"},
   row : {"garbled", "control", "extra", "badtype"}, dk : {"-"}] \cup
  [env : {"data", "body"}, event : {"E"}, row : {"good"}, dk : DKeys]

\* A body of a query: unreadable, of a withdrawn shape, or a table, a key of
\* the right or a wrong arity, and a filter of features.
QueryBodies ==
  [env : {"bad", "legacy"}, table : {"T"}, key : {"fit"}, want : {"all"}] \cup
  [env : {"good"}, table : {"T", "X"}, key : {"fit", "unfit"},
   want : {"all", "f", "x"}]

\* A body of a registration: E and T as they are; one that fails a check; the
\* same as a dry run; no nodes at all, which leaves out what is registered; and
\* a forced one that changes E and builds on T without repeating it.
RegisterBodies == {"good", "bad", "dry", "empty", "orphan"}

\* The requests clients send, by the group of inputs a run enables.
PushInputs ==
  ((IF "tcp" \in Protos THEN [proto : {"tcp"}, op : {"push"},
      ct : ContentTypes, body : PushBodies] ELSE {})
   \cup
   (IF "http" \in Protos THEN [proto : {"http"},
      op : {"push", "push-sync", "push-batch", "push-verb", "push-sync-verb"},
      ct : {"json"}, body : PushBodies] ELSE {}))
QueryInputs ==
  ((IF "tcp" \in Protos THEN [proto : {"tcp"},
      op : {"get", "batch_get", "mget", "get_multi"}, ct : ContentTypes,
      body : QueryBodies] ELSE {})
   \cup
   (IF "http" \in Protos THEN [proto : {"http"},
      op : {"get", "batch_get", "get-single"}, ct : {"json"},
      body : QueryBodies] ELSE {}))
AdminInputs ==
  ((IF "tcp" \in Protos THEN
      [proto : {"tcp"}, op : {"register"}, ct : ContentTypes,
       body : RegisterBodies] \cup
      [proto : {"tcp"}, op : {"ping", "reset", "push_sync", "other"},
       ct : ContentTypes, body : {"good"}] ELSE {})
   \cup
   (IF "http" \in Protos THEN
      [proto : {"http"}, op : {"register"}, ct : {"json", "other"},
       body : RegisterBodies] \cup
      [proto : {"http"},
       op : {"ping", "reset", "health", "ready", "registry", "none",
             "wrong-method"},
       ct : {"json"}, body : {"good"}] ELSE {}))

Refuse(why) == [kind |-> "ParseError", code |-> why]
Ask(k, i) == [kind |-> k, ct |-> i.ct, body |-> i.body]

\* parse_wire_request: opcode and content type decide; of a push the envelope
\* is opened too.
FromTcp(i) ==
  CASE i.op = "ping" -> [kind |-> "Ping"]
    [] i.op = "register" -> IF i.ct = "json" THEN Ask("Register", i)
                            ELSE Refuse("unsupported_content_type")
    [] i.op = "push" ->
         IF i.ct = "other" THEN Refuse("unsupported_content_type")
         ELSE IF i.body.env = "body" THEN Ask("Push", i)
         ELSE Refuse(IF i.ct = "json" THEN "json envelope" ELSE "msgpack envelope")
    [] i.op \in {"get", "mget", "get_multi", "batch_get", "reset"} ->
         IF i.ct = "other" THEN Refuse("unsupported_content_type")
         ELSE Ask(CASE i.op = "get" -> "Get"
                    [] i.op \in {"mget", "get_multi"} -> "GetMulti"
                    [] i.op = "batch_get" -> "BatchGet"
                    [] i.op = "reset" -> "Reset", i)
    [] OTHER -> [kind |-> "Unknown", code |-> IF i.op = "push_sync"
                              THEN "op_not_implemented" ELSE "unknown_op"]

\* parse_verb_push: the event name and the row are in the body; without
\* "data" the row is empty, which lacks the required fields.  The routes that
\* carry the name in the path take the whole body for the row.
WithRow(i, r) == [kind |-> "Push", ct |-> i.ct, body |-> [i.body EXCEPT !.row = r]]
VerbPush(i) ==
  CASE i.body.env = "bad" -> Refuse("invalid_json_body")
    [] i.body.env = "nameless" -> Refuse("missing_event_name_in_body")
    [] i.body.env = "data" -> Ask("Push", i)
    [] i.body.env = "body" -> WithRow(i, "badtype")
PathPush(i) ==
  CASE i.body.env = "bad" -> WithRow(i, "garbled")
    [] i.body.env = "body" -> Ask("Push", i)
    [] OTHER -> WithRow(i, "extra")

\* Router::route and the content-type check of parse_http_request.
FromHttp(i) ==
  CASE i.op \in {"push", "push-sync", "push-batch"} -> PathPush(i)
    [] i.op \in {"push-verb", "push-sync-verb"} -> VerbPush(i)
    [] i.op = "ping" -> [kind |-> "Ping"]
    [] i.op = "register" -> IF i.ct = "json" THEN Ask("Register", i)
                            ELSE [kind |-> "MediaType"]
    [] i.op = "get-single" -> Ask("GetFeature", i)
    [] i.op = "get" -> Ask("Get", i)
    [] i.op = "batch_get" -> Ask("BatchGet", i)
    [] i.op = "reset" -> Ask("Reset", i)
    [] i.op \in {"health", "ready", "registry"} -> [kind |-> "Status"]
    [] i.op = "none" -> [kind |-> "NotFound"]
    [] i.op = "wrong-method" -> [kind |-> "MethodNotAllowed"]

Parse(i) == IF i.proto = "tcp" THEN FromTcp(i) ELSE FromHttp(i)

-----------------------------------------------------------------------------
(* What is answered.  A GlueResponse is a kind, a code and, where it has   *)
(* one, a value: the LSN of an acknowledgement, the result of a query.     *)

OP_PING == 0
OP_REGISTER == 1
OP_PUSH == 16
OP_GET_RESPONSE == 35
OP_ERROR_RESPONSE == 65535

Glue(k, c, v) == [kind |-> k, code |-> c, val |-> v]

\* encode_glue_response_tcp: the opcode of the frame and the error's shape.
EncodeTcp(g) ==
  [proto |-> "tcp",
   ok |-> g.kind \in {"Pong", "PushAck", "PushReplay", "QueryResult", "ResetOk",
                      "Registered"},
   status |-> CASE g.kind = "Pong" -> OP_PING
                [] g.kind \in {"PushAck", "PushReplay"} -> OP_PUSH
                [] g.kind \in {"QueryResult", "ResetOk"} -> OP_GET_RESPONSE
                [] g.kind = "Registered" -> OP_REGISTER
                [] OTHER -> OP_ERROR_RESPONSE,
   enveloped |-> g.kind # "Unsupported",
   code |-> g.code, val |-> g.val,
   replay |-> g.kind = "PushReplay", acked |-> g.kind = "PushAck"]

\* encode_glue_response_http: the status line.  A replay is the cached body
\* of the first answer, whose flag is false.
HttpStatus(g) ==
  CASE g.kind \in {"Pong", "PushAck", "PushReplay", "QueryResult", "ResetOk",
                   "Registered", "StatusOk"} -> 200
    [] g.kind = "PushError" -> IF g.code = "event_not_found" THEN 404 ELSE 400
    [] g.kind = "RegisterError" -> CASE g.code = "force_required" -> 409
                                     [] g.code = "wal_unavailable" -> 503
                                     [] OTHER -> 400
    [] g.kind = "UnsupportedRequestShape" -> 400
    [] g.kind \in {"QueryNotFound", "HttpRouteNotFound"} -> 404
    [] g.kind = "HttpMethodNotAllowed" -> 405
    [] g.kind = "HttpUnsupportedMediaType" -> 415
    [] g.kind = "InternalError" -> 500
    [] g.kind = "ResetForbidden" -> 403
    [] OTHER -> 501
EncodeHttp(g) ==
  [proto |-> "http", ok |-> HttpStatus(g) = 200, status |-> HttpStatus(g),
   enveloped |-> TRUE, code |-> g.code, val |-> g.val, replay |-> FALSE,
   acked |-> g.kind = "PushAck"]

\* The answer in the protocol of the request.
Answer(i, g) == resp' = IF i.proto = "tcp" THEN EncodeTcp(g) ELSE EncodeHttp(g)

-----------------------------------------------------------------------------
Init ==
  /\ wall = 1 /\ boot = 1
  /\ known = FALSE /\ bumps = "none"
  /\ log = <<>> /\ table = {} /\ cache = {}
  /\ watermark = 0 /\ resets = 0
  /\ resp = EncodeTcp(Glue("Pong", "-", 0))

\* The clock of the system moves on.
Tick ==
  /\ wall < MaxTime
  /\ wall' = wall + 1
  /\ UNCHANGED <<boot, state, resets, resp>>

\* Mutant: an entry ends before its window.
HitOneShorter(dk) == {e \in cache : e.dk = dk /\ e.expires > wall + 1}

\* IdemCache::get_with_ack_lsn: an expired entry is a miss.
Hit(dk) == {e \in cache : e.dk = dk /\ e.expires > wall}

\* The checks of dispatch_push_sync in their order; "-" when all pass.
PushFault(b) ==
  CASE b.row = "garbled" -> "invalid_event"
    [] b.row = "control" -> "control_character_in_string"
    [] b.event # "E" \/ ~known -> "event_not_found"
    [] b.row = "extra" -> "unknown_field_v0"
    [] b.row = "badtype" -> "invalid_event"
    [] OTHER -> "-"

\* Mutant: the LSN continues from what the tables have seen.
NextOfTable == 1 + (IF table = {} THEN 0 ELSE
                     (CHOOSE e \in table : \A f \in table : f.lsn <= e.lsn).lsn)

\* The LSN the log gives the next event.
NextLsn == LastLsn + 1

\* Mutant: the entry of an older push is kept.
KeepOldEntry(dk, n) ==
  IF \E e \in cache : e.dk = dk THEN cache
  ELSE cache \cup {[dk |-> dk, lsn |-> n, expires |-> wall + DedupeWindow]}

\* IdemCache::put replaces the entry of the key.
Cached(dk, n) ==
  {e \in cache : e.dk # dk} \cup
  {[dk |-> dk, lsn |-> n, expires |-> wall + DedupeWindow]}

\* dispatch_push_sync: check, look for a duplicate, append to the log, apply,
\* remember the answer.
Push(i, req) ==
  LET b == req.body
      n == NextLsn
      e == [lsn |-> n, dk |-> b.dk, at |-> wall, boot |-> boot]
  IN /\ req.kind = "Push"
     /\ \/ /\ PushFault(b) # "-"
           /\ Answer(i, Glue("PushError", PushFault(b), 0))
           /\ UNCHANGED state
        \/ /\ PushFault(b) = "-" /\ Hit(b.dk) # {}
           /\ Answer(i, Glue("PushReplay", "-", (CHOOSE h \in Hit(b.dk) : TRUE).lsn))
           /\ UNCHANGED state
        \/ /\ PushFault(b) = "-" /\ Hit(b.dk) = {} /\ Len(log) < MaxEvents
           /\ log' = Append(log, e)
           /\ table' = table \cup {e}
           /\ watermark' = LargerOf(watermark, wall)
           /\ cache' = Cached(b.dk, n)
           /\ Answer(i, Glue("PushAck", "-", n))
           /\ UNCHANGED <<known, bumps>>
     /\ UNCHANGED <<wall, boot, resets>>

\* What the feature says at a query time: the events inside its window.
FeatureAt(t) == Cardinality({e \in table : e.at + AggWindow > t})

\* effective_query_time_ms, for the get family.
QueryTime == LargerOf(watermark, wall)

\* dispatch_get_single_verb_style_sync.
GetGlue(b) ==
  CASE b.env = "legacy" -> Glue("UnsupportedRequestShape", "-", 0)
    [] b.env = "bad" -> Glue("InternalError", "parse", 0)
    [] ~known \/ b.table # "T" -> Glue("QueryNotFound", "unknown_table", 0)
    [] b.want = "x" -> Glue("InternalError", "feature_not_found", 0)
    [] b.key = "unfit" -> Glue("QueryNotFound", "key_parse_failure", 0)
    [] OTHER -> Glue("QueryResult", "-", FeatureAt(QueryTime))

\* dispatch_get_single: the name is a feature or a table, and an entity
\* without events is not found.
GetFeatureGlue(b) ==
  CASE ~known \/ (b.want = "x" /\ b.table # "T") ->
         Glue("QueryNotFound", "feature_not_found", 0)
    [] b.key = "unfit" -> Glue("QueryNotFound", "key_parse_failure", 0)
    [] table = {} -> Glue("QueryNotFound", "key_not_found", 0)
    [] OTHER -> Glue("QueryResult", "-", FeatureAt(QueryTime))

\* dispatch_get_batch: any unknown feature refuses all; a key that does not
\* fit is left out of the result.
GetMultiGlue(b) ==
  CASE b.env # "good" -> Glue("InternalError", "parse", 0)
    [] ~known \/ b.want = "x" -> Glue("InternalError", "feature_not_found", 0)
    [] b.key = "unfit" -> Glue("QueryResult", "left out", 0)
    [] OTHER -> Glue("QueryResult", "-", FeatureAt(QueryTime))

\* dispatch_batch_get_sync reads the watermark alone.
BatchQueryTime == watermark

\* dispatch_batch_get_sync: an unknown feature of a known table refuses the
\* batch, everything else is reported in the entry.
BatchGetGlue(b) ==
  CASE b.env # "good" -> Glue("InternalError", "parse", 0)
    [] known /\ b.table = "T" /\ b.want = "x" ->
         Glue("InternalError", "feature_not_found", 0)
    [] ~known \/ b.table # "T" -> Glue("QueryResult", "unknown_table", 0)
    [] b.key = "unfit" -> Glue("QueryResult", "key_parse_failure", 0)
    [] OTHER -> Glue("QueryResult", "-", FeatureAt(BatchQueryTime))

Query(i, req) ==
  /\ req.kind \in {"Get", "GetFeature", "GetMulti", "BatchGet"}
  /\ Answer(i, CASE req.kind = "Get" -> GetGlue(req.body)
                 [] req.kind = "GetFeature" -> GetFeatureGlue(req.body)
                 [] req.kind = "GetMulti" -> GetMultiGlue(req.body)
                 [] req.kind = "BatchGet" -> BatchGetGlue(req.body))
  /\ UNCHANGED <<wall, boot, state, resets>>

\* What the registry log comes to with one more bump.  Replay ends at one that
\* does not apply, whatever follows it.
Logged(b) == CASE bumps = "fails" \/ b = "orphan" -> "fails"
               [] OTHER -> "installs"

\* The answers that log nothing: the checks of the body and of the payload,
\* dry_run, the force gate, and a payload that changes nothing.
RegisterSettled(b) ==
  CASE b = "bad" \/ (b = "orphan" /\ ~known) ->
         Glue("RegisterError", "invalid_registration", 0)
    [] b = "empty" /\ known -> Glue("RegisterError", "force_required", 0)
    [] b = "dry" \/ (b = "empty" /\ ~known) \/ (b = "good" /\ known) ->
         Glue("Registered", "-", 0)
    [] OTHER -> Glue("RegisterError", "wal_unavailable", 0)
MustLog(b) == (b = "good" /\ ~known) \/ (b = "orphan" /\ known)

\* Mutant: the registration is installed before its bump is logged.
RegisterFirst(i, req) ==
  /\ req.kind = "Register" /\ MustLog(req.body)
  /\ known' = (req.body = "good")
  /\ Answer(i, RegisterSettled(req.body))
  /\ UNCHANGED <<bumps, log, table, cache, watermark, wall, boot, resets>>

\* execute_register_inner: the bump is logged and fsynced, then applied.  If
\* the fsync fails the bump may be in the file all the same.
RegisterUnlogged(i, req) ==
  /\ req.kind = "Register" /\ MustLog(req.body)
  /\ bumps' \in {bumps, Logged(req.body)}
  /\ Answer(i, RegisterSettled(req.body))
  /\ UNCHANGED <<known, log, table, cache, watermark, wall, boot, resets>>

\* A forced bump that does not apply has removed its descriptors by then: what
\* their tables counted is out of reach, and the answer is an error.
Register(i, req) ==
  /\ req.kind = "Register"
  /\ \/ /\ ~MustLog(req.body)
        /\ Answer(i, RegisterSettled(req.body))
        /\ UNCHANGED <<state, resets>>
     \/ /\ MustLog(req.body) /\ req.body = "good"
        /\ known' = TRUE /\ bumps' = Logged("good")
        /\ Answer(i, Glue("Registered", "-", 0))
        /\ UNCHANGED <<log, table, cache, watermark, resets>>
     \/ /\ MustLog(req.body) /\ req.body = "orphan"
        /\ known' = FALSE /\ bumps' = Logged("orphan")
        /\ table' = {} /\ resets' = LastLsn
        /\ Answer(i, RegisterSettled(req.body))
        /\ UNCHANGED <<log, cache, watermark>>
  /\ UNCHANGED <<wall, boot>>

\* dispatch_reset_sync: tables, registry, next_event_id and the watermark are
\* cleared; the logs and the idempotency cache are not.
Reset(i, req) ==
  /\ req.kind = "Reset"
  /\ IF TestMode
       THEN /\ table' = {} /\ known' = FALSE /\ watermark' = 0
            /\ resets' = LastLsn
            /\ Answer(i, Glue("ResetOk", "-", 0))
            /\ UNCHANGED <<bumps, log, cache>>
       ELSE /\ Answer(i, Glue("ResetForbidden", "reset_disabled_in_production", 0))
            /\ UNCHANGED <<state, resets>>
  /\ UNCHANGED <<wall, boot>>

\* The requests that read nothing but the version, or are refused.
Other(i, req) ==
  /\ req.kind \in {"Ping", "Status", "Unknown", "ParseError", "MediaType",
                   "NotFound", "MethodNotAllowed"}
  /\ Answer(i, CASE req.kind = "Ping" -> Glue("Pong", "-", 0)
                 [] req.kind = "Status" -> Glue("StatusOk", "-", 0)
                 [] req.kind = "Unknown" -> Glue("TcpError", req.code, 0)
                 [] req.kind = "MediaType" -> Glue("HttpUnsupportedMediaType", "-", 0)
                 [] req.kind = "NotFound" -> Glue("HttpRouteNotFound", "-", 0)
                 [] req.kind = "MethodNotAllowed" -> Glue("HttpMethodNotAllowed", "-", 0)
                 [] req.kind = "ParseError" ->
                      CASE req.code = "unsupported_content_type" ->
                             Glue("TcpError", req.code, 0)
                        [] req.code \in {"missing_event_name_in_body",
                                         "invalid_json_body"} ->
                             Glue("PushError", req.code, 0)
                        [] OTHER -> Glue("Unsupported", req.code, 0))
  /\ UNCHANGED <<wall, boot, state, resets>>

Dispatch(i) ==
  LET req == Parse(i) IN
  Push(i, req) \/ Query(i, req) \/ Register(i, req) \/ RegisterUnlogged(i, req)
  \/ Reset(i, req) \/ Other(i, req)

\* Mutant: the last record is taken for a torn one.
ReplayedButLast == {log[k] : k \in 1 .. Len(log) - 1}

Replayed == {log[k] : k \in 1 .. Len(log)}

\* The process ends and starts again; both logs were flushed.  Recovery
\* replays them; the cache starts empty and nothing restores the watermark
\* but the replayed events' own times.
Restart ==
  /\ boot < MaxBoots
  /\ boot' = boot + 1
  /\ known' = (bumps = "installs")
  /\ table' = IF bumps = "installs" THEN Replayed ELSE {}
  /\ resets' = IF bumps = "installs" THEN resets ELSE LastLsn
  /\ cache' = {}
  /\ watermark' = IF log = <<>> THEN 0 ELSE Last(log).at
  /\ UNCHANGED <<wall, bumps, log, resp>>

Request ==
  \/ "push" \in Inputs /\ \E i \in PushInputs : Dispatch(i)
  \/ "query" \in Inputs /\ \E i \in QueryInputs : Dispatch(i)
  \/ "admin" \in Inputs /\ \E i \in AdminInputs : Dispatch(i)

Next == Tick \/ Request \/ Restart

Spec == Init /\ [][Next]_vars
-----------------------------------------------------------------------------
\* While the server runs, two events with the same dedupe key are counted
\* only if a dedupe window lies between them.
DedupedWithinRun ==
  \A d, e \in table :
    d.dk = e.dk /\ d.boot = e.boot /\ d.lsn < e.lsn => e.at >= d.at + DedupeWindow

\* A push answered from the cache cites the LSN of an event with the same
\* key that is in the log, and that is younger than the dedupe window.
CacheHonest ==
  \A c \in cache : \E k \in 1 .. Len(log) :
    /\ log[k].lsn = c.lsn /\ log[k].dk = c.dk /\ log[k].boot = boot
    /\ c.expires = log[k].at + DedupeWindow
    /\ \A m \in k + 1 .. Len(log) : log[m].dk # c.dk

\* apply_shard.rs, idem_cache.rs: a retry inside the dedupe window is answered
\* with the LSN of the newest event with its key, which this process logged, and
\* counted no second time; one outside of it is an event of its own.
RetriesAbsorbed == DedupedWithinRun /\ CacheHonest

\* LSNs grow along the log and are never given twice, across resets too.
LsnsGrow == \A k \in 2 .. Len(log) : log[k - 1].lsn < log[k].lsn

\* A push that was acknowledged is in the table the next query reads, also
\* after a restart, until the table is emptied: by a reset, by a forced
\* registration that cannot be applied, or by a restart over a registry log
\* that cannot be replayed.
AckedIsVisible ==
  resp.acked /\ known /\ resp.val > resets => \E e \in table : e.lsn = resp.val

\* apply_shard.rs, server.rs: an acknowledged push has an LSN of its own, past all
\* before it, across resets and restarts, and is in the table the next query
\* reads until the table is emptied.
AckedOnceAndVisible == AckedIsVisible /\ LsnsGrow

\* apply_shard.rs, register.rs: a request that is answered with an error, wherever
\* it is found out, leaves log, cache and watermark as they were and registers
\* nothing; if the error is not a registration's wal_unavailable, it leaves the
\* registry, its log and the table as they were too.
ErrorsInstallNothing ==
  [][boot' = boot /\ ~resp'.ok =>
       /\ UNCHANGED <<log, cache, watermark>> /\ (known' => known)
       /\ resp'.code # "wal_unavailable" => UNCHANGED state]_vars
=============================================================================
