------------------------- MODULE RequestPathProofs -------------------------
(***************************************************************************)
(* The apply thread, for every dedupe window, every set of keys and any    *)
(* number of requests, resets and restarts: retries are absorbed inside    *)
(* the window and only there, what was acknowledged is visible, and an     *)
(* error registers nothing.                                                *)
(*                                                                         *)
(* None of the three is inductive.  Two counted events are a window apart  *)
(* because the cache still held the first when the second came, so the     *)
(* invariant says of every event of this run, whether or not a reset has   *)
(* taken it out of the table, that an entry covers its window.             *)
(***************************************************************************)
EXTENDS RequestPath, TLAPS

-----------------------------------------------------------------------------
(* The inductive invariant. *)

Keys == DKeys \cup {"-"}
Events == [lsn : Nat, dk : Keys, at : Nat, boot : Nat]
Entries == [dk : Keys, lsn : Nat, expires : Nat]

Typed ==
  /\ wall \in Nat /\ boot \in Nat /\ resets \in Nat
  /\ known \in BOOLEAN /\ bumps \in {"none", "installs", "fails"}
  /\ log \in Seq(Events)
  /\ cache \in SUBSET Entries

\* LSNs grow along the log, between any two events and not only neighbours.
Growing == \A k, m \in 1 .. Len(log) : k < m => log[k].lsn < log[m].lsn

\* Nothing in the log is from the future.
Past == \A k \in 1 .. Len(log) : log[k].at <= wall /\ log[k].boot <= boot

\* The table counts logged events, and all of them since the last reset.
Counted ==
  /\ \A e \in table : \E k \in 1 .. Len(log) : e = log[k]
  /\ \A k \in 1 .. Len(log) : log[k].lsn > resets => log[k] \in table

\* An event of this run is covered by a cache entry until its window ends.
Covered ==
  \A k \in 1 .. Len(log) : log[k].boot = boot =>
    \E c \in cache : c.dk = log[k].dk /\ c.expires >= log[k].at + DedupeWindow

\* Of two events of one run with one key, the later came after the window of
\* the earlier, also if a reset lies between them.
Apart ==
  \A k, m \in 1 .. Len(log) :
    k < m /\ log[k].dk = log[m].dk /\ log[k].boot = log[m].boot =>
      log[m].at >= log[k].at + DedupeWindow

\* An acknowledgement names a logged event.
AckLogged == resp.acked => \E k \in 1 .. Len(log) : log[k].lsn = resp.val

IInv ==
  /\ Typed /\ Growing /\ Past /\ Counted /\ Covered /\ Apart
  /\ CacheHonest /\ AckLogged

-----------------------------------------------------------------------------
(* What the parsers and the encoders guarantee. *)

(* parse_wire_request, parse_http_request: whatever became of the row, the *)
(* dedupe key of a push is the one its body carries.                       *)
LEMMA PushKey ==
  ASSUME NEW i \in PushInputs, Parse(i).kind = "Push"
  PROVE  Parse(i).body.dk \in Keys
<1>1. i.body \in PushBodies /\ i.body.dk \in Keys
  BY DEF PushInputs, PushBodies, Keys
<1>2. CASE i.proto = "tcp"
  <2>1. i.op = "push"
    BY <1>2 DEF PushInputs
  <2> QED BY <1>1, <1>2, <2>1 DEF Parse, FromTcp, Ask, Refuse
<1>3. CASE i.proto # "tcp"
  <2>1. i.op \in {"push", "push-sync", "push-batch", "push-verb", "push-sync-verb"}
    BY <1>3 DEF PushInputs
  <2>2. i.body.env \in {"bad", "nameless", "data", "body"}
    BY <1>1 DEF PushBodies
  <2>3. \A r : WithRow(i, r).body.dk = i.body.dk
    BY <1>1 DEF WithRow, PushBodies
  <2>4. Ask("Push", i).body.dk = i.body.dk
    BY DEF Ask
  <2>5. PathPush(i).kind = "Push" => PathPush(i).body.dk = i.body.dk
    BY <2>2, <2>3, <2>4 DEF PathPush
  <2>6. VerbPush(i).kind = "Push" => VerbPush(i).body.dk = i.body.dk
    BY <2>2, <2>3, <2>4 DEF VerbPush, Refuse
  <2>7. Parse(i) \in {PathPush(i), VerbPush(i)}
    BY <1>3, <2>1 DEF Parse, FromHttp
  <2> QED BY <1>1, <2>5, <2>6, <2>7
<1> QED BY <1>2, <1>3

(* Only the push routes and the push opcode lead to dispatch_push_sync.    *)
LEMMA OnlyPushPushes ==
  ASSUME NEW i \in QueryInputs \cup AdminInputs
  PROVE  Parse(i).kind # "Push"
<1>1. CASE i.proto = "tcp"
  <2>1. i.op \in {"get", "batch_get", "mget", "get_multi", "ping", "register",
                  "reset", "push_sync", "other"}
    BY <1>1 DEF QueryInputs, AdminInputs
  <2> QED BY <1>1, <2>1 DEF Parse, FromTcp, Ask, Refuse
<1>2. CASE i.proto # "tcp"
  <2>1. i.op \in {"get", "batch_get", "get-single", "ping", "register", "reset",
                  "health", "ready", "registry", "none", "wrong-method"}
    BY <1>2 DEF QueryInputs, AdminInputs
  <2> QED BY <1>2, <2>1 DEF Parse, FromHttp, Ask, Refuse
<1> QED BY <1>1, <1>2

(* encode_glue_response_tcp and _http: an acknowledgement carries the LSN, *)
(* and success and acknowledgement are told apart from the rest.           *)
LEMMA Encoded ==
  ASSUME NEW i, NEW k, NEW c, NEW v, Answer(i, Glue(k, c, v))
  PROVE  /\ resp'.val = v /\ resp'.code = c
         /\ resp'.acked <=> k = "PushAck"
         /\ k \in {"PushAck", "ResetOk", "Registered"} => resp'.ok
  BY DEF Answer, EncodeTcp, EncodeHttp, HttpStatus, Glue

(* Queries, pings and refusals acknowledge no push.                        *)
LEMMA NotAcked ==
  ASSUME NEW i, NEW req, Query(i, req) \/ Other(i, req)
  PROVE  ~resp'.acked
<1> USE DEF Glue
<1>1. ASSUME NEW g, Answer(i, g), g.kind # "PushAck" PROVE ~resp'.acked
  BY <1>1 DEF Answer, EncodeTcp, EncodeHttp
<1>2. CASE Query(i, req)
  <2>1. /\ GetGlue(req.body).kind # "PushAck"
        /\ GetFeatureGlue(req.body).kind # "PushAck"
        /\ GetMultiGlue(req.body).kind # "PushAck"
        /\ BatchGetGlue(req.body).kind # "PushAck"
    BY DEF GetGlue, GetFeatureGlue, GetMultiGlue, BatchGetGlue
  <2> QED BY <1>1, <1>2, <2>1 DEF Query
<1>3. CASE Other(i, req)
  BY <1>1, <1>3 DEF Other
<1> QED BY <1>2, <1>3

-----------------------------------------------------------------------------
(* The invariant holds at the start and every step keeps it. *)

LEMMA InitIInv == ASSUME Init PROVE IInv
<1> USE DEF Init
<1>1. Typed
  <2>1. <<>> \in Seq(Events)
    OBVIOUS
  <2> QED BY <2>1 DEF Typed
<1>2. Growing /\ Past /\ Counted /\ Covered /\ Apart /\ CacheHonest
  BY DEF Growing, Past, Counted, Covered, Apart, CacheHonest
<1>3. AckLogged
  BY DEF AckLogged, EncodeTcp, Glue
<1> QED BY <1>1, <1>2, <1>3 DEF IInv

LEMMA EventTypes ==
  ASSUME Typed, NEW k \in 1 .. Len(log)
  PROVE  /\ log[k] \in Events
         /\ log[k].lsn \in Nat /\ log[k].at \in Nat /\ log[k].boot \in Nat
<1>1. log[k] \in Events
  BY DEF Typed
<1> QED BY <1>1 DEF Events

(* A step that leaves log, table, cache and registry alone keeps the       *)
(* invariant, if the clock does not go back.                               *)
LEMMA IdleKeeps ==
  ASSUME IInv, UNCHANGED <<boot, state, resets>>, wall' \in Nat, wall' >= wall,
         resp' = resp \/ ~resp'.acked
  PROVE  IInv'
<1> USE DEF IInv, state
<1>1. Typed' /\ Growing' /\ Counted' /\ Covered' /\ Apart' /\ CacheHonest'
  BY DEF Typed, Growing, Counted, Covered, Apart, CacheHonest
<1>2. Past'
  <2>1. \A k \in 1 .. Len(log) : log[k].at \in Nat
    BY EventTypes
  <2> QED BY <2>1 DEF Past, Typed
<1>3. AckLogged'
  BY DEF AckLogged
<1> QED BY <1>1, <1>2, <1>3

(* The next LSN is past every LSN in the log.                              *)
LEMMA NextLsnFresh ==
  ASSUME IInv
  PROVE  NextLsn \in Nat /\ \A k \in 1 .. Len(log) : log[k].lsn < NextLsn
<1> USE DEF IInv, NextLsn, LastLsn, Last
<1>1. CASE log = <<>>
  BY <1>1
<1>2. CASE log # <<>>
  <2>1. Len(log) \in 1 .. Len(log) /\ Len(log) \in Nat
    BY <1>2 DEF Typed
  <2>2. \A k \in 1 .. Len(log) : log[k].lsn \in Nat
    BY EventTypes
  <2>3. \A k \in 1 .. Len(log) : log[k].lsn <= log[Len(log)].lsn
    BY <2>1, <2>2 DEF Growing
  <2> QED BY <1>2, <2>1, <2>2, <2>3
<1> QED BY <1>1, <1>2

(* dispatch_push_sync: the appended event, its cache entry and its answer. *)
LEMMA PushKeeps ==
  ASSUME DedupeWindow \in Nat, IInv, NEW i \in PushInputs, Push(i, Parse(i))
  PROVE  IInv'
<1> DEFINE b == Parse(i).body
           n == NextLsn
           e == [lsn |-> n, dk |-> b.dk, at |-> wall, boot |-> boot]
           c == [dk |-> b.dk, lsn |-> n, expires |-> wall + DedupeWindow]
<1>1. CASE UNCHANGED state
  <2>1. UNCHANGED <<wall, boot, resets>>
    BY DEF Push
  <2>2. ~resp'.acked \/ state' # state
    BY Encoded DEF Push, state, Typed, IInv, Append
  <2> QED BY <1>1, <2>1, <2>2, IdleKeeps DEF IInv, Typed
<1>2. CASE /\ PushFault(b) = "-" /\ Hit(b.dk) = {}
           /\ log' = Append(log, e)
           /\ table' = table \cup {e}
           /\ cache' = Cached(b.dk, n)
           /\ Answer(i, Glue("PushAck", "-", n))
           /\ UNCHANGED <<known, bumps>>
  <2> USE DEF IInv
  <2>1. /\ UNCHANGED <<wall, boot, resets>>
        /\ b.dk \in Keys
        /\ wall \in Nat /\ boot \in Nat /\ resets \in Nat /\ log \in Seq(Events)
    BY PushKey DEF Push, Typed
  <2>2. n \in Nat /\ \A k \in 1 .. Len(log) : log[k].lsn < n
    BY NextLsnFresh
  <2>3. e \in Events /\ c \in Entries
    BY <2>1, <2>2 DEF Events, Entries
  <2> HIDE DEF b, n
  <2>4. cache' = {d \in cache : d.dk # b.dk} \cup {c}
    BY <1>2 DEF Cached
  <2>5. /\ Len(log') = Len(log) + 1 /\ Len(log) \in Nat
        /\ \A k \in 1 .. Len(log) : log'[k] = log[k] /\ log[k] \in Events
        /\ log'[Len(log) + 1] = e
        /\ log' \in Seq(Events)
    BY <1>2, <2>1, <2>3
  <2>6. /\ e.lsn = n /\ e.dk = b.dk /\ e.at = wall /\ e.boot = boot
        /\ c.lsn = n /\ c.dk = b.dk /\ c.expires = wall + DedupeWindow
    OBVIOUS
  <2> HIDE DEF e, c
  <2>7. \A k \in 1 .. Len(log') : k \in 1 .. Len(log) \/ k = Len(log) + 1
    BY <2>5
  <2>8. \A k \in 1 .. Len(log) : log[k].lsn \in Nat /\ log[k].at \in Nat /\ log[k].boot \in Nat
    BY <2>5 DEF Events
  <2>9. Typed'
    BY <1>2, <2>1, <2>3, <2>4, <2>5 DEF Typed
  <2>10. Growing'
    BY <2>2, <2>5, <2>6, <2>7 DEF Growing
  <2>11. Past'
    <3>1. ASSUME NEW k \in 1 .. Len(log) PROVE log'[k].at <= wall' /\ log'[k].boot <= boot'
      BY <2>1, <2>5 DEF Past
    <3>2. e.at <= wall' /\ e.boot <= boot'
      BY <2>1, <2>6
    <3> QED BY <2>5, <2>7, <3>1, <3>2 DEF Past
  <2>12. Counted'
    BY <1>2, <2>1, <2>5, <2>7 DEF Counted
  <2>13. Covered'
    <3> SUFFICES ASSUME NEW k \in 1 .. Len(log'), log'[k].boot = boot
                 PROVE  \E d \in cache' : d.dk = log'[k].dk
                                          /\ d.expires >= log'[k].at + DedupeWindow
      BY <2>1 DEF Covered
    <3>1. CASE k = Len(log) + 1 \/ log[k].dk = b.dk
      <4>1. log'[k].dk = b.dk /\ log'[k].at <= wall /\ log'[k].at \in Nat
        BY <2>1, <2>5, <2>6, <2>7, <2>8, <3>1 DEF Past
      <4> QED BY <2>1, <2>4, <2>6, <4>1
    <3>2. CASE k \in 1 .. Len(log) /\ log[k].dk # b.dk
      <4>1. PICK d \in cache : d.dk = log[k].dk /\ d.expires >= log[k].at + DedupeWindow
        BY <2>5, <3>2 DEF Covered
      <4>2. d \in cache'
        BY <2>4, <3>2, <4>1
      <4> QED BY <2>5, <3>2, <4>1, <4>2
    <3> QED BY <2>7, <3>1, <3>2
  <2>14. Apart'
    <3> SUFFICES ASSUME NEW k \in 1 .. Len(log), log[k].dk = b.dk, log[k].boot = boot
                 PROVE  wall >= log[k].at + DedupeWindow
      <4>1. ASSUME NEW k \in 1 .. Len(log'), NEW m \in 1 .. Len(log'), k < m,
                   log'[k].dk = log'[m].dk, log'[k].boot = log'[m].boot
            PROVE  log'[m].at >= log'[k].at + DedupeWindow
        <5>1. k \in 1 .. Len(log)
          BY <2>5, <4>1
        <5>2. CASE m \in 1 .. Len(log)
          BY <2>5, <4>1, <5>1, <5>2 DEF Apart
        <5>3. CASE m = Len(log) + 1
          BY <2>5, <2>6, <4>1, <5>1, <5>3
        <5> QED BY <2>7, <5>2, <5>3
      <4> QED BY <4>1 DEF Apart
    <3>1. PICK d \in cache : d.dk = b.dk /\ d.expires >= log[k].at + DedupeWindow
      BY DEF Covered
    <3>2. ~(d.expires > wall)
      BY <1>2, <3>1 DEF Hit
    <3>3. d.expires \in Nat
      BY DEF Typed, Entries
    <3> QED BY <2>1, <2>8, <3>1, <3>2, <3>3
  <2>15. CacheHonest'
    <3> SUFFICES ASSUME NEW d \in cache'
                 PROVE  \E k \in 1 .. Len(log') :
                          /\ log'[k].lsn = d.lsn /\ log'[k].dk = d.dk /\ log'[k].boot = boot
                          /\ d.expires = log'[k].at + DedupeWindow
                          /\ \A m \in k + 1 .. Len(log') : log'[m].dk # d.dk
      BY <2>1 DEF CacheHonest
    <3>1. CASE d = c
      <4>1. Len(log) + 1 \in 1 .. Len(log')
        BY <2>5
      <4>2. (Len(log) + 1) + 1 .. Len(log') = {}
        BY <2>5
      <4> QED BY <2>5, <2>6, <3>1, <4>1, <4>2
    <3>2. CASE d \in cache /\ d.dk # b.dk
      <4>1. PICK k \in 1 .. Len(log) :
              /\ log[k].lsn = d.lsn /\ log[k].dk = d.dk /\ log[k].boot = boot
              /\ d.expires = log[k].at + DedupeWindow
              /\ \A m \in k + 1 .. Len(log) : log[m].dk # d.dk
        BY <3>2 DEF CacheHonest
      <4>2. \A m \in k + 1 .. Len(log') : log'[m].dk # d.dk
        BY <2>5, <2>6, <3>2, <4>1
      <4>3. k \in 1 .. Len(log')
        BY <2>5
      <4> QED BY <2>5, <4>1, <4>2, <4>3
    <3> QED BY <2>4, <3>1, <3>2
  <2>16. AckLogged'
    <3>1. resp'.val = n
      BY <1>2, Encoded
    <3>2. Len(log) + 1 \in 1 .. Len(log')
      BY <2>5
    <3> QED BY <2>5, <2>6, <3>1, <3>2 DEF AckLogged
  <2> QED
    BY <2>9, <2>10, <2>11, <2>12, <2>13, <2>14, <2>15, <2>16
<1> QED BY <1>1, <1>2 DEF Push

(* No logged event is past the last one.                                   *)
LEMMA LastIsLast ==
  ASSUME IInv
  PROVE  LastLsn \in Nat /\ \A k \in 1 .. Len(log) : ~(log[k].lsn > LastLsn)
<1> USE DEF IInv
<1>1. LastLsn \in Nat
  <2>1. CASE log = <<>>
    BY <2>1 DEF LastLsn
  <2>2. CASE log # <<>>
    <3>1. Len(log) \in 1 .. Len(log)
      BY <2>2 DEF Typed
    <3> QED BY <2>2, <3>1, EventTypes DEF LastLsn, Last
  <2> QED BY <2>1, <2>2
<1>2. ASSUME NEW k \in 1 .. Len(log) PROVE ~(log[k].lsn > LastLsn)
  BY <1>1, EventTypes, NextLsnFresh DEF NextLsn
<1> QED BY <1>1, <1>2

(* What empties the table of a running server leaves log and cache alone.  *)
LEMMA EmptiedKeeps ==
  ASSUME IInv, UNCHANGED <<wall, boot, log, cache>>, ~resp'.acked,
         known' \in BOOLEAN, bumps' \in {"none", "installs", "fails"},
         table' = {}, resets' = LastLsn
  PROVE  IInv'
<1>1. Typed' /\ Counted'
  BY LastIsLast DEF IInv, Typed, Counted
<1>2. Growing' /\ Past' /\ Covered' /\ Apart' /\ CacheHonest' /\ AckLogged'
  BY DEF IInv, Growing, Past, Covered, Apart, CacheHonest, AckLogged
<1> QED BY <1>1, <1>2 DEF IInv

LEMMA LoggedType ==
  ASSUME NEW b PROVE Logged(b) \in {"none", "installs", "fails"}
BY DEF Logged

(* A registration leaves the events alone, or forgets them all when it     *)
(* cannot be applied.                                                      *)
LEMMA RegisterKeeps ==
  ASSUME IInv, NEW i, NEW req, Register(i, req) \/ RegisterUnlogged(i, req)
  PROVE  IInv'
<1>1. UNCHANGED <<wall, boot, log, cache>>
  BY DEF Register, RegisterUnlogged, state
<1>2. ~resp'.acked
  BY Encoded DEF Register, RegisterUnlogged, RegisterSettled
<1>3. known' \in BOOLEAN /\ bumps' \in {"none", "installs", "fails"}
  BY LoggedType DEF Register, RegisterUnlogged, IInv, Typed, state
<1>4. CASE UNCHANGED <<table, resets>>
  <2> USE DEF IInv
  <2>1. Typed'
    BY <1>1, <1>3, <1>4 DEF Typed
  <2>2. Growing' /\ Past' /\ Counted' /\ Covered' /\ Apart' /\ CacheHonest'
    BY <1>1, <1>4 DEF Growing, Past, Counted, Covered, Apart, CacheHonest
  <2>3. AckLogged'
    BY <1>2 DEF AckLogged
  <2> QED BY <2>1, <2>2, <2>3
<1>5. CASE table' = {} /\ resets' = LastLsn
  BY <1>1, <1>2, <1>3, <1>5, EmptiedKeeps
<1> QED BY <1>4, <1>5 DEF Register, RegisterUnlogged, state

(* dispatch_reset_sync forgets the tables, but neither log nor cache.      *)
LEMMA ResetKeeps ==
  ASSUME IInv, NEW i, NEW req, Reset(i, req)
  PROVE  IInv'
<1>1. UNCHANGED <<wall, boot, log, cache, bumps>> /\ ~resp'.acked
  BY Encoded DEF Reset, state
<1>2. CASE UNCHANGED <<state, resets>>
  BY <1>1, <1>2, IdleKeeps DEF IInv, Typed
<1>3. CASE table' = {} /\ known' = FALSE /\ resets' = LastLsn
  <2>1. bumps' \in {"none", "installs", "fails"}
    BY <1>1 DEF IInv, Typed
  <2> QED BY <1>1, <1>3, <2>1, EmptiedKeeps
<1> QED BY <1>2, <1>3 DEF Reset

(* Recovery replays the whole log, or nothing if the type does not come    *)
(* back, and starts with an empty cache: no event is of the new run yet.   *)
LEMMA RestartKeeps ==
  ASSUME IInv, Restart
  PROVE  IInv'
<1> USE DEF IInv, Restart
<1>1. /\ boot \in Nat /\ boot' \in Nat /\ boot' = boot + 1
      /\ \A k \in 1 .. Len(log) : log[k].boot < boot'
  <2>1. boot \in Nat
    BY DEF Typed
  <2>2. ASSUME NEW k \in 1 .. Len(log) PROVE log[k].boot < boot + 1
    BY <2>1, EventTypes DEF Past
  <2> QED BY <2>1, <2>2
<1>2. Growing' /\ Apart' /\ AckLogged'
  BY <1>1 DEF Typed, Growing, Apart, AckLogged
<1>3. Past'
  BY <1>1, EventTypes DEF Past
<1>4. Typed' /\ Counted'
  <2>1. CASE bumps = "installs"
    <3>1. Typed'
      BY <1>1, <2>1 DEF Typed
    <3>2. Counted'
      BY <2>1 DEF Counted, Replayed
    <3> QED BY <3>1, <3>2
  <2>2. CASE bumps # "installs"
    <3>1. LastLsn \in Nat /\ \A k \in 1 .. Len(log) : ~(log[k].lsn > LastLsn)
      BY LastIsLast
    <3>2. Typed'
      BY <1>1, <2>2, <3>1 DEF Typed
    <3>3. Counted'
      BY <2>2, <3>1 DEF Counted
    <3> QED BY <3>2, <3>3
  <2> QED BY <2>1, <2>2
<1>5. Covered' /\ CacheHonest'
  <2>1. ASSUME NEW k \in 1 .. Len(log) PROVE log[k].boot # boot'
    BY <1>1, EventTypes
  <2> QED BY <2>1 DEF Covered, CacheHonest
<1> QED BY <1>2, <1>3, <1>4, <1>5

LEMMA StepIInv ==
  ASSUME DedupeWindow \in Nat, IInv, [Next]_vars
  PROVE  IInv'
<1>1. CASE UNCHANGED vars
  <2>1. wall \in Nat
    BY DEF IInv, Typed
  <2> QED BY <1>1, <2>1, IdleKeeps DEF vars
<1>2. CASE Tick
  <2>1. wall \in Nat
    BY DEF IInv, Typed
  <2> QED BY <1>2, <2>1, IdleKeeps DEF Tick
<1>3. CASE Request
  <2>1. PICK i \in PushInputs \cup QueryInputs \cup AdminInputs : Dispatch(i)
    BY <1>3 DEF Request
  <2>2. CASE Push(i, Parse(i))
    <3>1. Parse(i).kind = "Push"
      BY <2>2 DEF Push
    <3>2. i \in PushInputs
      BY <3>1, OnlyPushPushes
    <3> QED BY <2>2, <3>2, PushKeeps
  <2>3. CASE Query(i, Parse(i)) \/ Other(i, Parse(i))
    <3>1. UNCHANGED <<wall, boot, state, resets>>
      BY <2>3 DEF Query, Other
    <3>2. ~resp'.acked
      BY <2>3, NotAcked
    <3>3. wall \in Nat
      BY DEF IInv, Typed
    <3> QED BY <3>1, <3>2, <3>3, IdleKeeps
  <2>4. CASE Register(i, Parse(i)) \/ RegisterUnlogged(i, Parse(i))
    BY <2>4, RegisterKeeps
  <2>5. CASE Reset(i, Parse(i))
    BY <2>5, ResetKeeps
  <2> QED BY <2>1, <2>2, <2>3, <2>4, <2>5 DEF Dispatch
<1>4. CASE Restart
  BY <1>4, RestartKeeps
<1> QED BY <1>1, <1>2, <1>3, <1>4 DEF Next

LEMMA SpecIInv == ASSUME DedupeWindow \in Nat PROVE Spec => []IInv
<1>1. Init => IInv
  BY InitIInv
<1>2. IInv /\ [Next]_vars => IInv'
  BY StepIInv
<1> QED BY <1>1, <1>2, PTL DEF Spec

-----------------------------------------------------------------------------
(* The theorems. *)

(* dispatch_push_sync, IdemCache: a retry inside the dedupe window is      *)
(* answered from the cache, with the LSN of the newest event of its key,   *)
(* and counted no second time, whatever resets lie between.                *)
THEOREM RetriesAreAbsorbed ==
  ASSUME DedupeWindow \in Nat PROVE Spec => []RetriesAbsorbed
<1>1. ASSUME IInv PROVE RetriesAbsorbed
  <2>1. ASSUME NEW d \in table, NEW e \in table,
               d.dk = e.dk, d.boot = e.boot, d.lsn < e.lsn
        PROVE  e.at >= d.at + DedupeWindow
    <3>1. PICK k \in 1 .. Len(log) : d = log[k]
      BY <1>1 DEF IInv, Counted
    <3>2. PICK m \in 1 .. Len(log) : e = log[m]
      BY <1>1 DEF IInv, Counted
    <3>3. d.lsn \in Nat /\ e.lsn \in Nat
      BY <1>1, <3>1, <3>2, EventTypes DEF IInv
    <3>4. k < m
      BY <1>1, <2>1, <3>1, <3>2, <3>3 DEF IInv, Growing
    <3> QED BY <1>1, <2>1, <3>1, <3>2, <3>4 DEF IInv, Apart
  <2> QED BY <1>1, <2>1 DEF RetriesAbsorbed, DedupedWithinRun, IInv
<1> QED BY <1>1, SpecIInv, PTL

(* dispatch_push_sync, recover: an LSN is given once, across resets and    *)
(* restarts, and an acknowledged event is in the table unless a reset has  *)
(* come since.                                                             *)
THEOREM AckedIsOnceAndVisible ==
  ASSUME DedupeWindow \in Nat PROVE Spec => []AckedOnceAndVisible
<1>1. ASSUME IInv PROVE AckedOnceAndVisible
  <2>1. LsnsGrow
    BY <1>1 DEF IInv, Typed, Growing, LsnsGrow
  <2>2. AckedIsVisible
    BY <1>1 DEF IInv, AckLogged, Counted, AckedIsVisible
  <2> QED BY <2>1, <2>2 DEF AckedOnceAndVisible
<1> QED BY <1>1, SpecIInv, PTL

(* dispatch_one: a request answered with an error, found out by a parser   *)
(* or by the apply thread, leaves log, cache and watermark as they were    *)
(* and registers nothing; only a registration answered wal_unavailable may *)
(* have touched its log, the registry and the table.                       *)
THEOREM ErrorsAreHarmless == Spec => ErrorsInstallNothing
<1> DEFINE Numbered == boot \in Nat
           Harmless == /\ UNCHANGED <<log, cache, watermark>> /\ (known' => known)
                       /\ resp'.code # "wal_unavailable" => UNCHANGED state
<1>1. Init => Numbered
  BY DEF Init
<1>2. Numbered /\ [Next]_vars => Numbered'
  <2>1. ASSUME Next PROVE boot' \in {boot, boot + 1}
    BY <2>1 DEF Next, Tick, Request, Restart, Dispatch, Push, Query, Register,
                RegisterUnlogged, Reset, Other
  <2> QED BY <2>1 DEF vars
<1>3. ASSUME Numbered, [Next]_vars, boot' = boot, ~resp'.ok PROVE Harmless
  <2>1. CASE UNCHANGED state
    BY <2>1 DEF state
  <2>2. CASE Request
    <3>1. PICK i : Dispatch(i)
      BY <2>2 DEF Request
    <3>2. CASE Push(i, Parse(i)) \/ Query(i, Parse(i)) \/ Other(i, Parse(i))
      BY <1>3, <2>1, <3>2, Encoded DEF Push, Query, Other
    <3>3. CASE Register(i, Parse(i)) \/ RegisterUnlogged(i, Parse(i))
      <4> DEFINE b == Parse(i).body
      <4>1. CASE UNCHANGED state
        BY <2>1, <4>1
      <4>2. CASE MustLog(b)
        <5>1. RegisterSettled(b) = Glue("RegisterError", "wal_unavailable", 0)
          BY <4>2 DEF RegisterSettled, MustLog
        <5>2. UNCHANGED <<log, cache, watermark>>
          BY <3>3 DEF Register, RegisterUnlogged, state
        <5>3. ~(known' = TRUE /\ Answer(i, Glue("Registered", "-", 0)))
          BY <1>3, Encoded
        <5>4. Answer(i, RegisterSettled(b)) /\ (known' => known)
          BY <3>3, <4>2, <5>3 DEF Register, RegisterUnlogged
        <5>5. resp'.code = "wal_unavailable"
          BY <5>1, <5>4, Encoded
        <5> QED BY <5>2, <5>4, <5>5
      <4> QED BY <3>3, <4>1, <4>2 DEF Register, RegisterUnlogged
    <3>4. CASE Reset(i, Parse(i))
      BY <1>3, <2>1, <3>4, Encoded DEF Reset
    <3> QED BY <3>1, <3>2, <3>3, <3>4 DEF Dispatch
  <2>3. CASE UNCHANGED vars \/ Tick
    BY <2>1, <2>3 DEF vars, Tick
  <2>4. CASE Restart
    BY <1>3, <2>4 DEF Restart
  <2> QED BY <1>3, <2>2, <2>3, <2>4 DEF Next
<1> QED BY <1>1, <1>2, <1>3, PTL DEF Spec, ErrorsInstallNothing

=============================================================================
