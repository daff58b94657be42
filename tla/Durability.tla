----------------------------- MODULE Durability -----------------------------
(***************************************************************************)
(* The durability protocol of the server: the apply thread (push and       *)
(* register), the two write-ahead logs, the snapshot task, and recovery    *)
(* after a crash (crates/beava-server: apply_shard.rs, register.rs,        *)
(* snapshot_task.rs, snapshot_fork.rs, recovery.rs, server.rs).            *)
(*                                                                         *)
(* The logs appear here by what WalRing and WalSink show of them: events   *)
(* reach the .wal file in LSN order and an fsync covers a prefix of them;  *)
(* a bump is in the .log when it is staged, fsynced or not, and truncation *)
(* at c may remove only bumps below c.                                     *)
(*                                                                         *)
(* All events have one source; an aggregation on it is a name, and the     *)
(* table of an aggregation is the sequence of the LSNs applied to it.  An  *)
(* installed aggregation (its agg_id) is identified by the LSN of the bump *)
(* that installed it.                                                      *)
(***************************************************************************)
EXTENDS Integers, Sequences, FiniteSets

CONSTANTS
  Names,         \* aggregations a client may register
  ForkSnapshot,  \* use_fork_snapshot
  Retain,        \* snapshots kept by prune_old_snapshots
  MaxLsn,        \* bound on LSNs
  MaxFail,       \* bound on failing registry fsyncs and snapshots
  MaxSnap,       \* bound on snapshots taken
  MaxCrash       \* bound on crashes and shutdowns

ASSUME DurabilityAssumption ==
  /\ ForkSnapshot \in BOOLEAN /\ Retain \in Nat \ {0}
  /\ MaxLsn \in Nat /\ MaxFail \in Nat /\ MaxSnap \in Nat /\ MaxCrash \in Nat

VARIABLES
  phase,      \* "up", or where recovery is: "load", "bumps", "events", "ready"
  apc, op,    \* the apply thread: where it is in the request it handles
  version, reg, tables,   \* the registry and state_tables
  nextEvent,  \* next_event_id: the last LSN applied
  committed,  \* WalLsn.committed
  sinkNext, durable,      \* the registry log's next_lsn and durable_lsn
  ring, wal,  \* event records not fsynced yet, and in the .wal file
  log, logSynced,         \* bumps in the .log segments; those fsynced
  requested, reclaimed,   \* WalReclaimHandle and the writer's reclaimed_lsn
  spc, legacy, body,      \* the snapshot task and what it captured
  snaps,      \* snapshot files
  cursor, seen,           \* recovery: last record read, highest LSN read
  want, kept, \* history: memory at the crash; LSNs of events fsynced
  fails, taken, crashes

memVars == <<apc, op, version, reg, tables, nextEvent, committed, sinkNext, durable>>
diskVars == <<ring, wal, log, logSynced, requested, reclaimed, snaps>>
taskVars == <<spc, legacy, body>>
bootVars == <<cursor, seen>>
histVars == <<want, kept, fails, taken, crashes>>
vars == <<phase, memVars, diskVars, taskVars, bootVars, histVars>>

Larger(a, b) == IF a >= b THEN a ELSE b
Highest(S) == IF S = {} THEN 0 ELSE CHOOSE l \in S : \A m \in S : m <= l
Lsns(S) == {r.lsn : r \in S}
Up == phase = "up"
NoOp == [lsn |-> 0]
NoBody == [lsn |-> 0, version |-> 0, reg |-> <<>>, tables |-> <<>>, next |-> 0]

Init ==
  /\ phase = "up" /\ apc = "idle" /\ op = NoOp
  /\ version = 0 /\ reg = <<>> /\ tables = <<>> /\ nextEvent = 0
  /\ committed = 0 /\ sinkNext = 1 /\ durable = 0
  /\ ring = {} /\ wal = {} /\ log = {} /\ logSynced = {}
  /\ requested = 0 /\ reclaimed = 0
  /\ spc = "idle" /\ legacy = 0 /\ body = NoBody /\ snaps = {}
  /\ cursor = 0 /\ seen = 0
  /\ want = [version |-> 0, reg |-> <<>>, tables |-> <<>>,
             bump |-> NoOp, bumpSynced |-> FALSE]
  /\ kept = {} /\ fails = 0 /\ taken = 0 /\ crashes = 0

-----------------------------------------------------------------------------
(* The registry. *)

(* apply_registry_bump: the removals of a forced bump, then insert if      *)
(* absent.                                                                 *)
Install(r, b, v) ==
  IF b.name \in DOMAIN r /\ ~ b.force
  THEN r
  ELSE [n \in DOMAIN r \cup {b.name} |->
          IF n = b.name THEN [inst |-> b.lsn, at |-> v] ELSE r[n]]

(* Mutant: the table vector does not grow. *)
Ungrown(t, r) == t

(* ensure_capacity_for: a new agg_id gets an empty table. *)
Grown(t, r) ==
  [i \in DOMAIN t \cup {r[n].inst : n \in DOMAIN r} |->
     IF i \in DOMAIN t THEN t[i] ELSE <<>>]

(* apply_event_to_aggregations for the aggregations in names. *)
Applied(t, r, names, lsn) ==
  [i \in DOMAIN t |-> IF \E n \in names : r[n].inst = i THEN Append(t[i], lsn) ELSE t[i]]

Instances(r) == [n \in DOMAIN r |-> r[n].inst]

-----------------------------------------------------------------------------
(* The apply thread: dispatch_push_sync and register. *)

(* Mutant: the registry log's LSN is not taken into account. *)
RingLsn == committed + 1

PushLsn == Larger(committed, durable) + 1

(* Mutant: next_event_id moves with the append, outside the table lock. *)
PushAppendCounted ==
  /\ Up /\ apc = "idle" /\ DOMAIN reg # {} /\ PushLsn <= MaxLsn
  /\ committed' = PushLsn
  /\ ring' = ring \cup {[lsn |-> PushLsn, rv |-> version]}
  /\ apc' = "appended" /\ op' = [lsn |-> PushLsn]
  /\ nextEvent' = PushLsn
  /\ UNCHANGED <<phase, version, reg, tables, sinkNext, durable,
                 wal, log, logSynced, requested, reclaimed, snaps, taskVars,
                 bootVars, histVars>>

(* The record, stamped with the registry version, is in the ring.  The     *)
(* event's descriptor exists once something is registered.                 *)
PushAppend ==
  /\ Up /\ apc = "idle" /\ DOMAIN reg # {} /\ PushLsn <= MaxLsn
  /\ committed' = PushLsn
  /\ ring' = ring \cup {[lsn |-> PushLsn, rv |-> version]}
  /\ apc' = "appended" /\ op' = [lsn |-> PushLsn]
  /\ UNCHANGED <<phase, version, reg, tables, nextEvent, sinkNext, durable,
                 wal, log, logSynced, requested, reclaimed, snaps, taskVars,
                 bootVars, histVars>>

(* Under the table lock: the tables and next_event_id. *)
PushApply ==
  /\ Up /\ apc = "appended"
  /\ tables' = Applied(tables, reg, DOMAIN reg, op.lsn)
  /\ nextEvent' = op.lsn
  /\ apc' = "idle" /\ op' = NoOp
  /\ UNCHANGED <<phase, version, reg, committed, sinkNext, durable, diskVars,
                 taskVars, bootVars, histVars>>

(* execute_register_inner up to the fsync: the bump is in the segment.     *)
(* Registering a name again is a forced replacement.                       *)
RegisterStage(n) ==
  /\ Up /\ apc = "idle"
  /\ LET lsn == Larger(sinkNext, nextEvent + 1)
         bump == [lsn |-> lsn, ver |-> version + 1, name |-> n,
                  force |-> n \in DOMAIN reg]
     IN  /\ lsn <= MaxLsn
         /\ sinkNext' = lsn + 1
         /\ log' = log \cup {bump}
         /\ op' = bump
  /\ apc' = "staged"
  /\ UNCHANGED <<phase, version, reg, tables, nextEvent, committed, durable,
                 ring, wal, logSynced, requested, reclaimed, snaps, taskVars,
                 bootVars, histVars>>

RegisterFsync ==
  /\ Up /\ apc = "staged"
  /\ logSynced' = log /\ durable' = sinkNext - 1
  /\ apc' = "fsynced"
  /\ UNCHANGED <<phase, op, version, reg, tables, nextEvent, committed,
                 sinkNext, ring, wal, log, requested, reclaimed, snaps,
                 taskVars, bootVars, histVars>>

(* The client is told wal_unavailable; the registry is unchanged and the   *)
(* bump stays in the segment.                                              *)
RegisterFsyncErr ==
  /\ Up /\ apc = "staged" /\ fails < MaxFail
  /\ fails' = fails + 1
  /\ apc' = "idle" /\ op' = NoOp
  /\ UNCHANGED <<phase, version, reg, tables, nextEvent, committed, sinkNext,
                 durable, diskVars, taskVars, bootVars, want, kept, taken, crashes>>

(* A forced bump first removes what it replaces, under the registry's      *)
(* write lock only: a snapshot may be taken before it is installed again.  *)
RegisterRemove ==
  /\ Up /\ apc = "fsynced" /\ op.force
  /\ reg' = [n \in DOMAIN reg \ {op.name} |-> reg[n]]
  /\ apc' = "removed"
  /\ UNCHANGED <<phase, op, version, tables, nextEvent, committed, sinkNext,
                 durable, diskVars, taskVars, bootVars, histVars>>

(* The tables grow right after, under the table lock; a snapshot taken in  *)
(* between skips a table that is not there yet, and recovery creates it    *)
(* empty, which is what BodyTables finds here.                             *)
RegisterApply ==
  /\ Up /\ (apc = "removed" \/ (apc = "fsynced" /\ ~ op.force))
  /\ version' = version + 1
  /\ reg' = Install(reg, op, version + 1)
  /\ tables' = Grown(tables, reg')
  /\ apc' = "idle" /\ op' = NoOp
  /\ UNCHANGED <<phase, nextEvent, committed, sinkNext, durable, diskVars,
                 taskVars, bootVars, histVars>>

-----------------------------------------------------------------------------
(* The WAL writer thread. *)

Flush(k) ==
  /\ Up /\ k \in Lsns(ring)
  /\ LET out == {e \in ring : e.lsn <= k}
     IN  /\ wal' = wal \cup out /\ ring' = ring \ out
         /\ kept' = kept \cup Lsns(out)
  /\ UNCHANGED <<phase, memVars, log, logSynced, requested, reclaimed, snaps,
                 taskVars, bootVars, want, fails, taken, crashes>>

Compact ==
  /\ Up /\ requested > reclaimed
  /\ wal' = {e \in wal : e.lsn > requested}
  /\ reclaimed' = requested
  /\ UNCHANGED <<phase, memVars, ring, log, logSynced, requested, snaps,
                 taskVars, bootVars, histVars>>

-----------------------------------------------------------------------------
(* The snapshot task. *)

(* do_snapshot reads the registry log's durable LSN first. *)
SnapStart ==
  /\ Up /\ spc = "idle" /\ taken < MaxSnap
  /\ taken' = taken + 1
  /\ legacy' = durable
  /\ spc' = IF ForkSnapshot THEN "fork" ELSE "lock"
  /\ UNCHANGED <<phase, memVars, diskVars, body, bootVars, want, kept, fails,
                 crashes>>

(* do_snapshot_via_fork: the registry is captured before the table lock. *)
SnapCaptureRegistry ==
  /\ Up /\ spc = "fork"
  /\ body' = [lsn |-> 0, version |-> version, reg |-> Instances(reg),
              tables |-> <<>>, next |-> 0]
  /\ spc' = "lock"
  /\ UNCHANGED <<phase, memVars, diskVars, legacy, bootVars, histVars>>

(* SnapshotBody::from_live: of the tables, those of the registry given. *)
BodyTables(r) == [i \in {r[n] : n \in DOMAIN r} |-> tables[i]]

(* Under the table lock: tables and next_event_id, and in process the      *)
(* registry.  The retries of the fork path only pick sidecar names.        *)
SnapCapture ==
  /\ Up /\ spc = "lock"
  /\ LET r == IF ForkSnapshot THEN body.reg ELSE Instances(reg)
     IN  body' = [lsn |-> Larger(legacy, nextEvent),
                  version |-> IF ForkSnapshot THEN body.version ELSE version,
                  reg |-> r, tables |-> BodyTables(r), next |-> nextEvent]
  /\ spc' = "write" /\ legacy' = 0
  /\ UNCHANGED <<phase, memVars, diskVars, bootVars, histVars>>

(* write_with_stats: fsync, then rename over a file of the same LSN. *)
SnapWrite ==
  /\ Up /\ spc = "write"
  /\ snaps' = {s \in snaps : s.lsn # body.lsn} \cup {body}
  /\ spc' = "truncate" /\ body' = [NoBody EXCEPT !.lsn = body.lsn]
  /\ UNCHANGED <<phase, memVars, ring, wal, log, logSynced, requested,
                 reclaimed, legacy, bootVars, histVars>>

(* An error: creating the directory, fork, the write (or a child that was  *)
(* killed before or after the rename), truncation, pruning.                *)
SnapFail ==
  /\ Up /\ spc \in {"fork", "write", "truncate", "prune"} /\ fails < MaxFail
  /\ fails' = fails + 1
  /\ spc' = "idle" /\ legacy' = 0 /\ body' = NoBody
  /\ UNCHANGED <<phase, memVars, diskVars, bootVars, want, kept, taken, crashes>>

(* WalSink::truncate_up_to: s is the start of the first segment kept. *)
SnapTruncate(s) ==
  /\ Up /\ spc = "truncate" /\ s <= body.lsn
  /\ log' = {b \in log : b.lsn >= s}
  /\ logSynced' = {b \in logSynced : b.lsn >= s}
  /\ spc' = "reclaim"
  /\ UNCHANGED <<phase, memVars, ring, wal, requested, reclaimed, snaps,
                 legacy, body, bootVars, histVars>>

SnapRequestReclaim ==
  /\ Up /\ spc = "reclaim"
  /\ requested' = Larger(requested, body.lsn)
  /\ spc' = "prune" /\ body' = NoBody
  /\ UNCHANGED <<phase, memVars, ring, wal, log, logSynced, reclaimed, snaps,
                 legacy, bootVars, histVars>>

SnapPrune ==
  /\ Up /\ spc = "prune"
  /\ snaps' = {s \in snaps : Cardinality({t \in snaps : t.lsn > s.lsn}) < Retain}
  /\ spc' = "idle"
  /\ UNCHANGED <<phase, memVars, ring, wal, log, logSynced, requested,
                 reclaimed, legacy, body, bootVars, histVars>>

-----------------------------------------------------------------------------
(* Crash, shutdown and recovery. *)

(* What the process that ends had in memory; an event in the ring may be   *)
(* on disk before it is applied, and so may a bump.                        *)
Down ==
  /\ phase' = "load" /\ crashes' = crashes + 1
  /\ want' = [version |-> version, reg |-> Instances(reg),
              tables |-> IF apc = "appended"
                         THEN Applied(tables, reg, DOMAIN reg, op.lsn) ELSE tables,
              bump |-> IF apc \in {"staged", "fsynced", "removed"} THEN op ELSE NoOp,
              bumpSynced |-> apc \in {"fsynced", "removed"}]
  /\ apc' = "idle" /\ op' = NoOp
  /\ spc' = "idle" /\ legacy' = 0 /\ body' = NoBody
  /\ requested' = 0 /\ reclaimed' = 0 /\ ring' = {}
  /\ version' = 0 /\ reg' = <<>> /\ tables' = <<>> /\ nextEvent' = 0
  /\ committed' = 0 /\ sinkNext' = 1 /\ durable' = 0
  /\ UNCHANGED <<snaps, bootVars, fails, taken>>

(* What was not fsynced is lost after some record, in each log by itself.  *)
Crash(k, j) ==
  /\ Up /\ crashes < MaxCrash
  /\ k \in {0} \cup Lsns(ring) /\ j \in {0} \cup Lsns(log \ logSynced)
  /\ wal' = wal \cup {e \in ring : e.lsn <= k}
  /\ log' = {b \in log : b \in logSynced \/ b.lsn <= j}
  /\ logSynced' = log'
  /\ UNCHANGED kept
  /\ Down

(* run_serve_loop: the apply thread has stopped, the writer drains the     *)
(* ring, the snapshot task ends, the sink fsyncs.                          *)
Shutdown ==
  /\ Up /\ apc = "idle" /\ spc = "idle" /\ crashes < MaxCrash
  /\ wal' = wal \cup ring
  /\ logSynced' = log /\ log' = log
  /\ kept' = kept \cup Lsns(ring)
  /\ Down

(* load_snapshot_if_any: the newest snapshot.  install_from_descriptors    *)
(* registers everything anew at version 1, then restores the version.      *)
LoadSnapshot ==
  /\ phase = "load"
  /\ LET s == IF snaps = {} THEN NoBody
              ELSE CHOOSE x \in snaps : \A y \in snaps : y.lsn <= x.lsn
     IN  /\ version' = s.version
         /\ reg' = [n \in DOMAIN s.reg |-> [inst |-> s.reg[n], at |-> 1]]
         /\ tables' = s.tables
         /\ nextEvent' = s.next
         /\ seen' = s.lsn
  /\ phase' = "bumps" /\ cursor' = 0
  /\ UNCHANGED <<apc, op, committed, sinkNext, durable, diskVars, taskVars,
                 histVars>>

(* The record a replay loop reads next. *)
NextAfter(S, l) == CHOOSE r \in S : r.lsn > l /\ \A q \in S : q.lsn > l => r.lsn <= q.lsn

(* Mutant: bumps are gated by the snapshot's LSN, as events are. *)
CoveredBump(b) == b.lsn <= Highest(Lsns(snaps))

(* replay_wal_from_lsn gates bumps by version only. *)
KnownBump(b) == b.ver <= version

ReplayBump ==
  /\ phase = "bumps" /\ \E b \in log : b.lsn > cursor
  /\ LET b == NextAfter(log, cursor)
     IN  /\ IF KnownBump(b)
            THEN UNCHANGED <<version, reg, tables>>
            ELSE /\ version' = version + 1
                 /\ reg' = Install(reg, b, version + 1)
                 /\ tables' = Grown(tables, reg')
         /\ cursor' = b.lsn
         /\ seen' = Larger(seen, b.lsn)
  /\ UNCHANGED <<phase, apc, op, nextEvent, committed, sinkNext, durable,
                 diskVars, taskVars, histVars>>

(* Mutant: every event of the file is replayed. *)
ReplayFromStart == 0

(* The floor of the event replay is the body's next_event_id. *)
ReplayFloor == nextEvent

BumpsDone ==
  /\ phase = "bumps" /\ ~ \E b \in log : b.lsn > cursor
  /\ phase' = "events" /\ cursor' = ReplayFloor
  /\ UNCHANGED <<memVars, diskVars, taskVars, seen, histVars>>

(* compiled_aggregations_for_source_at_rv *)
RegisteredAt(rv) == {n \in DOMAIN reg : reg[n].at <= rv}

ReplayEvent ==
  /\ phase = "events" /\ \E e \in wal : e.lsn > cursor
  /\ LET e == NextAfter(wal, cursor)
     IN  /\ tables' = Applied(tables, reg, RegisteredAt(e.rv), e.lsn)
         /\ nextEvent' = Larger(nextEvent, e.lsn)
         /\ cursor' = e.lsn
         /\ seen' = Larger(seen, e.lsn)
  /\ UNCHANGED <<phase, apc, op, version, reg, committed, sinkNext, durable,
                 diskVars, taskVars, histVars>>

EventsDone ==
  /\ phase = "events" /\ ~ \E e \in wal : e.lsn > cursor
  /\ phase' = "ready"
  /\ UNCHANGED <<memVars, diskVars, taskVars, bootVars, histVars>>

(* Mutant: only what was applied counts. *)
LastApplied == nextEvent

LastRecovered == Larger(seen, nextEvent)

(* build_runtime_state_with_persistence: both logs go on after the highest *)
(* LSN read.  What recovery has read stays readable.                       *)
Start ==
  /\ phase = "ready"
  /\ committed' = LastRecovered /\ durable' = LastRecovered
  /\ sinkNext' = LastRecovered + 1
  /\ phase' = "up" /\ cursor' = 0 /\ seen' = 0
  /\ kept' = {l \in 1 .. MaxLsn : \E i \in DOMAIN tables : \E j \in DOMAIN tables[i] : tables[i][j] = l}
  /\ want' = [version |-> 0, reg |-> <<>>, tables |-> <<>>,
             bump |-> NoOp, bumpSynced |-> FALSE]
  /\ UNCHANGED <<apc, op, version, reg, tables, nextEvent, diskVars, taskVars,
                 fails, taken, crashes>>

(* Nothing in progress: the server waits for requests. *)
Quiet == Up /\ apc = "idle" /\ spc = "idle" /\ UNCHANGED vars

Next ==
  \/ Quiet
  \/ PushAppend \/ PushApply
  \/ \E n \in Names : RegisterStage(n)
  \/ RegisterFsync \/ RegisterFsyncErr \/ RegisterRemove \/ RegisterApply
  \/ \E k \in 1 .. MaxLsn : Flush(k)
  \/ Compact
  \/ SnapStart \/ SnapCaptureRegistry \/ SnapCapture \/ SnapWrite \/ SnapFail
  \/ \E s \in 0 .. MaxLsn : SnapTruncate(s)
  \/ SnapRequestReclaim \/ SnapPrune
  \/ \E k, j \in 0 .. MaxLsn : Crash(k, j)
  \/ Shutdown
  \/ LoadSnapshot \/ ReplayBump \/ BumpsDone \/ ReplayEvent \/ EventsDone \/ Start

Spec == Init /\ [][Next]_vars

-----------------------------------------------------------------------------
(* Properties. *)

Bumps == [lsn : Nat, ver : Nat, name : Names, force : BOOLEAN]
Events == [lsn : Nat, rv : Nat]

(* Every variable has its type. *)
TypeOK ==
  /\ phase \in {"up", "load", "bumps", "events", "ready"}
  /\ apc \in {"idle", "appended", "staged", "fsynced", "removed"}
  /\ op \in Bumps \cup [lsn : Nat]
  /\ version \in Nat /\ nextEvent \in Nat
  /\ DOMAIN reg \subseteq Names
  /\ \A n \in DOMAIN reg : reg[n] \in [inst : Nat, at : Nat] /\ reg[n].inst \in DOMAIN tables
  /\ committed \in Nat /\ sinkNext \in Nat \ {0} /\ durable \in Nat
  /\ ring \subseteq Events /\ wal \subseteq Events
  /\ log \subseteq Bumps /\ logSynced \subseteq log
  /\ requested \in Nat /\ reclaimed \in Nat
  /\ spc \in {"idle", "fork", "lock", "write", "truncate", "reclaim", "prune"}
  /\ legacy \in Nat /\ cursor \in Nat /\ seen \in Nat
  /\ kept \subseteq Nat /\ fails \in Nat /\ taken \in Nat /\ crashes \in Nat

(* Recovery restores the registry: every acknowledged registration and     *)
(* replacement, at the version it had, and nothing else but the            *)
(* registration that was in progress, which is there if it was fsynced.    *)
RegistryRecovered ==
  phase = "ready" =>
    \/ ~ want.bumpSynced /\ version = want.version /\ Instances(reg) = want.reg
    \/ /\ want.bump # NoOp
       /\ version = want.version + 1
       /\ DOMAIN reg = DOMAIN want.reg \cup {want.bump.name}
       /\ \A n \in DOMAIN reg :
            reg[n].inst = IF n = want.bump.name THEN want.bump.lsn ELSE want.reg[n]

(* The events a table holds. *)
EventsOf(t) == {t[j] : j \in DOMAIN t}

(* Recovery restores the tables up to one LSN: each aggregation holds      *)
(* exactly the events it held at the crash up to that LSN, once and in     *)
(* order, and none that was fsynced is missing.  A snapshot that does not  *)
(* match its next_event_id, an event replayed twice, skipped or credited   *)
(* to an aggregation registered later would break it.                      *)
TablesRecovered ==
  phase = "ready" =>
    \E h \in 0 .. MaxLsn :
      /\ \A l \in kept : l <= h
      /\ \A n \in DOMAIN reg :
           LET i == reg[n].inst
           IN  /\ \A j, k \in DOMAIN tables[i] : j < k => tables[i][j] < tables[i][k]
               /\ EventsOf(tables[i]) =
                    {l \in IF i \in DOMAIN want.tables THEN EventsOf(want.tables[i]) ELSE {} : l <= h}

(* Whatever the snapshot and the logs hold, no event is counted twice or   *)
(* out of order: what a snapshot has in its tables is not replayed again.  *)
NoEventTwice ==
  \A i \in DOMAIN tables : \A j, k \in DOMAIN tables[i] :
    j < k => tables[i][j] < tables[i][k]

(* Recovery takes the snapshot with the highest LSN.  That is the last one *)
(* taken, also when the LSN comes from the registry log or the process was *)
(* restarted: a snapshot about to be written is not older, in its LSN, its *)
(* registry version or its next_event_id, than any file there is.          *)
SnapshotsAdvance ==
  spc = "write" =>
    \A s \in snaps : s.lsn <= body.lsn /\ s.version <= body.version /\ s.next <= body.next

(* The two logs share one LSN order: an event carries the version of a     *)
(* fsynced bump exactly if its LSN is past the bump's, across restarts.    *)
StreamsOrdered ==
  \A e \in wal \cup ring, b \in logSynced : e.rv >= b.ver <=> e.lsn > b.lsn

=============================================================================
