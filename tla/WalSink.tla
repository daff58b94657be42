------------------------------ MODULE WalSink ------------------------------
(***************************************************************************)
(* The registry write-ahead log: the group-commit worker behind WalSink    *)
(* and the segment files it owns, across restarts and reboots              *)
(* (crates/beava-persistence: fsync_worker.rs, writer.rs, rotation.rs,     *)
(* reader.rs, record.rs; boot: crates/beava-server/src/server.rs).         *)
(*                                                                         *)
(* The worker is one task: callers only put requests in its channels and   *)
(* wait for the answer.  A record is its LSN and the segment that holds    *)
(* it; bytes are counted in records.  Inside a segment records lie in LSN  *)
(* order, so the part of a segment that survives a crash is the records up *)
(* to some LSN, perhaps followed by a torn one.                            *)
(*                                                                         *)
(* Three failures leave the directory out of step with the LSNs: a segment *)
(* file created for a rotation that then fails, a record written in part   *)
(* by an append that fails, and a rotation to an LSN past one that a       *)
(* failed append used up.  disorder remembers which of them happened.      *)
(***************************************************************************)
EXTENDS Integers, Sequences, FiniteSets

CONSTANTS
  SegRecs,    \* segment_bytes: records after which a segment is rotated
  FsyncRecs,  \* fsync_bytes: staged records that force an fsync
  Modes,      \* sync modes the callers use
  Gaps,       \* how far min_lsn may lie past the last LSN assigned
  MaxInbox,   \* bound on requests in flight
  MaxLsn,     \* bound on LSNs
  MaxFail,    \* bound on failing appends, fsyncs and segment opens
  MaxRestart, \* bound on restarts and clean shutdowns
  TornWrites  \* TRUE: a crash may leave part of a record in a segment

ASSUME ConstAssumption ==
  /\ SegRecs \in Nat \ {0} /\ FsyncRecs \in Nat /\ Gaps \subseteq Nat
  /\ Modes \subseteq {"Periodic", "PerEvent"}
  /\ MaxInbox \in Nat /\ MaxLsn \in Nat /\ MaxFail \in Nat /\ MaxRestart \in Nat
  /\ TornWrites \in BOOLEAN

VARIABLES
  pc,         \* worker: "select", "fsync", "rotate", "close"; else
              \* "down" (no process) or "refused" (boot failed)
  inbox,      \* append_rx: requests the worker has not received
  ctrl,       \* control_rx: at most one message
  pending,    \* PerEvent LSNs staged and not fsynced
  staged,     \* records staged since the last fsync attempt
  nextLsn, startLsn, durable,
  segs,       \* segment files: start LSN -> registry version in the header
  disk,       \* records handed to a segment's BufWriter or file
  synced,     \* the records of disk an fsync covered
  torn,       \* segments that hold part of a record
  short,      \* segments whose header is cut short
  behind,     \* records of disk that lie behind part of a record
  bootRv,     \* registry version recovered at boot
  covered,    \* highest LSN a durable snapshot covers
  floor,      \* highest LSN the snapshots and the data-plane WAL held at
              \* boot; what a boot has read stays readable
  trimmed,    \* history: records deleted with truncated segments
  strict,     \* history: LSNs acknowledged to PerEvent callers
  loose,      \* history: LSNs acknowledged to Periodic callers that no
              \* crash has cost yet
  disorder,   \* history: how the files got out of step with the LSNs
  fails, restarts

workerVars == <<pc, inbox, ctrl, pending, staged, nextLsn, startLsn, durable>>
diskVars == <<segs, disk, synced, torn, short, behind, disorder>>
envVars == <<bootRv, covered, floor, trimmed, fails, restarts>>
ackVars == <<strict, loose>>
vars == <<workerVars, diskVars, envVars, ackVars>>

Larger(a, b) == IF a >= b THEN a ELSE b
Segments == DOMAIN segs
RecordsOf(s) == {r \in disk : r.seg = s}
NoMsg == [op |-> "none"]

Init ==
  /\ pc = "select" /\ inbox = <<>> /\ ctrl = NoMsg
  /\ pending = {} /\ staged = 0
  /\ nextLsn = 1 /\ startLsn = 1 /\ durable = 0
  /\ segs = [s \in {1} |-> 0] /\ disk = {} /\ synced = {} /\ torn = {}
  /\ short = {} /\ behind = {} /\ disorder = {}
  /\ bootRv = 0 /\ covered = 0 /\ floor = 0 /\ trimmed = 0 /\ fails = 0 /\ restarts = 0
  /\ strict = {} /\ loose = {}

Running == pc \notin {"down", "refused"}

-----------------------------------------------------------------------------
(* Callers. *)

(* append_record_with_mode_at_least: enqueue and wait for the answer.  The *)
(* data-plane LSN, which min_lsn follows, is past every snapshot.          *)
Submit(m, g) ==
  /\ Running /\ Len(inbox) < MaxInbox
  /\ LET min == Larger(nextLsn, covered + 1) + g
     IN  /\ min + Len(inbox) <= MaxLsn
         /\ inbox' = Append(inbox, [mode |-> m, min |-> min])
  /\ UNCHANGED <<pc, ctrl, pending, staged, nextLsn, startLsn, durable,
                 diskVars, envVars, ackVars>>

(* The snapshot task: a snapshot covering LSN c is durable, then           *)
(* truncate_up_to(c).  c is the durable LSN, or the LSN of a later event;  *)
(* events are not applied while a registration is in flight.               *)
RequestTruncate(c) ==
  /\ Running /\ ctrl = NoMsg
  /\ c <= durable \/ (inbox = <<>> /\ disk = synced)
  /\ covered' = c
  /\ floor' = Larger(floor, c)
  /\ ctrl' = [op |-> "truncate", lsn |-> c]
  /\ UNCHANGED <<pc, inbox, pending, staged, nextLsn, startLsn, durable,
                 diskVars, bootRv, trimmed, fails, restarts, ackVars>>

RequestShutdown ==
  /\ Running /\ ctrl = NoMsg /\ restarts < MaxRestart
  /\ restarts' = restarts + 1
  /\ ctrl' = [op |-> "shutdown"]
  /\ UNCHANGED <<pc, inbox, pending, staged, nextLsn, startLsn, durable,
                 diskVars, bootRv, covered, floor, trimmed, fails, ackVars>>

-----------------------------------------------------------------------------
(* worker_loop: one biased select per iteration. *)

ForceNow == staged >= FsyncRecs
AfterSelect(flush) == IF flush \/ ForceNow THEN "fsync" ELSE "select"

(* Mutant: a segment goes when no LSN past c is missing after it. *)
ObsoleteOneTooMany(c) ==
  {s \in Segments \ {startLsn} :
     \E n \in Segments :
       /\ n > s /\ n <= c + 1
       /\ \A m \in Segments : m > s => n <= m}

(* rotation::truncate_up_to: a segment goes when its successor starts at   *)
(* or below the covered LSN; the open segment and the last one stay.       *)
Obsolete(c) ==
  {s \in Segments \ {startLsn} :
     \E n \in Segments :
       /\ n > s /\ n <= c
       /\ \A m \in Segments : m > s => n <= m}

Truncate ==
  /\ pc = "select" /\ ctrl.op = "truncate"
  /\ LET gone == Obsolete(ctrl.lsn)
     IN  /\ segs' = [s \in Segments \ gone |-> segs[s]]
         /\ disk' = {r \in disk : r.seg \notin gone}
         /\ synced' = {r \in synced : r.seg \notin gone}
         /\ torn' = torn \ gone /\ short' = short \ gone
         /\ behind' = {r \in behind : r.seg \notin gone}
         /\ trimmed' = trimmed + Cardinality({r \in disk : r.seg \in gone})
  /\ ctrl' = NoMsg
  /\ pc' = AfterSelect(FALSE)
  /\ UNCHANGED <<inbox, pending, staged, nextLsn, startLsn, durable, disorder,
                 bootRv, covered, floor, fails, restarts, ackVars>>

(* stage_request: raise next_lsn to min_lsn, assign, append to the         *)
(* BufWriter; a Periodic caller is answered here.                          *)
Stage ==
  /\ pc = "select" /\ ctrl = NoMsg /\ inbox # <<>>
  /\ LET req == Head(inbox)
         lsn == Larger(nextLsn, req.min)
         new == [seg |-> startLsn, lsn |-> lsn]
     IN  /\ nextLsn' = lsn + 1
         /\ disk' = disk \cup {new}
         /\ behind' = IF startLsn \in torn THEN behind \cup {new} ELSE behind
         /\ pending' = IF req.mode = "PerEvent" THEN pending \cup {lsn} ELSE pending
         /\ loose' = IF req.mode = "Periodic" THEN loose \cup {lsn} ELSE loose
  /\ inbox' = Tail(inbox)
  /\ staged' = staged + 1
  /\ pc' = AfterSelect(staged + 1 >= FsyncRecs)
  /\ UNCHANGED <<ctrl, startLsn, durable, segs, synced, torn, short, disorder,
                 envVars, strict>>

(* WalWriter::append fails: the caller gets the error, the LSN is used up. *)
(* A record larger than the BufWriter may be in the file in part.          *)
StageErr ==
  /\ pc = "select" /\ ctrl = NoMsg /\ inbox # <<>> /\ fails < MaxFail
  /\ fails' = fails + 1
  /\ nextLsn' = Larger(nextLsn, Head(inbox).min) + 1
  /\ inbox' = Tail(inbox)
  /\ \/ UNCHANGED <<torn, disorder>>
     \/ TornWrites /\ torn' = torn \cup {startLsn}
        /\ disorder' = disorder \cup {"partial"}
  /\ pc' = AfterSelect(FALSE)
  /\ UNCHANGED <<ctrl, pending, staged, startLsn, durable, segs, disk, synced,
                 short, behind, bootRv, covered, floor, trimmed, restarts, ackVars>>

(* The fsync timer is the last branch of the select. *)
Tick ==
  /\ pc = "select" /\ ctrl = NoMsg /\ inbox = <<>>
  /\ pc' = AfterSelect(staged > 0)
  /\ UNCHANGED <<inbox, ctrl, pending, staged, nextLsn, startLsn, durable,
                 diskVars, envVars, ackVars>>

TakeShutdown ==
  /\ pc = "select" /\ ctrl.op = "shutdown"
  /\ pc' = "fsync"
  /\ UNCHANGED <<inbox, ctrl, pending, staged, nextLsn, startLsn, durable,
                 diskVars, envVars, ackVars>>

(* Where fsync_batch returns to: the loop, or the end of a shutdown. *)
AfterBatch == IF ctrl.op = "shutdown" THEN "close" ELSE "select"

FsyncNothing ==
  /\ pc = "fsync" /\ staged = 0 /\ pending = {}
  /\ pc' = AfterBatch
  /\ UNCHANGED <<inbox, ctrl, pending, staged, nextLsn, startLsn, durable,
                 diskVars, envVars, ackVars>>

(* Mutant: the next LSN instead of the last one. *)
NextAssigned == nextLsn

LastAssigned == nextLsn - 1

FsyncOk ==
  /\ pc = "fsync" /\ (staged > 0 \/ pending # {})
  /\ synced' = disk
  /\ durable' = LastAssigned
  /\ strict' = strict \cup pending
  /\ pending' = {} /\ staged' = 0
  /\ pc' = IF Cardinality(RecordsOf(startLsn)) >= SegRecs THEN "rotate" ELSE AfterBatch
  /\ UNCHANGED <<inbox, ctrl, nextLsn, startLsn, segs, disk, torn, short, behind,
                 disorder, envVars, loose>>

(* Mutant: the waiters are kept for an fsync that nobody asks for. *)
FsyncErrKeepsWaiters ==
  /\ pc = "fsync" /\ (staged > 0 \/ pending # {}) /\ fails < MaxFail
  /\ fails' = fails + 1
  /\ staged' = 0
  /\ pc' = AfterBatch
  /\ UNCHANGED <<inbox, ctrl, pending, nextLsn, startLsn, durable, diskVars,
                 bootRv, covered, floor, trimmed, restarts, ackVars>>

(* The waiters get an error; the records stay in the segment. *)
FsyncErr ==
  /\ pc = "fsync" /\ (staged > 0 \/ pending # {}) /\ fails < MaxFail
  /\ fails' = fails + 1
  /\ pending' = {} /\ staged' = 0
  /\ pc' = AfterBatch
  /\ UNCHANGED <<inbox, ctrl, nextLsn, startLsn, durable, diskVars, bootRv,
                 covered, floor, trimmed, restarts,
                 ackVars>>

(* WalWriter::open: an existing file is taken over only if it is a bare    *)
(* header with the registry version asked for.                             *)
CanOpen(s, rv) ==
  s \in Segments => RecordsOf(s) = {} /\ s \notin torn \cup short /\ segs[s] = rv

AddSegment(s, rv) ==
  [t \in Segments \cup {s} |-> IF t = s THEN rv ELSE segs[t]]

(* The last LSN assigned has a record that an fsync covers.                *)
LastIsSynced == [seg |-> startLsn, lsn |-> nextLsn - 1] \in synced

(* rotation::rotate: the header of the new segment repeats the registry    *)
(* version of the boot.                                                    *)
RotateOk ==
  /\ pc = "rotate" /\ CanOpen(nextLsn, bootRv)
  /\ segs' = AddSegment(nextLsn, bootRv)
  /\ startLsn' = nextLsn
  /\ disorder' = disorder \cup (IF LastIsSynced THEN {} ELSE {"ahead"})
  /\ pc' = AfterBatch
  /\ UNCHANGED <<inbox, ctrl, pending, staged, nextLsn, durable, disk, synced,
                 torn, short, behind, envVars, ackVars>>

(* rotate fails and the old segment stays open: before create_new made the *)
(* file, after it (the header is written, or cut short), or because a file *)
(* that cannot be reused has the name.                                     *)
RotateErr ==
  /\ pc = "rotate"
  /\ \/ /\ fails < MaxFail /\ fails' = fails + 1
        /\ UNCHANGED <<segs, short, disorder>>
     \/ /\ fails < MaxFail /\ fails' = fails + 1
        /\ nextLsn \notin Segments
        /\ segs' = AddSegment(nextLsn, bootRv)
        /\ short' \in {short, short \cup {nextLsn}}
        /\ disorder' = disorder \cup {"leftover"}
     \/ /\ ~CanOpen(nextLsn, bootRv)
        /\ UNCHANGED <<fails, segs, short, disorder>>
  /\ pc' = AfterBatch
  /\ UNCHANGED <<inbox, ctrl, pending, staged, nextLsn, startLsn, durable,
                 disk, synced, torn, behind, bootRv, covered, floor, trimmed,
                 restarts, ackVars>>

(* Mutant: the shutdown relies on the fsync_batch before it. *)
CloseUnsynced ==
  /\ pc = "close"
  /\ pc' = "down" /\ inbox' = <<>> /\ ctrl' = NoMsg
  /\ UNCHANGED <<pending, staged, nextLsn, startLsn, durable, diskVars, envVars,
                 ackVars>>

(* Last blocking_sync_data of a shutdown; the process then exits and the   *)
(* requests still in the channel are answered with an error.               *)
Close ==
  /\ pc = "close"
  /\ \/ synced' = disk /\ UNCHANGED fails
     \/ fails < MaxFail /\ fails' = fails + 1 /\ UNCHANGED synced
  /\ pc' = "down" /\ inbox' = <<>> /\ ctrl' = NoMsg
  /\ UNCHANGED <<pending, staged, nextLsn, startLsn, durable, segs, disk, torn,
                 short, behind, disorder, bootRv, covered, floor, trimmed,
                 restarts, ackVars>>

-----------------------------------------------------------------------------
(* Crash and boot. *)

(* Records past some LSN are gone unless an fsync covered them; the first  *)
(* one gone may have left a torn tail in the open segment, and a rotation  *)
(* under way a file without its whole header.                              *)
Crash(k) ==
  /\ Running /\ restarts < MaxRestart
  /\ restarts' = restarts + 1
  /\ disk' = {r \in disk : r \in synced \/ r.lsn <= k}
  /\ behind' = behind \cap disk'
  /\ \/ torn' = torn
     \/ TornWrites /\ disk' # disk /\ torn' = torn \cup {startLsn}
  /\ \/ UNCHANGED <<segs, short, disorder>>
     \/ /\ TornWrites /\ pc = "rotate" /\ nextLsn \notin Segments
        /\ segs' = AddSegment(nextLsn, bootRv)
        /\ short' = short \cup {nextLsn}
        /\ disorder' = disorder \cup {"leftover"}
  /\ synced' = disk'
  /\ pc' = "down" /\ inbox' = <<>> /\ ctrl' = NoMsg /\ pending' = {} /\ staged' = 0
  /\ loose' = {l \in loose : l < covered \/ \E r \in disk' : r.lsn = l}
  /\ UNCHANGED <<nextLsn, startLsn, durable, bootRv, covered, floor, trimmed,
                 fails, strict>>

(* What WalReader::read_all may return: nothing if a header is cut short,  *)
(* which is an error; nothing, or all but the records behind it, if part   *)
(* of a record has others behind it (a CRC error, or what looks like a     *)
(* torn tail); else every record.                                          *)
Readings ==
  IF short # {} THEN {{}} ELSE IF behind # {} THEN {{}, disk \ behind} ELSE {disk}

(* The highest LSN replay_wal_from_lsn sees in a reading, or f: the        *)
(* highest LSN of the snapshot and of the data-plane WAL.                  *)
Recovered(seen, f) ==
  IF \E r \in seen : r.lsn > f
  THEN CHOOSE l \in {r.lsn : r \in seen} : \A r \in seen : r.lsn <= l
  ELSE f

(* Every record is a registry bump, replayed or part of the snapshot.      *)
RecoveredRv(seen) ==
  trimmed + Cardinality({r \in disk : r \in seen \/ r.lsn <= covered})

(* Mutant: the last LSN recovered is used again. *)
LastRecoveredLsn(seen, f) == Recovered(seen, f)

FirstLsn(seen, f) == Recovered(seen, f) + 1

(* build_runtime_state_with_persistence and WalWriter::open: a new segment *)
(* one past everything recovered; an existing file is reused if it can be, *)
(* else boot fails.  What recovery has read stays readable.                *)
Boot(seen, f) ==
  /\ pc = "down"
  /\ LET first == FirstLsn(seen, f)
         rv == RecoveredRv(seen)
     IN  \/ /\ CanOpen(first, rv)
            /\ segs' = AddSegment(first, rv)
            /\ pc' = "select"
            /\ nextLsn' = first /\ startLsn' = first /\ durable' = first - 1
            /\ bootRv' = rv
         \/ /\ ~CanOpen(first, rv)
            /\ pc' = "refused"
            /\ UNCHANGED <<segs, nextLsn, startLsn, durable, bootRv>>
  /\ floor' = f
  /\ synced' = disk
  /\ pending' = {} /\ staged' = 0
  /\ UNCHANGED <<inbox, ctrl, disk, torn, short, behind, disorder, covered,
                 trimmed, fails, restarts, ackVars>>

Refused == pc = "refused" /\ UNCHANGED vars

WorkerStep ==
  \/ Truncate \/ Stage \/ StageErr \/ Tick \/ TakeShutdown \/ FsyncNothing \/ FsyncOk
  \/ FsyncErr \/ RotateOk \/ RotateErr \/ Close

Next ==
  \/ \E m \in Modes, g \in Gaps : Submit(m, g)
  \/ \E c \in covered + 1 .. nextLsn, g \in Gaps : RequestTruncate(c + g)
  \/ RequestShutdown
  \/ WorkerStep
  \/ \E k \in 0 .. MaxLsn : Crash(k)
  \/ \E seen \in Readings, f \in floor .. Larger(floor, nextLsn - 1) : Boot(seen, f)
  \/ Refused

Spec == Init /\ [][Next]_vars

(* tokio polls the worker task whenever a channel or the timer is ready. *)
FairSpec == Spec /\ WF_vars(WorkerStep)

-----------------------------------------------------------------------------
(* Properties. *)

RecordSet == [seg : Nat, lsn : Nat]
Requests == [mode : {"Periodic", "PerEvent"}, min : Nat]
Messages == {NoMsg, [op |-> "shutdown"]} \cup [op : {"truncate"}, lsn : Nat]

(* Every variable has its type. *)
TypeOK ==
  /\ pc \in {"select", "fsync", "rotate", "close", "down", "refused"}
  /\ inbox \in Seq(Requests) /\ ctrl \in Messages
  /\ pending \in SUBSET Nat /\ staged \in Nat
  /\ nextLsn \in Nat \ {0} /\ startLsn \in Nat \ {0} /\ durable \in Nat
  /\ Segments \subseteq Nat /\ \A s \in Segments : segs[s] \in Nat
  /\ disk \in SUBSET RecordSet /\ synced \in SUBSET disk
  /\ torn \in SUBSET Nat /\ short \in SUBSET Nat /\ behind \in SUBSET RecordSet
  /\ disorder \subseteq {"leftover", "partial", "ahead"}
  /\ bootRv \in Nat /\ covered \in Nat /\ floor \in Nat /\ trimmed \in Nat
  /\ fails \in Nat /\ restarts \in Nat
  /\ strict \in SUBSET Nat /\ loose \in SUBSET Nat

(* No failure has put the files out of step with the LSNs.                 *)
InOrder == disorder = {}

(* An acknowledged record at or past the LSN the snapshots cover is in an  *)
(* fsynced part of a segment.                                              *)
AckedKept == \A l \in strict : l >= covered => \E r \in synced : r.lsn = l

(* What a PerEvent caller was told is kept, through rotation, truncation,  *)
(* restarts and reboots, unless a failure left the files in disorder.  A   *)
(* record exactly at the covered LSN must stay too: the snapshot may have  *)
(* been taken between its fsync and its application to the registry.       *)
StrictAcksSurvive == InOrder => AckedKept

(* LSNs are never reused for two records on disk, and a segment holds only *)
(* LSNs between its start and the start of its successor.                  *)
Partitioned ==
  /\ \A r1, r2 \in disk : r1.lsn = r2.lsn => r1 = r2
  /\ \A r \in disk : /\ r.seg \in Segments /\ r.seg <= r.lsn
                     /\ \A s \in Segments : s > r.seg => r.lsn < s

(* What truncation assumes of the files and replay of their order holds,   *)
(* unless a failure left the files in disorder.                            *)
SegmentsPartitionLsns == InOrder => Partitioned

(* A published durable LSN never covers a record that is not fsynced.      *)
DurableIsSynced ==
  Running => \A r \in disk : r.lsn <= durable => r \in synced

(* After a shutdown whose last fsync succeeds, callers that chose Periodic *)
(* lose nothing either, even if an fsync failed before, unless a failure   *)
(* left the files in disorder.                                             *)
CleanShutdownKeepsLoose ==
  [][(/\ pc = "close" /\ pc' = "down" /\ InOrder
      /\ <<fails, restarts>>' = <<fails, restarts>>)
       => \A l \in loose : l >= covered => \E r \in synced' : r.lsn = l]_vars

(* Every PerEvent caller is answered, with its LSN or an error, as long as *)
(* the process lives: none waits for an fsync that nobody asks for.        *)
StrictCallersAnswered == pending # {} ~> pending = {}

=============================================================================
