---------------------------- MODULE SnapshotFork ----------------------------
(***************************************************************************)
(* The fork path of a snapshot (snapshot_fork.rs): the snapshot task       *)
(* captures an LSN under the table lock and forks; the child encodes and   *)
(* writes the file and tells how it went in a sidecar file; the parent     *)
(* polls waitpid, kills a child that takes too long and gives up on one    *)
(* that does not die.  The apply thread goes on applying events.           *)
(*                                                                         *)
(* Children are numbered by attempt.  Sidecar files are named by LSN, so   *)
(* one left behind by an earlier child may be met again while the server   *)
(* is idle or after a restart that lost events.                            *)
(***************************************************************************)
EXTENDS Integers

CONSTANTS
  MaxLsn,       \* bound on the LSNs of events
  Legacy,       \* legacy_snapshot_lsn: the registry log's durable LSN
  MaxAttempts,  \* bound on snapshots
  MaxRestarts   \* bound on restarts

ASSUME ForkAssumption == {MaxLsn, Legacy, MaxAttempts, MaxRestarts} \subseteq Nat

VARIABLES
  nextEvent,    \* next_event_id
  pc,           \* the snapshot task
  attempts,     \* attempts so far; the number of the current child
  candidate,    \* candidate_snapshot_lsn
  lsn, next,    \* attempt -> snapshot_lsn and next_event_id its child took
  child,        \* attempt -> where its process is
  committed,    \* attempt -> LSN of the file it renamed into place
  stats, errors,\* sidecar files: LSN -> the child that wrote it
  report,       \* attempt -> what do_snapshot was told
  told,         \* attempt -> the child whose sidecar was read for it
  restarts

took == <<lsn, next>>
taskVars == <<nextEvent, pc, attempts, candidate, took, child, committed, stats, errors, report, told, restarts>>

Larger(a, b) == IF a >= b THEN a ELSE b
Put(f, a, v) == [x \in DOMAIN f \cup {a} |-> IF x = a THEN v ELSE f[x]]
Drop(f, a) == [x \in DOMAIN f \ {a} |-> f[x]]

SnapshotLsn == Larger(Legacy, nextEvent)
Current == child[attempts]

TaskInit ==
  /\ nextEvent = 0 /\ pc = "idle" /\ attempts = 0 /\ candidate = 0
  /\ lsn = <<>> /\ next = <<>> /\ restarts = 0 /\ child = <<>> /\ committed = <<>>
  /\ stats = <<>> /\ errors = <<>> /\ report = <<>> /\ told = <<>>

-----------------------------------------------------------------------------
(* The apply thread: an event, under the table lock. *)

ApplyEvent ==
  /\ pc # "locked"
  /\ nextEvent < MaxLsn
  /\ nextEvent' = nextEvent + 1
  /\ UNCHANGED <<pc, attempts, candidate, took, child, committed, stats, errors, report, told, restarts>>

-----------------------------------------------------------------------------
(* The parent. *)

Finish(result) ==
  /\ report' = Put(report, attempts, result)
  /\ pc' = "idle"

Failed == [kind |-> "failed"]

\* do_snapshot: the directory is created, the registry captured.
Begin ==
  /\ pc = "idle" /\ attempts < MaxAttempts
  /\ attempts' = attempts + 1
  /\ pc' = "candidate"
  /\ UNCHANGED <<nextEvent, candidate, took, child, committed, stats, errors, report, told, restarts>>

\* The LSN is read without the lock, and its sidecar files are removed.
PickCandidate ==
  /\ pc = "candidate"
  /\ candidate' = SnapshotLsn
  /\ stats' = Drop(stats, SnapshotLsn) /\ errors' = Drop(errors, SnapshotLsn)
  /\ pc' = "lock"
  /\ UNCHANGED <<nextEvent, attempts, took, child, committed, report, told, restarts>>

\* Mutant: the LSN read under the lock is taken whatever was cleaned.
SettledAlways == TRUE

\* Under the lock: the LSN is the one whose sidecars were removed.
Settled == SnapshotLsn = candidate

LockTables ==
  /\ pc = "lock"
  /\ pc' = IF Settled THEN "locked" ELSE "candidate"
  /\ UNCHANGED <<nextEvent, attempts, candidate, took, child, committed, stats, errors, report, told, restarts>>

\* fork; the parent drops the lock at once.
Fork ==
  /\ pc = "locked"
  /\ lsn' = Put(lsn, attempts, SnapshotLsn)
  /\ next' = Put(next, attempts, nextEvent)
  /\ child' = Put(child, attempts, "encode")
  /\ pc' = "wait"
  /\ UNCHANGED <<nextEvent, attempts, candidate, committed, stats, errors, report, told, restarts>>

ForkFailed ==
  /\ pc = "locked"
  /\ Finish(Failed)
  /\ UNCHANGED <<nextEvent, attempts, candidate, took, child, committed, stats, errors, told, restarts>>

\* WIFEXITED with code 0
ExitedWell == Current = "exit0"

\* read_stats_sidecar finds the file; reading removes it.
HasStats(l) == l \in DOMAIN stats

\* wait_for_snapshot_child: waitpid returned the child.  child_exit_from_status
\* reads and removes one sidecar: stats after a clean exit, where a missing one
\* is a failure, error after exit(1), and none after a signal.
Reap ==
  LET l == lsn[attempts] IN
  /\ pc = "wait" /\ Current \in {"exit0", "exit1", "killed"}
  /\ \/ /\ ExitedWell /\ HasStats(l)
        /\ Finish([kind |-> "ok", lsn |-> l])
        /\ told' = Put(told, attempts, stats[l])
        /\ stats' = Drop(stats, l) /\ UNCHANGED errors
     \/ /\ ExitedWell /\ ~HasStats(l)
        /\ Finish(Failed) /\ UNCHANGED <<told, stats, errors>>
     \/ /\ ~ExitedWell /\ Current = "exit1"
        /\ Finish(Failed)
        /\ told' = IF l \in DOMAIN errors THEN Put(told, attempts, errors[l]) ELSE told
        /\ errors' = Drop(errors, l) /\ UNCHANGED stats
     \/ /\ ~ExitedWell /\ Current = "killed"
        /\ Finish(Failed) /\ UNCHANGED <<told, stats, errors>>
  /\ child' = Put(child, attempts, "gone")
  /\ UNCHANGED <<nextEvent, attempts, candidate, took, committed, restarts>>

\* waitpid failed: ECHILD, because the system has reaped the child itself (SIGCHLD
\* is ignored).  Its sidecars are not read.  After EINTR the loop goes round.
WaitFailed ==
  /\ pc = "wait" /\ Current \in {"exit0", "exit1", "killed"}
  /\ child' = Put(child, attempts, "gone")
  /\ Finish(Failed)
  /\ UNCHANGED <<nextEvent, attempts, candidate, took, committed, stats, errors, told, restarts>>

Running(c) == c \in {"encode", "renamed", "statsDone", "failing"}

\* Mutant: a child that is still running is waited for without end.
OverdueNever == FALSE

\* The deadline may pass at any time, also between the child's exit and the
\* next waitpid.
Overdue == pc = "wait"

\* terminate_timed_out_child: SIGKILL.  The child takes no further step, but a
\* system call it is in may still complete.
Kill ==
  /\ Overdue
  /\ child' = IF Running(Current) THEN Put(child, attempts, "dying") ELSE child
  /\ pc' = "reap"
  /\ UNCHANGED <<nextEvent, attempts, candidate, took, committed, stats, errors, report, told, restarts>>

\* reap_child_until: within the second of grace, or not; an error of waitpid is
\* reported as the same failure.
ReapKilled ==
  /\ pc = "reap" /\ Current \in {"exit0", "exit1", "killed"}
  /\ child' = Put(child, attempts, "gone")
  /\ Finish(Failed)
  /\ UNCHANGED <<nextEvent, attempts, candidate, took, committed, stats, errors, told, restarts>>

GraceOver ==
  /\ pc = "reap" /\ Current = "dying"
  /\ Finish(Failed)
  /\ UNCHANGED <<nextEvent, attempts, candidate, took, child, committed, stats, errors, told, restarts>>

-----------------------------------------------------------------------------
(* The server process dies and a new one recovers up to r: at least the newest *)
(* snapshot file, and of the events behind it what had reached the disk.  The  *)
(* child dies too, as it does when the server is the first process of a        *)
(* container; nothing in the code sees to it elsewhere.                        *)

Restart(r) ==
  /\ restarts < MaxRestarts /\ restarts' = restarts + 1
  /\ r <= nextEvent /\ \A a \in DOMAIN committed : next[a] <= r
  /\ nextEvent' = r
  /\ child' = [a \in DOMAIN child |-> "gone"]
  /\ pc' = "idle"
  /\ report' = IF pc = "idle" THEN report ELSE Put(report, attempts, Failed)
  /\ UNCHANGED <<attempts, candidate, lsn, next, committed, stats, errors, told>>

-----------------------------------------------------------------------------
(* The child. *)

Moves(a, to) == child' = Put(child, a, to)
OnlyChild == UNCHANGED <<nextEvent, pc, attempts, candidate, took, report, told, restarts>>

\* encode, write the temporary file, fsync, rename
Commit(a) ==
  /\ child[a] \in {"encode", "dying"} /\ a \notin DOMAIN committed
  /\ committed' = Put(committed, a, lsn[a])
  /\ IF child[a] = "dying" THEN UNCHANGED child ELSE Moves(a, "renamed")
  /\ OnlyChild /\ UNCHANGED <<stats, errors>>

\* Mutant: the stats are written before the file is in place.
StatsDueEarly(a) == child[a] \in {"encode", "renamed"}

StatsDue(a) == child[a] = "renamed"

WriteStats(a) ==
  /\ StatsDue(a)
  /\ stats' = Put(stats, lsn[a], a)
  /\ Moves(a, "statsDone")
  /\ OnlyChild /\ UNCHANGED <<committed, errors>>

Exit0(a) ==
  /\ child[a] = "statsDone" /\ Moves(a, "exit0")
  /\ OnlyChild /\ UNCHANGED <<committed, stats, errors>>

\* Encoding, writing or the stats failed: child_fail writes the message, if it
\* can, and exits with 1.
WriteError(a) ==
  /\ child[a] \in {"encode", "renamed"}
  /\ Moves(a, "failing")
  /\ errors' \in {errors, Put(errors, lsn[a], a)}
  /\ OnlyChild /\ UNCHANGED <<committed, stats>>

Exit1(a) ==
  /\ child[a] = "failing" /\ Moves(a, "exit1")
  /\ OnlyChild /\ UNCHANGED <<committed, stats, errors>>

\* A signal from outside (the OOM killer), or the SIGKILL takes effect.
Die(a) ==
  /\ Running(child[a]) \/ child[a] = "dying"
  /\ Moves(a, "killed")
  /\ OnlyChild /\ UNCHANGED <<committed, stats, errors>>

ChildStep(a) == Commit(a) \/ WriteStats(a) \/ Exit0(a) \/ WriteError(a) \/ Exit1(a) \/ Die(a)

Wait == Reap \/ WaitFailed \/ Kill \/ ReapKilled \/ GraceOver

TaskNext ==
  \/ ApplyEvent
  \/ Begin \/ PickCandidate \/ LockTables \/ Fork \/ ForkFailed
  \/ Reap \/ WaitFailed \/ Kill \/ ReapKilled \/ GraceOver
  \/ \E r \in 0..MaxLsn : Restart(r)
  \/ \E a \in DOMAIN child : ChildStep(a)

TaskSpec == TaskInit /\ [][TaskNext]_taskVars

\* The task runs on whenever it can: the loop, the polling and the deadline are
\* its own code.  Nothing is assumed of a child.
TaskFairSpec ==
  TaskSpec /\ WF_taskVars(PickCandidate) /\ WF_taskVars(LockTables) /\ WF_taskVars(Fork \/ ForkFailed) /\ WF_taskVars(Wait)

-----------------------------------------------------------------------------
(* Properties *)

Promise == INSTANCE SnapshotPromise WITH outcome <- report, Lsns <- 0..Larger(Legacy, MaxLsn)

\* snapshot_fork.rs, snapshot_task.rs: whatever the child does and whenever it
\* dies, is killed or hangs, the task is told "ok" only when this attempt's file
\* is in place under this LSN, so the logs are never truncated for a snapshot
\* that is not there.
PromiseKept == Promise!Spec

\* snapshot_fork.rs:140-160: the sidecar read for a child was written by that
\* child, never by an earlier one that took the same LSN: the loop settles on an
\* LSN whose sidecars it has removed, although events move the LSN meanwhile.
ReportsOwnSidecar == \A a \in DOMAIN told : told[a] = a

\* snapshot_fork.rs: the fork path implements SnapshotPromise, and what it reports
\* of an attempt is what this attempt's child said.
KeepsPromise == PromiseKept /\ []ReportsOwnSidecar

\* wait_for_snapshot_child, terminate_timed_out_child: a child that hangs in any
\* place does not hang the snapshot task.
WaitEnds == pc = "wait" ~> pc = "idle"
=============================================================================
