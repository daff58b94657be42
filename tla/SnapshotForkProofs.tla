------------------------- MODULE SnapshotForkProofs -------------------------
(***************************************************************************)
(* Proofs about SnapshotFork for any number of attempts, restarts and      *)
(* events and any timing of the child, its death and the deadline: the     *)
(* fork path implements SnapshotPromise, and a sidecar file is read only   *)
(* for the child that wrote it.                                            *)
(***************************************************************************)
EXTENDS SnapshotFork, TLAPS

Lsns == 0 .. Larger(Legacy, MaxLsn)

(* Which attempts there is a child, a file and a report of.                *)
Shape ==
  /\ nextEvent \in 0 .. MaxLsn /\ attempts \in Nat /\ attempts <= MaxAttempts
  /\ pc \in {"idle", "candidate", "lock", "locked", "wait", "reap"}
  /\ DOMAIN lsn = DOMAIN child /\ DOMAIN child \subseteq 1 .. attempts
  /\ \A a \in DOMAIN child : lsn[a] \in Lsns
  /\ DOMAIN committed \subseteq DOMAIN child
  /\ DOMAIN report \subseteq 1 .. attempts

(* One attempt at a time: the current one is reported when the task is     *)
(* idle and not before, and it has a child from the fork on.               *)
OneAtATime ==
  /\ pc = "idle" => attempts \in DOMAIN report \cup {0}
  /\ pc # "idle" => attempts > 0 /\ attempts \notin DOMAIN report
  /\ pc \in {"wait", "reap"} <=> pc # "idle" /\ attempts \in DOMAIN child

(* A child that has come past the rename has its file in place, under the  *)
(* LSN it was given.                                                       *)
FilesInPlace ==
  /\ \A a \in DOMAIN committed : committed[a] = lsn[a]
  /\ \A a \in DOMAIN child :
       child[a] \in {"renamed", "statsDone", "exit0"} => a \in DOMAIN committed

(* Only the child that is waited for may still write a sidecar: all others *)
(* are reaped or on their way out.                                         *)
OneWriter ==
  \A a \in DOMAIN child :
    Running(child[a]) => a = attempts /\ pc = "wait"

(* The sidecars of the LSN the task has settled on are gone until its own  *)
(* child writes them.                                                      *)
CleanSidecars ==
  /\ pc \in {"lock", "locked"} => candidate \notin DOMAIN stats \cup DOMAIN errors
  /\ pc = "locked" => candidate = SnapshotLsn
  /\ pc = "wait" =>
       /\ lsn[attempts] \in DOMAIN stats => stats[lsn[attempts]] = attempts
       /\ lsn[attempts] \in DOMAIN errors => errors[lsn[attempts]] = attempts

IInv ==
  /\ Shape /\ OneAtATime /\ FilesInPlace /\ OneWriter /\ CleanSidecars
  /\ ReportsOwnSidecar

LEMMA PutIs ==
  ASSUME NEW f, NEW a, NEW v
  PROVE  /\ DOMAIN Put(f, a, v) = DOMAIN f \cup {a}
         /\ Put(f, a, v)[a] = v
         /\ \A x \in DOMAIN f : x # a => Put(f, a, v)[x] = f[x]
  BY DEF Put

LEMMA DropIs ==
  ASSUME NEW f, NEW a
  PROVE  /\ DOMAIN Drop(f, a) = DOMAIN f \ {a}
         /\ \A x \in DOMAIN f \ {a} : Drop(f, a)[x] = f[x]
  BY DEF Drop

LEMMA SnapshotLsnType == Shape => SnapshotLsn \in Lsns
  BY ForkAssumption DEF Shape, SnapshotLsn, Larger, Lsns

LEMMA InitInv == TaskInit => IInv
<1> SUFFICES ASSUME TaskInit PROVE IInv
  OBVIOUS
<1>1. DOMAIN child = {} /\ DOMAIN lsn = {} /\ DOMAIN committed = {} /\ DOMAIN report = {}
      /\ DOMAIN told = {}
  BY DEF TaskInit
<1>2. Shape
  BY <1>1, ForkAssumption DEF TaskInit, Shape
<1> QED BY <1>1, <1>2 DEF TaskInit, IInv, OneAtATime, FilesInPlace, OneWriter, CleanSidecars,
                          ReportsOwnSidecar

-----------------------------------------------------------------------------
(* The apply thread and the task up to the fork.                           *)

LEMMA ApplyInv == IInv /\ ApplyEvent => IInv'
<1> SUFFICES ASSUME IInv, ApplyEvent PROVE IInv'
  OBVIOUS
<1> USE DEF ApplyEvent, took
<1>1. Shape'
  BY ForkAssumption DEF IInv, Shape
<1>2. OneAtATime' /\ FilesInPlace' /\ OneWriter' /\ ReportsOwnSidecar'
  BY DEF IInv, OneAtATime, FilesInPlace, OneWriter, ReportsOwnSidecar
<1>3. CleanSidecars'
  BY DEF IInv, CleanSidecars
<1> QED BY <1>1, <1>2, <1>3 DEF IInv

LEMMA BeginInv == IInv /\ Begin => IInv'
<1> SUFFICES ASSUME IInv, Begin PROVE IInv'
  OBVIOUS
<1> USE DEF Begin, took
<1>1. attempts \in Nat /\ attempts' = attempts + 1 /\ attempts' \notin 1 .. attempts
      /\ 1 .. attempts \subseteq 1 .. attempts'
  BY DEF IInv, Shape
<1>2. Shape'
  BY <1>1, ForkAssumption DEF IInv, Shape
<1>3. attempts' \notin DOMAIN child /\ attempts' \notin DOMAIN report
  BY <1>1 DEF IInv, Shape
<1>4. OneAtATime'
  BY <1>1, <1>3 DEF OneAtATime
<1>5. OneWriter'
  BY DEF IInv, OneWriter
<1>6. FilesInPlace' /\ CleanSidecars' /\ ReportsOwnSidecar'
  BY DEF IInv, FilesInPlace, CleanSidecars, ReportsOwnSidecar
<1> QED BY <1>2, <1>4, <1>5, <1>6 DEF IInv

LEMMA PickCandidateInv == IInv /\ PickCandidate => IInv'
<1> SUFFICES ASSUME IInv, PickCandidate PROVE IInv'
  OBVIOUS
<1> USE DEF PickCandidate, took
<1>1. Shape' /\ OneAtATime' /\ FilesInPlace' /\ OneWriter' /\ ReportsOwnSidecar'
  BY DEF IInv, Shape, OneAtATime, FilesInPlace, OneWriter, ReportsOwnSidecar
<1>2. CleanSidecars'
  BY DropIs DEF CleanSidecars
<1> QED BY <1>1, <1>2 DEF IInv

LEMMA LockTablesInv == IInv /\ LockTables => IInv'
<1> SUFFICES ASSUME IInv, LockTables PROVE IInv'
  OBVIOUS
<1> USE DEF LockTables, took
<1>1. pc' \in {"locked", "candidate"} /\ (pc' = "locked" => Settled)
  OBVIOUS
<1>2. Shape' /\ OneAtATime' /\ FilesInPlace' /\ OneWriter' /\ ReportsOwnSidecar'
  BY <1>1 DEF IInv, Shape, OneAtATime, FilesInPlace, OneWriter, ReportsOwnSidecar
<1>3. CleanSidecars'
  BY <1>1 DEF IInv, CleanSidecars, Settled, SnapshotLsn
<1> QED BY <1>2, <1>3 DEF IInv

LEMMA ForkInv == IInv /\ Fork => IInv'
<1> SUFFICES ASSUME IInv, Fork PROVE IInv'
  OBVIOUS
<1> USE DEF Fork
<1>1. /\ attempts \in Nat /\ attempts > 0 /\ attempts \notin DOMAIN child
      /\ attempts \notin DOMAIN report /\ attempts \notin DOMAIN committed
      /\ \A a \in DOMAIN child : ~Running(child[a])
  BY DEF IInv, Shape, OneAtATime, OneWriter
<1>2. /\ DOMAIN lsn' = DOMAIN child' /\ DOMAIN child' = DOMAIN child \cup {attempts}
      /\ lsn'[attempts] = SnapshotLsn /\ child'[attempts] = "encode"
      /\ \A a \in DOMAIN child : lsn'[a] = lsn[a] /\ child'[a] = child[a]
  BY <1>1 DEF IInv, Shape, Put
<1>3. Shape'
  BY <1>1, <1>2, SnapshotLsnType DEF IInv, Shape
<1>4. OneAtATime'
  BY <1>1, <1>2 DEF OneAtATime
<1>5. FilesInPlace'
  BY <1>1, <1>2 DEF IInv, Shape, FilesInPlace
<1>6. OneWriter'
  BY <1>1, <1>2 DEF OneWriter
<1>7. CleanSidecars' /\ ReportsOwnSidecar'
  BY <1>2 DEF IInv, CleanSidecars, ReportsOwnSidecar
<1> QED BY <1>3, <1>4, <1>5, <1>6, <1>7 DEF IInv

(* The task is told the outcome of the current attempt and is idle again.  *)
LEMMA FinishInv ==
  ASSUME IInv, NEW result, Finish(result), pc # "idle",
         UNCHANGED <<nextEvent, attempts, lsn, committed>>,
         DOMAIN child' = DOMAIN child,
         \A a \in DOMAIN child : ~Running(child'[a]),
         \A a \in DOMAIN child : child'[a] = child[a] \/ child'[a] = "gone",
         ReportsOwnSidecar'
  PROVE  IInv'
<1>1. DOMAIN report' = DOMAIN report \cup {attempts} /\ pc' = "idle"
  BY PutIs DEF Finish
<1>2. attempts \in Nat /\ attempts > 0
  BY DEF IInv, Shape, OneAtATime
<1>3. Shape'
  BY <1>1, <1>2 DEF IInv, Shape
<1>4. OneAtATime' /\ CleanSidecars'
  BY <1>1, <1>2 DEF OneAtATime, CleanSidecars
<1>5. FilesInPlace' /\ OneWriter'
  BY DEF IInv, FilesInPlace, OneWriter
<1> QED BY <1>3, <1>4, <1>5 DEF IInv

LEMMA ForkFailedInv == IInv /\ ForkFailed => IInv'
<1> SUFFICES ASSUME IInv, ForkFailed PROVE IInv'
  OBVIOUS
<1>1. Finish(Failed) /\ pc = "locked"
      /\ UNCHANGED <<nextEvent, attempts, lsn, committed, child, told>>
  BY DEF ForkFailed, took
<1>2. \A a \in DOMAIN child : ~Running(child'[a])
  BY <1>1 DEF IInv, OneWriter
<1>3. ReportsOwnSidecar'
  BY <1>1 DEF IInv, ReportsOwnSidecar
<1> QED BY <1>1, <1>2, <1>3, FinishInv

-----------------------------------------------------------------------------
(* The wait.                                                               *)

(* The current child, reaped, is gone; nothing else changes about it.      *)
LEMMA Reaped ==
  ASSUME IInv, pc \in {"wait", "reap"}, child' = Put(child, attempts, "gone")
  PROVE  /\ DOMAIN child' = DOMAIN child /\ attempts \in DOMAIN child
         /\ \A a \in DOMAIN child : child'[a] = child[a] \/ child'[a] = "gone"
         /\ \A a \in DOMAIN child : ~Running(child'[a])
<1>1. attempts \in DOMAIN child
  BY DEF IInv, OneAtATime
<1>2. /\ DOMAIN child' = DOMAIN child /\ child'[attempts] = "gone"
      /\ \A a \in DOMAIN child : a # attempts => child'[a] = child[a]
  BY <1>1, PutIs
<1> QED BY <1>1, <1>2 DEF IInv, OneWriter, Running

LEMMA ReapInv == IInv /\ Reap => IInv'
<1> SUFFICES ASSUME IInv, Reap PROVE IInv'
  OBVIOUS
<1> DEFINE l == lsn[attempts]
<1>1. /\ pc = "wait" /\ child' = Put(child, attempts, "gone")
      /\ UNCHANGED <<nextEvent, attempts, lsn, committed>>
  BY DEF Reap, took
<1>2. /\ l \in DOMAIN stats => stats[l] = attempts
      /\ l \in DOMAIN errors => errors[l] = attempts
  BY <1>1 DEF IInv, CleanSidecars
<1>3. PICK result : Finish(result)
  BY DEF Reap
<1>4. told' = told \/ told' = Put(told, attempts, attempts)
  BY <1>2 DEF Reap, HasStats
<1>5. ReportsOwnSidecar'
  BY <1>4 DEF IInv, ReportsOwnSidecar, Put
<1> QED BY <1>1, <1>3, <1>5, Reaped, FinishInv

LEMMA KillInv == IInv /\ Kill => IInv'
<1> SUFFICES ASSUME IInv, Kill PROVE IInv'
  OBVIOUS
<1>1. /\ pc = "wait" /\ pc' = "reap"
      /\ child' = IF Running(child[attempts]) THEN Put(child, attempts, "dying") ELSE child
      /\ UNCHANGED <<nextEvent, attempts, candidate, lsn, next, committed, stats, errors,
                     report, told>>
  BY DEF Kill, Overdue, Current, took
<1>2. attempts \in DOMAIN child
  BY <1>1 DEF IInv, OneAtATime
<1>3. /\ DOMAIN child' = DOMAIN child
      /\ \A a \in DOMAIN child : ~Running(child'[a])
      /\ \A a \in DOMAIN child : child'[a] = child[a] \/ child'[a] = "dying"
  BY <1>1, <1>2 DEF IInv, OneWriter, Running, Put
<1>4. Shape' /\ OneAtATime' /\ CleanSidecars' /\ ReportsOwnSidecar'
  BY <1>1, <1>3 DEF IInv, Shape, OneAtATime, CleanSidecars, ReportsOwnSidecar
<1>5. FilesInPlace' /\ OneWriter'
  BY <1>1, <1>3 DEF IInv, FilesInPlace, OneWriter
<1> QED BY <1>4, <1>5 DEF IInv

LEMMA ReapKilledInv == IInv /\ (ReapKilled \/ WaitFailed) => IInv'
<1> SUFFICES ASSUME IInv, ReapKilled \/ WaitFailed PROVE IInv'
  OBVIOUS
<1>1. /\ pc \in {"wait", "reap"} /\ child' = Put(child, attempts, "gone") /\ Finish(Failed)
      /\ UNCHANGED <<nextEvent, attempts, lsn, committed, told>>
  BY DEF ReapKilled, WaitFailed, took
<1>2. ReportsOwnSidecar'
  BY <1>1 DEF IInv, ReportsOwnSidecar
<1> QED BY <1>1, <1>2, Reaped, FinishInv

LEMMA GraceOverInv == IInv /\ GraceOver => IInv'
<1> SUFFICES ASSUME IInv, GraceOver PROVE IInv'
  OBVIOUS
<1>1. /\ pc = "reap" /\ Finish(Failed)
      /\ UNCHANGED <<nextEvent, attempts, lsn, committed, told, child>>
  BY DEF GraceOver, took
<1>2. ReportsOwnSidecar' /\ \A a \in DOMAIN child : ~Running(child'[a])
  BY <1>1 DEF IInv, ReportsOwnSidecar, OneWriter
<1> QED BY <1>1, <1>2, FinishInv

LEMMA RestartInv ==
  ASSUME IInv, NEW r \in 0 .. MaxLsn, Restart(r)
  PROVE  IInv'
<1>1. /\ nextEvent' = r /\ child' = [a \in DOMAIN child |-> "gone"] /\ pc' = "idle"
      /\ report' = IF pc = "idle" THEN report ELSE Put(report, attempts, Failed)
      /\ UNCHANGED <<attempts, candidate, lsn, next, committed, stats, errors, told>>
  BY DEF Restart
<1>2. DOMAIN child' = DOMAIN child /\ \A a \in DOMAIN child : child'[a] = "gone"
  BY <1>1
<1>3. /\ DOMAIN report' \subseteq DOMAIN report \cup {attempts}
      /\ attempts \in DOMAIN report' \cup {0}
      /\ pc # "idle" => attempts \in 1 .. attempts
      /\ pc = "idle" => report' = report
  BY <1>1 DEF IInv, Shape, OneAtATime, Put
<1>4. Shape'
  BY <1>1, <1>2, <1>3 DEF IInv, Shape
<1>5. OneAtATime' /\ CleanSidecars' /\ ReportsOwnSidecar'
  BY <1>1, <1>3 DEF IInv, OneAtATime, CleanSidecars, ReportsOwnSidecar
<1>6. FilesInPlace' /\ OneWriter'
  BY <1>1, <1>2 DEF IInv, FilesInPlace, OneWriter, Running
<1> QED BY <1>4, <1>5, <1>6 DEF IInv

-----------------------------------------------------------------------------
(* The child.                                                              *)

LEMMA CommitInv ==
  ASSUME IInv, NEW a \in DOMAIN child, Commit(a)
  PROVE  IInv'
<1>1. /\ child[a] \in {"encode", "dying"} /\ a \notin DOMAIN committed
      /\ committed' = Put(committed, a, lsn[a])
      /\ child' = IF child[a] = "dying" THEN child ELSE Put(child, a, "renamed")
      /\ UNCHANGED <<nextEvent, pc, attempts, candidate, lsn, next, stats, errors, report, told>>
  BY DEF Commit, Moves, OnlyChild, took
<1>2. /\ DOMAIN child' = DOMAIN child
      /\ \A b \in DOMAIN child : b # a => child'[b] = child[b]
      /\ child'[a] = "dying" \/ (child[a] = "encode" /\ child'[a] = "renamed")
  BY <1>1 DEF Put
<1>3. /\ DOMAIN committed' = DOMAIN committed \cup {a} /\ committed'[a] = lsn[a]
      /\ \A b \in DOMAIN committed : committed'[b] = committed[b]
  BY <1>1 DEF Put
<1>4. Shape'
  BY <1>1, <1>2, <1>3 DEF IInv, Shape
<1>5. FilesInPlace'
  BY <1>1, <1>2, <1>3 DEF IInv, FilesInPlace
<1>6. OneAtATime' /\ CleanSidecars' /\ ReportsOwnSidecar' /\ OneWriter'
  BY <1>1, <1>2 DEF IInv, OneAtATime, CleanSidecars, ReportsOwnSidecar, OneWriter,
                    Running, SnapshotLsn
<1> QED BY <1>4, <1>5, <1>6 DEF IInv

(* The other steps of a child move it on and write at most the sidecar of  *)
(* its own LSN.                                                            *)
LEMMA MovesInv ==
  ASSUME IInv, NEW a \in DOMAIN child, NEW to, Moves(a, to), OnlyChild,
         UNCHANGED committed,
         Running(to) => Running(child[a]),
         to \in {"renamed", "statsDone", "exit0"}
           => child[a] \in {"renamed", "statsDone", "exit0"},
         \/ stats' = stats
         \/ stats' = Put(stats, lsn[a], a) /\ Running(child[a]),
         \/ errors' = errors
         \/ errors' = Put(errors, lsn[a], a) /\ Running(child[a])
  PROVE  IInv'
<1>1. /\ DOMAIN child' = DOMAIN child /\ child'[a] = to
      /\ \A b \in DOMAIN child : b # a => child'[b] = child[b]
      /\ UNCHANGED <<nextEvent, pc, attempts, candidate, lsn, next, report, told>>
  BY DEF Moves, OnlyChild, took, Put
<1>2. Shape' /\ OneAtATime' /\ FilesInPlace' /\ ReportsOwnSidecar'
  BY <1>1 DEF IInv, Shape, OneAtATime, FilesInPlace, ReportsOwnSidecar
<1>3. OneWriter'
  BY <1>1 DEF IInv, OneWriter
<1>4. CleanSidecars'
  <2>1. CASE stats' = stats /\ errors' = errors
    BY <1>1, <2>1 DEF IInv, CleanSidecars, SnapshotLsn
  <2>2. CASE Running(child[a])
    <3>1. a = attempts /\ pc = "wait"
      BY <2>2 DEF IInv, OneWriter
    <3>2. lsn[a] \in DOMAIN stats' => stats'[lsn[a]] = a
      BY <3>1 DEF IInv, CleanSidecars, Put
    <3>3. lsn[a] \in DOMAIN errors' => errors'[lsn[a]] = a
      BY <3>1 DEF IInv, CleanSidecars, Put
    <3> QED BY <1>1, <3>1, <3>2, <3>3 DEF CleanSidecars
  <2> QED BY <2>1, <2>2
<1> QED BY <1>2, <1>3, <1>4 DEF IInv

LEMMA ChildStepInv ==
  ASSUME IInv, NEW a \in DOMAIN child, ChildStep(a)
  PROVE  IInv'
<1> USE DEF Running
<1>1. CASE Commit(a)
  BY <1>1, CommitInv
<1>2. CASE WriteStats(a)
  BY <1>2, MovesInv DEF WriteStats, StatsDue
<1>3. CASE Exit0(a)
  BY <1>3, MovesInv DEF Exit0
<1>4. CASE WriteError(a)
  BY <1>4, MovesInv DEF WriteError
<1>5. CASE Exit1(a)
  BY <1>5, MovesInv DEF Exit1
<1>6. CASE Die(a)
  BY <1>6, MovesInv DEF Die
<1> QED BY <1>1, <1>2, <1>3, <1>4, <1>5, <1>6 DEF ChildStep

LEMMA NextInv == IInv /\ [TaskNext]_taskVars => IInv'
<1> SUFFICES ASSUME IInv, [TaskNext]_taskVars PROVE IInv'
  OBVIOUS
<1>1. CASE UNCHANGED taskVars
  BY <1>1 DEF taskVars, took, IInv, Shape, OneAtATime, FilesInPlace, OneWriter, CleanSidecars,
              ReportsOwnSidecar, SnapshotLsn
<1>2. CASE TaskNext
  BY <1>2, ApplyInv, BeginInv, PickCandidateInv, LockTablesInv, ForkInv, ForkFailedInv,
     ReapInv, KillInv, ReapKilledInv, GraceOverInv, RestartInv, ChildStepInv DEF TaskNext
<1> QED BY <1>1, <1>2

LEMMA SpecInv == TaskSpec => []IInv
  BY InitInv, NextInv, PTL DEF TaskSpec

-----------------------------------------------------------------------------
(* Every step is a step of SnapshotPromise or one it does not see.         *)

LEMMA FinishReports ==
  ASSUME IInv, pc # "idle", NEW result \in Promise!Results, Finish(result),
         UNCHANGED <<attempts, committed>>,
         result.kind = "ok" => attempts \in DOMAIN committed /\ committed[attempts] = result.lsn
  PROVE  Promise!Next
<1>1. attempts > 0 /\ attempts \notin DOMAIN report
  BY DEF IInv, OneAtATime
<1>2. report' = Promise!Extended(report, attempts, result)
  BY DEF Finish, Put, Promise!Extended
<1>3. Promise!Report(result)
  BY <1>1, <1>2 DEF Promise!Report
<1> QED BY <1>3 DEF Promise!Next

LEMMA StepKeepsPromise == IInv /\ [TaskNext]_taskVars => [Promise!Next]_Promise!pvars
<1> SUFFICES ASSUME IInv, [TaskNext]_taskVars PROVE [Promise!Next]_Promise!pvars
  OBVIOUS
<1>1. ASSUME UNCHANGED <<attempts, committed, report>> PROVE [Promise!Next]_Promise!pvars
  BY <1>1 DEF Promise!pvars
<1>2. CASE Begin
  BY <1>2 DEF Begin, IInv, OneAtATime, Promise!Next, Promise!Begin
<1>3. Failed \in Promise!Results /\ Failed.kind # "ok"
  BY DEF Failed, Promise!Results
<1>4. CASE ForkFailed \/ ReapKilled \/ WaitFailed \/ GraceOver
  <2>1. Finish(Failed) /\ pc # "idle" /\ UNCHANGED <<attempts, committed>>
    BY <1>4 DEF ForkFailed, ReapKilled, WaitFailed, GraceOver
  <2> QED BY <1>3, <2>1, FinishReports
<1>5. CASE Reap
  <2>1. pc = "wait" /\ UNCHANGED <<attempts, committed>>
    BY <1>5 DEF Reap
  <2>2. CASE Finish(Failed)
    BY <1>3, <2>1, <2>2, FinishReports
  <2>3. CASE Current = "exit0" /\ Finish([kind |-> "ok", lsn |-> lsn[attempts]])
    <3>1. attempts \in DOMAIN child
      BY <2>1 DEF IInv, OneAtATime
    <3>2. /\ lsn[attempts] \in Lsns
          /\ attempts \in DOMAIN committed /\ committed[attempts] = lsn[attempts]
      BY <2>3, <3>1 DEF IInv, Shape, FilesInPlace, Current
    <3>3. [kind |-> "ok", lsn |-> lsn[attempts]] \in Promise!Results
      BY <3>2 DEF Promise!Results, Lsns
    <3> QED BY <2>1, <2>3, <3>2, <3>3, FinishReports
  <2> QED BY <1>5, <2>2, <2>3 DEF Reap, ExitedWell
<1>6. ASSUME NEW r \in 0 .. MaxLsn, Restart(r) PROVE [Promise!Next]_Promise!pvars
  <2>1. CASE pc = "idle"
    BY <1>1, <1>6, <2>1 DEF Restart
  <2>2. CASE pc # "idle"
    BY <1>3, <1>6, <2>2, FinishReports DEF Restart, Finish
  <2> QED BY <2>1, <2>2
<1>7. ASSUME NEW a \in DOMAIN child, Commit(a) PROVE Promise!Next
  <2>1. a \in 1 .. attempts /\ lsn[a] \in Lsns
    BY DEF IInv, Shape
  <2>2. Promise!Commit(a, lsn[a])
    BY <1>7, <2>1 DEF Commit, OnlyChild, Put, Promise!Commit, Promise!Extended
  <2> QED BY <2>1, <2>2 DEF Promise!Next, Lsns
<1>8. ASSUME \/ ApplyEvent \/ PickCandidate \/ LockTables \/ Fork \/ Kill
             \/ \E a \in DOMAIN child : \/ WriteStats(a) \/ Exit0(a) \/ WriteError(a)
                                        \/ Exit1(a) \/ Die(a)
             \/ UNCHANGED taskVars
      PROVE  UNCHANGED <<attempts, committed, report>>
  BY <1>8 DEF ApplyEvent, PickCandidate, LockTables, Fork, Kill, WriteStats, Exit0, WriteError,
              Exit1, Die, OnlyChild, taskVars
<1> QED BY <1>1, <1>2, <1>4, <1>5, <1>6, <1>7, <1>8 DEF TaskNext, ChildStep

(* However the child fares and whenever it is killed, "ok" is reported of  *)
(* an attempt only when its own file is in place under its own LSN, each   *)
(* attempt is reported once, and no sidecar of an earlier child is taken   *)
(* for an answer of the current one.                                       *)
THEOREM ForkKeepsPromise == TaskSpec => KeepsPromise
<1>1. TaskInit => Promise!Init
  BY DEF TaskInit, Promise!Init
<1>2. IInv => ReportsOwnSidecar
  BY DEF IInv
<1> QED BY <1>1, <1>2, SpecInv, StepKeepsPromise, PTL
  DEF TaskSpec, KeepsPromise, PromiseKept, Promise!Spec

=============================================================================
