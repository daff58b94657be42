--------------------------- MODULE WalSinkProofs ---------------------------
(***************************************************************************)
(* Proofs about WalSink for every segment size, fsync threshold, set of    *)
(* modes and LSN gaps, and for any number of failures and restarts: its    *)
(* invariants, what a clean shutdown keeps, and that it implements         *)
(* AckedLog.  What holds whatever fails is Base; what holds until a        *)
(* failure leaves the files in disorder is IInv.                           *)
(***************************************************************************)
EXTENDS WalSinkRefinement, NaturalLemmas, FiniteSetTheorems

(* The LSNs on disk have an upper bound.                                   *)
Bounded == \E n \in Nat : \A r \in disk : r.lsn <= n

Base ==
  /\ TypeOK /\ IsFiniteSet(disk) /\ Bounded
  /\ DurableIsSynced /\ durable < nextLsn

(* LSNs only grow while the process lives: every record on disk is below   *)
(* next_lsn, and the open segment is the last one.                         *)
LsnOrder ==
  /\ \A r \in disk : r.lsn < nextLsn
  /\ startLsn <= nextLsn
  /\ startLsn \in Segments
  /\ \A s \in Segments : s <= startLsn

(* What waits for an fsync is in the open segment.                         *)
InFlight ==
  Running => \A l \in pending : [seg |-> startLsn, lsn |-> l] \in disk

(* Nothing waits for an fsync while a rotation or the final close runs.    *)
BatchDone == pc \in {"rotate", "close"} => pending = {} /\ staged = 0

(* No segment starts past what a boot would recover, so that the segment a *)
(* boot opens is the last one again.                                       *)
SegmentsRecoverable ==
  \A s \in Segments : s - 1 <= floor \/ \E r \in synced : s - 1 <= r.lsn

(* A truncation in the control channel is for a snapshot that is durable.  *)
Covered ==
  /\ covered <= floor
  /\ ctrl.op = "truncate" => ctrl.lsn <= covered

(* Every header is whole, and a torn record is the last of its segment.    *)
Clean ==
  /\ short = {} /\ behind = {} /\ torn \subseteq Segments
  /\ Running => startLsn \notin torn

IInv ==
  /\ Base /\ Partitioned /\ AckedKept
  /\ LsnOrder /\ InFlight /\ BatchDone /\ SegmentsRecoverable /\ Covered /\ Clean

LEMMA IInvTypes == IInv => TypeOK
BY DEF IInv, Base

(* Recovery ends at the highest LSN it reads or at f if that is higher.    *)
LEMMA RecoveredIsLast ==
  ASSUME Base, NEW seen \in SUBSET disk, NEW f \in Nat
  PROVE  /\ Recovered(seen, f) \in Nat /\ f <= Recovered(seen, f)
         /\ \A r \in seen : r.lsn <= Recovered(seen, f)
         /\ Recovered(seen, f) = f \/ \E r \in seen : r.lsn = Recovered(seen, f)
<1> USE DEF Base, TypeOK, RecordSet
<1> DEFINE lsns == {r.lsn : r \in seen}
<1>1. CASE \E r \in seen : r.lsn > f
  <2>1. lsns \in SUBSET Nat /\ lsns # {}
    BY <1>1
  <2>2. PICK b \in Nat : \A l \in lsns : l <= b
    BY DEF Bounded
  <2>3. PICK n \in lsns : \A l \in lsns : l <= n
    <3> HIDE DEF lsns
    <3> QED BY <2>1, <2>2, GreatestNatural
  <2>4. \A r \in seen : r.lsn <= n
    BY <2>3
  <2>5. Recovered(seen, f) \in lsns /\ \A r \in seen : r.lsn <= Recovered(seen, f)
    BY <1>1, <2>4 DEF Recovered
  <2> QED BY <1>1, <2>1, <2>5
<1>2. CASE ~ \E r \in seen : r.lsn > f
  BY <1>2 DEF Recovered
<1> QED BY <1>1, <1>2

(* A boot reads records that are on disk, and all of them if the files are *)
(* clean.                                                                  *)
LEMMA ReadingsOnDisk ==
  ASSUME NEW seen \in Readings
  PROVE  seen \in SUBSET disk /\ (Clean => seen = disk)
BY DEF Readings, Clean

-----------------------------------------------------------------------------
(* What holds whatever fails.                                              *)

LEMMA InitBase == Init => Base
<1> SUFFICES ASSUME Init PROVE Base
  OBVIOUS
<1>1. Segments = {1} /\ segs[1] = 0
  BY DEF Init, Segments
<1>2. TypeOK
  BY <1>1 DEF Init, TypeOK, Messages, NoMsg
<1>3. IsFiniteSet(disk) /\ Bounded
  BY FS_EmptySet DEF Init, Bounded
<1>4. DurableIsSynced /\ durable < nextLsn
  BY DEF Init, DurableIsSynced
<1> QED BY <1>2, <1>3, <1>4 DEF Base

(* A step that leaves the records, what is fsynced and the durable LSN     *)
(* alone.                                                                  *)
LEMMA BaseKept ==
  ASSUME Base, TypeOK', UNCHANGED <<disk, synced, durable>>, nextLsn' >= nextLsn,
         Running' => Running
  PROVE  Base'
<1>1. IsFiniteSet(disk') /\ Bounded'
  BY DEF Base, Bounded
<1>2. DurableIsSynced'
  BY DEF Base, DurableIsSynced
<1>3. durable' < nextLsn'
  BY DEF Base, TypeOK
<1> QED BY <1>1, <1>2, <1>3 DEF Base

LEMMA TruncateBase == ASSUME Base, Truncate PROVE Base'
<1> USE DEF envVars, ackVars
<1> DEFINE gone == Obsolete(ctrl.lsn)
<1>1. /\ disk' = {r \in disk : r.seg \notin gone}
      /\ synced' = {r \in synced : r.seg \notin gone}
      /\ DOMAIN segs' = Segments \ gone
      /\ \A s \in Segments \ gone : segs'[s] = segs[s]
      /\ ctrl' = NoMsg /\ pc' \in {"fsync", "select"} /\ Running
      /\ trimmed' = trimmed + Cardinality({r \in disk : r.seg \in gone})
      /\ torn' = torn \ gone /\ short' = short \ gone
      /\ behind' = {r \in behind : r.seg \notin gone}
      /\ UNCHANGED <<inbox, pending, staged, nextLsn, startLsn, durable, disorder,
                     bootRv, covered, floor, fails, restarts, strict, loose>>
  BY DEF Truncate, AfterSelect, Running
<1> HIDE DEF gone
<1>2. IsFiniteSet(disk') /\ Cardinality({r \in disk : r.seg \in gone}) \in Nat
  <2>1. IsFiniteSet({r \in disk : r.seg \in gone}) /\ IsFiniteSet(disk')
    <3>1. disk' \subseteq disk /\ {r \in disk : r.seg \in gone} \subseteq disk
      BY <1>1
    <3> QED BY <3>1, FS_Subset DEF Base
  <2> QED BY <2>1, FS_CardinalityType
<1>3. TypeOK'
  <2>1. Segments' \subseteq Nat /\ \A s \in Segments' : segs'[s] \in Nat
    BY <1>1 DEF Base, TypeOK, Segments
  <2>2. ctrl' \in Messages
    BY <1>1 DEF Messages
  <2>3. trimmed' \in Nat
    BY <1>1, <1>2 DEF Base, TypeOK
  <2>4. /\ disk' \in SUBSET RecordSet /\ synced' \in SUBSET disk'
        /\ torn' \in SUBSET Nat /\ short' \in SUBSET Nat /\ behind' \in SUBSET RecordSet
    BY <1>1 DEF Base, TypeOK
  <2> QED BY <1>1, <2>1, <2>2, <2>3, <2>4 DEF Base, TypeOK
<1>4. Bounded' /\ durable' < nextLsn'
  BY <1>1 DEF Base, Bounded
<1>5. DurableIsSynced'
  BY <1>1 DEF Base, DurableIsSynced
<1> QED BY <1>2, <1>3, <1>4, <1>5 DEF Base

LEMMA StageBase == ASSUME Base, Stage PROVE Base'
<1> USE DEF envVars
<1> DEFINE req == Head(inbox)
           lsn == Larger(nextLsn, req.min)
           new == [seg |-> startLsn, lsn |-> lsn]
<1>1. req \in Requests /\ inbox' \in Seq(Requests)
  BY DEF Stage, Base, TypeOK
<1>2. lsn \in Nat /\ nextLsn <= lsn /\ new \in RecordSet
  BY <1>1 DEF Base, TypeOK, Larger, Requests, RecordSet
<1>3. /\ nextLsn' = lsn + 1 /\ disk' = disk \cup {new}
      /\ pending' \subseteq pending \cup {lsn}
      /\ loose' \subseteq loose \cup {lsn}
      /\ behind' \subseteq behind \cup {new}
      /\ staged' = staged + 1 /\ pc' \in {"fsync", "select"} /\ Running
      /\ UNCHANGED <<ctrl, startLsn, durable, segs, synced, torn, short, disorder,
                     bootRv, covered, floor, trimmed, fails, restarts, strict>>
  BY DEF Stage, AfterSelect, Running
<1>4. new.lsn = lsn
  OBVIOUS
<1> HIDE DEF req, lsn, new
<1>5. TypeOK'
  BY <1>1, <1>2, <1>3 DEF Base, TypeOK, Segments
<1>6. IsFiniteSet(disk')
  BY <1>3, FS_AddElement DEF Base
<1>7. Bounded'
  <2>1. PICK n \in Nat : \A r \in disk : r.lsn <= n
    BY DEF Base, Bounded
  <2>2. \A r \in disk : r.lsn \in Nat
    BY DEF Base, TypeOK, RecordSet
  <2>3. n + lsn \in Nat /\ \A r \in disk' : r.lsn <= n + lsn
    BY <1>2, <1>3, <1>4, <2>1, <2>2
  <2> QED BY <2>3 DEF Bounded
<1>8. DurableIsSynced' /\ durable' < nextLsn'
  <2>1. ~(lsn <= durable) /\ durable < lsn + 1
    BY <1>2 DEF Base, TypeOK
  <2> QED BY <1>3, <1>4, <2>1 DEF Base, DurableIsSynced
<1> QED BY <1>5, <1>6, <1>7, <1>8 DEF Base

LEMMA CrashBase == ASSUME Base, NEW k \in Nat, Crash(k) PROVE Base'
<1>1. /\ disk' = {r \in disk : r \in synced \/ r.lsn <= k} /\ synced' = disk'
      /\ torn' \subseteq torn \cup {startLsn} /\ loose' \subseteq loose
      /\ short' \subseteq short \cup {nextLsn} /\ behind' \subseteq behind
      /\ segs' = segs \/ segs' = AddSegment(nextLsn, bootRv)
      /\ disorder' \in {disorder, disorder \cup {"leftover"}}
      /\ restarts' = restarts + 1 /\ pc' = "down" /\ inbox' = <<>> /\ ctrl' = NoMsg
      /\ pending' = {} /\ staged' = 0
      /\ UNCHANGED <<nextLsn, startLsn, durable, bootRv, covered, floor,
                     trimmed, fails, strict>>
  BY DEF Crash
<1>2. disk' \subseteq disk
  BY <1>1
<1>3. TypeOK'
  <2>1. inbox' \in Seq(Requests) /\ ctrl' \in Messages
    BY <1>1 DEF Messages
  <2>2. Segments' \subseteq Nat /\ \A s \in Segments' : segs'[s] \in Nat
    BY <1>1 DEF Base, TypeOK, Segments, AddSegment
  <2> QED BY <1>1, <1>2, <2>1, <2>2 DEF Base, TypeOK
<1>4. IsFiniteSet(disk') /\ Bounded'
  BY <1>2, FS_Subset DEF Base, Bounded
<1>5. DurableIsSynced' /\ durable' < nextLsn'
  BY <1>1 DEF Base, DurableIsSynced
<1> QED BY <1>3, <1>4, <1>5 DEF Base

LEMMA BootBase ==
  ASSUME Base, NEW seen \in Readings, NEW f \in Nat, Boot(seen, f)
  PROVE  Base'
<1> USE DEF ackVars
<1> DEFINE first == FirstLsn(seen, f)
           rv == RecoveredRv(seen)
<1>1. first \in Nat \ {0}
  BY ReadingsOnDisk, RecoveredIsLast DEF FirstLsn
<1>2. rv \in Nat
  <2>1. IsFiniteSet({r \in disk : r \in seen \/ r.lsn <= covered})
    BY FS_Subset DEF Base
  <2> QED BY <2>1, FS_CardinalityType DEF Base, TypeOK, RecoveredRv
<1>3. /\ floor' = f /\ synced' = disk /\ pending' = {} /\ staged' = 0
      /\ UNCHANGED <<inbox, ctrl, disk, torn, short, behind, disorder, covered,
                     trimmed, fails, restarts, strict, loose>>
  BY DEF Boot
<1>4. \/ /\ segs' = AddSegment(first, rv) /\ pc' = "select"
         /\ nextLsn' = first /\ startLsn' = first /\ durable' = first - 1
         /\ bootRv' = rv
      \/ pc' = "refused" /\ UNCHANGED <<segs, nextLsn, startLsn, durable, bootRv>>
  BY DEF Boot
<1> HIDE DEF first, rv
<1>5. TypeOK'
  <2>1. CASE pc' = "refused" /\ UNCHANGED <<segs, nextLsn, startLsn, durable, bootRv>>
    BY <1>3, <2>1 DEF Base, TypeOK, Segments
  <2>2. CASE /\ segs' = AddSegment(first, rv) /\ pc' = "select"
             /\ nextLsn' = first /\ startLsn' = first /\ durable' = first - 1
             /\ bootRv' = rv
    <3>1. Segments' \subseteq Nat /\ \A s \in Segments' : segs'[s] \in Nat
      BY <1>1, <1>2, <2>2 DEF Base, TypeOK, Segments, AddSegment
    <3>2. first \in Nat \ {0} /\ first - 1 \in Nat
      BY <1>1
    <3> QED BY <1>2, <1>3, <2>2, <3>1, <3>2 DEF Base, TypeOK
  <2> QED BY <1>4, <2>1, <2>2
<1>6. IsFiniteSet(disk') /\ Bounded' /\ DurableIsSynced'
  BY <1>3 DEF Base, Bounded, DurableIsSynced
<1>7. durable' < nextLsn'
  BY <1>1, <1>4 DEF Base
<1> QED BY <1>5, <1>6, <1>7 DEF Base

LEMMA NextBase == Base /\ [Next]_vars => Base'
<1> SUFFICES ASSUME Base, [Next]_vars PROVE Base'
  OBVIOUS
<1> USE DEF envVars, diskVars, ackVars
<1>1. ASSUME NEW m \in Modes, NEW g \in Gaps, Submit(m, g) PROVE Base'
  <2>1. TypeOK'
    BY <1>1, ConstAssumption DEF Base, TypeOK, Segments, Submit, Requests, Larger
  <2>2. UNCHANGED <<disk, synced, durable>> /\ nextLsn' >= nextLsn /\ (Running' => Running)
    BY <1>1 DEF Base, TypeOK, Submit, Running
  <2> QED BY <2>2, <2>1, BaseKept
<1>2. ASSUME NEW c \in covered + 1 .. nextLsn, NEW g \in Gaps, RequestTruncate(c + g)
      PROVE  Base'
  <2>1. TypeOK'
    BY <1>2, ConstAssumption DEF Base, TypeOK, Segments, RequestTruncate, Messages, Larger
  <2>2. UNCHANGED <<disk, synced, durable>> /\ nextLsn' >= nextLsn /\ (Running' => Running)
    BY <1>2 DEF Base, TypeOK, RequestTruncate, Running
  <2> QED BY <2>2, <2>1, BaseKept
<1>3. CASE RequestShutdown
  <2>1. TypeOK'
    BY <1>3 DEF Base, TypeOK, Segments, RequestShutdown, Messages
  <2>2. UNCHANGED <<disk, synced, durable>> /\ nextLsn' >= nextLsn /\ (Running' => Running)
    BY <1>3 DEF Base, TypeOK, RequestShutdown, Running
  <2> QED BY <2>2, <2>1, BaseKept
<1>4. CASE Tick \/ TakeShutdown \/ FsyncNothing
  <2>1. TypeOK'
    BY <1>4 DEF Base, TypeOK, Segments, Tick, TakeShutdown, FsyncNothing,
                AfterSelect, AfterBatch
  <2>2. UNCHANGED <<disk, synced, durable>> /\ nextLsn' >= nextLsn /\ (Running' => Running)
    BY <1>4 DEF Base, TypeOK, Tick, TakeShutdown, FsyncNothing, Running
  <2> QED BY <2>2, <2>1, BaseKept
<1>5. CASE StageErr
  <2> DEFINE lsn == Larger(nextLsn, Head(inbox).min)
  <2>1. Head(inbox) \in Requests /\ inbox' \in Seq(Requests)
    BY <1>5 DEF StageErr, Base, TypeOK
  <2>2. lsn \in Nat /\ lsn >= nextLsn
    BY <2>1 DEF Base, TypeOK, Requests, Larger
  <2>3. /\ nextLsn' = lsn + 1 /\ fails' = fails + 1 /\ pc' \in {"fsync", "select"}
        /\ torn' \subseteq torn \cup {startLsn}
        /\ disorder' \subseteq disorder \cup {"partial"} /\ Running
        /\ UNCHANGED <<ctrl, pending, staged, startLsn, durable, segs, disk, synced,
                       short, behind, bootRv, covered, floor, trimmed, restarts,
                       strict, loose>>
    BY <1>5 DEF StageErr, AfterSelect, Running
  <2> HIDE DEF lsn
  <2>4. TypeOK'
    BY <2>1, <2>2, <2>3 DEF Base, TypeOK, Segments
  <2>5. nextLsn' >= nextLsn
    BY <2>2, <2>3 DEF Base, TypeOK
  <2> QED BY <2>3, <2>4, <2>5, BaseKept
<1>6. CASE FsyncErr
  <2>1. TypeOK'
    BY <1>6 DEF Base, TypeOK, Segments, FsyncErr, AfterBatch
  <2>2. UNCHANGED <<disk, synced, durable>> /\ nextLsn' >= nextLsn /\ (Running' => Running)
    BY <1>6 DEF Base, TypeOK, FsyncErr, Running
  <2> QED BY <2>2, <2>1, BaseKept
<1>7. CASE FsyncOk
  <2>1. TypeOK'
    BY <1>7 DEF Base, TypeOK, Segments, FsyncOk, AfterBatch, LastAssigned
  <2>2. /\ disk' = disk /\ synced' = disk /\ nextLsn' = nextLsn
        /\ durable' = nextLsn - 1
    BY <1>7 DEF FsyncOk, LastAssigned
  <2>3. Bounded' /\ IsFiniteSet(disk')
    BY <2>2 DEF Base, Bounded
  <2>4. DurableIsSynced' /\ durable' < nextLsn'
    BY <2>2 DEF Base, TypeOK, DurableIsSynced
  <2> QED BY <2>1, <2>3, <2>4 DEF Base
<1>8. CASE RotateOk
  <2>1. Segments' \subseteq Nat /\ \A s \in Segments' : segs'[s] \in Nat
    BY <1>8 DEF Base, TypeOK, Segments, RotateOk, AddSegment
  <2>2. TypeOK'
    BY <1>8, <2>1 DEF Base, TypeOK, RotateOk, AfterBatch
  <2>3. UNCHANGED <<disk, synced, durable>> /\ nextLsn' >= nextLsn /\ (Running' => Running)
    BY <1>8 DEF Base, TypeOK, RotateOk, Running
  <2> QED BY <2>3, <2>2, BaseKept
<1>9. CASE RotateErr
  <2>1. Segments' \subseteq Nat /\ \A s \in Segments' : segs'[s] \in Nat
    BY <1>9 DEF Base, TypeOK, Segments, RotateErr, AddSegment
  <2>2. /\ fails' \in Nat /\ short' \in SUBSET Nat
        /\ disorder' \subseteq {"leftover", "partial", "ahead"}
    <3>1. fails' \in Nat /\ disorder' \subseteq disorder \cup {"leftover"}
      BY <1>9 DEF Base, TypeOK, RotateErr
    <3>2. short' \subseteq short \cup {nextLsn}
      BY <1>9 DEF RotateErr
    <3> QED BY <3>1, <3>2 DEF Base, TypeOK
  <2>3. TypeOK'
    BY <1>9, <2>1, <2>2 DEF Base, TypeOK, RotateErr, AfterBatch
  <2>4. UNCHANGED <<disk, synced, durable>> /\ nextLsn' >= nextLsn /\ (Running' => Running)
    BY <1>9 DEF Base, TypeOK, RotateErr, Running
  <2> QED BY <2>4, <2>3, BaseKept
<1>10. CASE Close
  <2>1. /\ synced' = disk \/ synced' = synced
        /\ fails' \in Nat /\ pc' = "down" /\ inbox' = <<>> /\ ctrl' = NoMsg
        /\ UNCHANGED <<pending, staged, nextLsn, startLsn, durable, segs, disk, torn,
                       short, behind, disorder, bootRv, covered, floor, trimmed,
                       restarts, strict, loose>>
    BY <1>10 DEF Close, Base, TypeOK
  <2>2. TypeOK'
    <3>1. inbox' \in Seq(Requests) /\ ctrl' \in Messages
      BY <2>1 DEF Messages
    <3> QED BY <2>1, <3>1 DEF Base, TypeOK, Segments
  <2> QED BY <2>1, <2>2 DEF Base, Bounded, DurableIsSynced, Running
<1>11. ASSUME NEW k \in 0 .. MaxLsn, Crash(k) PROVE Base'
  BY <1>11, CrashBase, ConstAssumption
<1>12. ASSUME NEW seen \in Readings, NEW f \in floor .. Larger(floor, nextLsn - 1),
              Boot(seen, f)
       PROVE  Base'
  <2>1. f \in Nat
    BY <1>12 DEF Base, TypeOK, Larger
  <2> QED BY <1>12, <2>1, BootBase
<1>13. CASE Refused \/ UNCHANGED vars
  <2>1. UNCHANGED vars
    BY <1>13 DEF Refused
  <2>2. TypeOK'
    BY <2>1 DEF vars, workerVars, Base, TypeOK, Segments
  <2>3. UNCHANGED <<disk, synced, durable>> /\ nextLsn' >= nextLsn /\ (Running' => Running)
    BY <2>1 DEF Base, TypeOK, vars, workerVars, Running
  <2> QED BY <2>3, <2>2, BaseKept
<1> QED BY <1>1, <1>2, <1>3, <1>4, <1>5, <1>6, <1>7, <1>8, <1>9, <1>10, <1>11, <1>12,
           <1>13, TruncateBase, StageBase DEF Next, WorkerStep

-----------------------------------------------------------------------------
(* What holds until the files are in disorder.                             *)

(* Disorder is never undone.                                               *)
LEMMA DisorderStays == [Next]_vars /\ InOrder' => InOrder
<1> SUFFICES ASSUME [Next]_vars PROVE disorder \subseteq disorder'
  BY DEF InOrder
<1> QED
  BY DEF Next, WorkerStep, Submit, RequestTruncate, RequestShutdown,
         Truncate, Stage, StageErr, Tick, TakeShutdown, FsyncNothing, FsyncOk, FsyncErr,
         RotateOk, RotateErr, Close, Crash, Boot, Refused, vars, diskVars

(* The records a truncation deletes are all below the LSN it was asked     *)
(* for.                                                                    *)
LEMMA ObsoleteBelow ==
  ASSUME IInv, NEW c \in Nat, NEW r \in disk, r.seg \in Obsolete(c)
  PROVE  r.lsn < c
<1> USE DEF IInv, Base, TypeOK, RecordSet
<1>1. PICK n \in Segments : n > r.seg /\ n <= c
  BY DEF Obsolete
<1>2. r.lsn < n
  BY <1>1 DEF Partitioned
<1> QED BY <1>1, <1>2

LEMMA InitInv == Init => IInv
<1> SUFFICES ASSUME Init PROVE IInv
  OBVIOUS
<1>1. Segments = {1} /\ segs[1] = 0
  BY DEF Init, Segments
<1>2. Partitioned /\ AckedKept
  BY <1>1 DEF Init, Partitioned, AckedKept
<1>3. LsnOrder /\ SegmentsRecoverable
  BY <1>1 DEF Init, LsnOrder, SegmentsRecoverable
<1>4. InFlight /\ BatchDone /\ Covered /\ Clean
  BY <1>1 DEF Init, InFlight, BatchDone, Covered, Clean, NoMsg
<1> QED BY <1>2, <1>3, <1>4, InitBase DEF IInv

(* A step that touches neither the files nor the acknowledgements.         *)
LEMMA FilesKept ==
  ASSUME IInv, Base', UNCHANGED <<disk, synced, segs, torn, short, behind>>,
         UNCHANGED <<strict, startLsn>>,
         covered' >= covered, floor' >= floor, nextLsn' >= nextLsn,
         Running' => Running, pending' \subseteq pending, BatchDone', Covered'
  PROVE  IInv'
<1>0. /\ covered \in Nat /\ covered' \in Nat /\ floor \in Nat /\ floor' \in Nat
      /\ nextLsn \in Nat /\ nextLsn' \in Nat /\ startLsn \in Nat
      /\ strict \in SUBSET Nat /\ Segments \in SUBSET Nat
      /\ \A r \in disk : r.lsn \in Nat
  BY DEF IInv, Base, TypeOK, RecordSet
<1>1. Partitioned'
  BY DEF IInv, Partitioned, Segments
<1>2. AckedKept'
  BY <1>0 DEF IInv, AckedKept
<1>3. SegmentsRecoverable'
  BY <1>0 DEF IInv, Segments, SegmentsRecoverable
<1>4. LsnOrder'
  BY <1>0 DEF IInv, Segments, LsnOrder
<1>5. InFlight'
  BY DEF IInv, InFlight
<1>6. Clean'
  BY DEF IInv, Clean, Segments
<1> QED BY <1>1, <1>2, <1>3, <1>4, <1>5, <1>6 DEF IInv

LEMMA SubmitInv ==
  ASSUME IInv, Base', NEW m \in Modes, NEW g \in Gaps, Submit(m, g)
  PROVE  IInv'
<1>1. BatchDone' /\ Covered'
  BY DEF IInv, BatchDone, Covered, Submit, envVars
<1>2. /\ UNCHANGED <<disk, synced, segs, torn, short, behind>> /\ UNCHANGED <<strict, startLsn>>
      /\ covered' >= covered /\ floor' >= floor /\ nextLsn' >= nextLsn
      /\ (Running' => Running) /\ pending' \subseteq pending
  BY DEF IInv, Base, TypeOK, Submit, Running, diskVars, envVars, ackVars
<1> QED BY <1>1, <1>2, FilesKept

LEMMA RequestTruncateInv ==
  ASSUME IInv, Base', NEW c \in Nat, c > covered, RequestTruncate(c)
  PROVE  IInv'
<1>1. BatchDone' /\ Covered'
  BY DEF IInv, Base, TypeOK, BatchDone, Covered, RequestTruncate, Larger
<1>2. /\ UNCHANGED <<disk, synced, segs, torn, short, behind>> /\ UNCHANGED <<strict, startLsn>>
      /\ covered' >= covered /\ floor' >= floor /\ nextLsn' >= nextLsn
      /\ (Running' => Running) /\ pending' \subseteq pending
  BY DEF IInv, Base, TypeOK, RequestTruncate, Running, Larger, diskVars, ackVars
<1> QED BY <1>1, <1>2, FilesKept

LEMMA RequestShutdownInv ==
  ASSUME IInv, Base', RequestShutdown
  PROVE  IInv'
<1>1. BatchDone' /\ Covered'
  BY DEF IInv, BatchDone, Covered, RequestShutdown
<1>2. /\ UNCHANGED <<disk, synced, segs, torn, short, behind>> /\ UNCHANGED <<strict, startLsn>>
      /\ covered' >= covered /\ floor' >= floor /\ nextLsn' >= nextLsn
      /\ (Running' => Running) /\ pending' \subseteq pending
  BY DEF IInv, Base, TypeOK, RequestShutdown, Running, diskVars, ackVars
<1> QED BY <1>1, <1>2, FilesKept

(* The steps of the worker that leave the files alone.                     *)
LEMMA WorkerQuietInv ==
  ASSUME IInv, Base', Tick \/ TakeShutdown \/ FsyncNothing \/ FsyncErr
  PROVE  IInv'
<1> USE DEF diskVars, envVars, ackVars
<1>1. BatchDone' /\ Covered'
  BY DEF IInv, BatchDone, Covered, Tick, TakeShutdown, FsyncNothing, FsyncErr,
         AfterSelect, AfterBatch
<1>2. /\ UNCHANGED <<disk, synced, segs, torn, short, behind>>
      /\ UNCHANGED <<strict, startLsn, covered, floor, nextLsn>>
      /\ Running /\ (pending' = pending \/ pending' = {})
  BY DEF Tick, TakeShutdown, FsyncNothing, FsyncErr, Running
<1>3. covered' >= covered /\ floor' >= floor /\ nextLsn' >= nextLsn
  BY <1>2 DEF IInv, Base, TypeOK
<1>4. pending' \subseteq pending
  BY <1>2
<1> QED BY <1>1, <1>2, <1>3, <1>4, FilesKept

LEMMA StageErrInv ==
  ASSUME IInv, Base', disorder' = {}, StageErr
  PROVE  IInv'
<1> USE DEF ackVars
<1>1. BatchDone' /\ Covered'
  BY DEF IInv, BatchDone, Covered, StageErr, AfterSelect
<1>2. nextLsn' >= nextLsn
  <2>1. Head(inbox) \in Requests
    BY DEF StageErr, IInv, Base, TypeOK
  <2> QED BY <2>1 DEF StageErr, IInv, Base, TypeOK, Requests, Larger
<1>3. /\ UNCHANGED <<disk, synced, segs, torn, short, behind>> /\ UNCHANGED <<strict, startLsn>>
      /\ covered' >= covered /\ floor' >= floor /\ nextLsn' >= nextLsn
      /\ (Running' => Running) /\ pending' \subseteq pending
  BY <1>2 DEF IInv, Base, TypeOK, StageErr, Running
<1> QED BY <1>1, <1>3, FilesKept

LEMMA RotateErrInv ==
  ASSUME IInv, Base', disorder' = {}, RotateErr
  PROVE  IInv'
<1> USE DEF ackVars
<1>1. BatchDone' /\ Covered'
  BY DEF IInv, BatchDone, Covered, RotateErr, AfterBatch
<1>2. /\ UNCHANGED <<disk, synced, segs, torn, short, behind>> /\ UNCHANGED <<strict, startLsn>>
      /\ covered' >= covered /\ floor' >= floor /\ nextLsn' >= nextLsn
      /\ (Running' => Running) /\ pending' \subseteq pending
  BY DEF IInv, Base, TypeOK, RotateErr, Running
<1> QED BY <1>1, <1>2, FilesKept

(* The steps that change the files.                                        *)

LEMMA TruncateInv ==
  ASSUME IInv, Base', Truncate
  PROVE  IInv'
<1> USE DEF envVars, ackVars
<1> DEFINE gone == Obsolete(ctrl.lsn)
<1>1. /\ ctrl.lsn \in Nat /\ ctrl.lsn <= covered /\ covered <= floor
      /\ startLsn \notin gone
  BY DEF IInv, Base, TypeOK, Messages, NoMsg, Truncate, Covered, Obsolete
<1>2. \A r \in disk : r.seg \in gone => r.lsn < ctrl.lsn
  BY <1>1, ObsoleteBelow
<1> HIDE DEF gone
<1>3. /\ disk' = {r \in disk : r.seg \notin gone}
      /\ synced' = {r \in synced : r.seg \notin gone}
      /\ DOMAIN segs' = Segments \ gone
      /\ \A s \in Segments \ gone : segs'[s] = segs[s]
      /\ ctrl' = NoMsg /\ pc' \in {"fsync", "select"}
      /\ torn' = torn \ gone /\ short' = short \ gone
      /\ behind' = {r \in behind : r.seg \notin gone}
      /\ UNCHANGED <<pending, staged, nextLsn, startLsn, covered, floor, strict>>
  BY DEF Truncate, AfterSelect, gone
<1>4. Running /\ pc # "rotate" /\ pc' # "rotate"
  BY <1>3 DEF Truncate, Running
<1>7. Partitioned'
  BY <1>3 DEF IInv, Partitioned, Segments
<1>8. AckedKept'
  BY <1>1, <1>2, <1>3 DEF IInv, Base, TypeOK, RecordSet, AckedKept
<1>10. LsnOrder'
  BY <1>1, <1>3 DEF IInv, LsnOrder, Segments
<1>11. InFlight' /\ BatchDone'
  BY <1>1, <1>3, <1>4 DEF IInv, InFlight, BatchDone
<1>12. SegmentsRecoverable'
  <2> SUFFICES ASSUME NEW s \in Segments \ gone
               PROVE  s - 1 <= floor \/ \E r \in synced' : s - 1 <= r.lsn
    BY <1>3 DEF SegmentsRecoverable, Segments
  <2>1. CASE s - 1 <= floor
    BY <2>1
  <2>2. ASSUME NEW r \in synced, s - 1 <= r.lsn
        PROVE  s - 1 <= floor \/ \E t \in synced' : s - 1 <= t.lsn
    <3>1. CASE r.seg \notin gone
      BY <1>3, <2>2, <3>1
    <3>2. CASE r.seg \in gone
      <4>1. r.lsn \in Nat /\ s \in Nat /\ floor \in Nat /\ covered \in Nat /\ r \in disk
        BY DEF IInv, Base, TypeOK, RecordSet
      <4>2. r.lsn < ctrl.lsn
        BY <1>2, <3>2, <4>1
      <4> QED BY <1>1, <2>2, <4>1, <4>2
    <3> QED BY <3>1, <3>2
  <2> QED BY <2>1, <2>2 DEF IInv, SegmentsRecoverable
<1>13. Covered' /\ Clean'
  BY <1>1, <1>3, <1>4 DEF IInv, Covered, Clean, Segments, NoMsg
<1> QED BY <1>7, <1>8, <1>10, <1>11, <1>12, <1>13 DEF IInv

LEMMA StageInv ==
  ASSUME IInv, Base', Stage
  PROVE  IInv'
<1> USE DEF envVars
<1> DEFINE req == Head(inbox)
           lsn == Larger(nextLsn, req.min)
           new == [seg |-> startLsn, lsn |-> lsn]
<1>1. req \in Requests /\ inbox' \in Seq(Requests)
  BY DEF Stage, IInv, Base, TypeOK
<1>2. lsn \in Nat /\ nextLsn <= lsn /\ new \in RecordSet
  BY <1>1, IInvTypes DEF TypeOK, Larger, Requests, RecordSet
<1>3. /\ nextLsn' = lsn + 1 /\ disk' = disk \cup {new}
      /\ pending' \subseteq pending \cup {lsn} /\ pc' \in {"fsync", "select"}
      /\ startLsn \notin torn => behind' = behind
      /\ UNCHANGED <<ctrl, startLsn, segs, synced, torn, short, covered, floor, strict>>
  BY DEF Stage, AfterSelect
<1>4. Running
  BY DEF Stage, Running
<1> HIDE DEF req, lsn
<1>7. \A r \in disk : r.lsn \in Nat /\ r.lsn < lsn
  BY <1>2, IInvTypes DEF IInv, TypeOK, LsnOrder, RecordSet
<1>8. Partitioned'
  <2>1. startLsn \in Segments /\ startLsn <= lsn /\ \A s \in Segments : s <= startLsn
    BY <1>2 DEF IInv, Base, TypeOK, LsnOrder
  <2>2. \A r1, r2 \in disk' : r1.lsn = r2.lsn => r1 = r2
    BY <1>2, <1>3, <1>7 DEF IInv, Partitioned
  <2>3. \A r \in disk' : /\ r.seg \in Segments /\ r.seg <= r.lsn
                         /\ \A s \in Segments : s > r.seg => r.lsn < s
    BY <1>3, <2>1 DEF IInv, Base, TypeOK, Partitioned
  <2> QED BY <1>3, <2>2, <2>3 DEF Partitioned, Segments
<1>9. AckedKept'
  BY <1>3 DEF IInv, AckedKept
<1>11. LsnOrder'
  <2>1. \A r \in disk' : r.lsn < nextLsn'
    BY <1>2, <1>3, <1>7
  <2>2. startLsn <= nextLsn'
    BY <1>2, <1>3 DEF IInv, Base, TypeOK, LsnOrder
  <2> QED BY <1>3, <2>1, <2>2 DEF IInv, LsnOrder, Segments
<1>12. InFlight'
  BY <1>3, <1>4 DEF IInv, InFlight
<1>13. SegmentsRecoverable'
  BY <1>3 DEF IInv, SegmentsRecoverable, Segments
<1>14. Covered' /\ BatchDone' /\ Clean'
  BY <1>3, <1>4 DEF IInv, Covered, BatchDone, Clean, Segments
<1> QED BY <1>8, <1>9, <1>11, <1>12, <1>13, <1>14 DEF IInv

LEMMA FsyncOkInv ==
  ASSUME IInv, Base', FsyncOk
  PROVE  IInv'
<1> USE DEF envVars
<1>1. /\ synced' = disk /\ strict' = strict \cup pending
      /\ pending' = {} /\ staged' = 0 /\ Running
      /\ UNCHANGED <<ctrl, nextLsn, startLsn, segs, disk, torn, short, behind,
                     covered, floor>>
  BY DEF FsyncOk, Running
<1>2. synced \subseteq disk
  BY DEF IInv, Base, TypeOK
<1>3. Partitioned'
  BY <1>1 DEF IInv, Partitioned, Segments
<1>4. AckedKept'
  <2>1. \A l \in pending : \E r \in disk : r.lsn = l
    BY <1>1 DEF IInv, InFlight
  <2> QED BY <1>1, <1>2, <2>1 DEF IInv, AckedKept
<1>5. LsnOrder'
  BY <1>1 DEF IInv, LsnOrder, Segments
<1>6. InFlight' /\ BatchDone'
  BY <1>1 DEF InFlight, BatchDone
<1>7. SegmentsRecoverable'
  BY <1>1, <1>2 DEF IInv, SegmentsRecoverable, Segments
<1>8. Covered' /\ Clean'
  BY <1>1 DEF IInv, Covered, Clean, Segments
<1> QED BY <1>3, <1>4, <1>5, <1>6, <1>7, <1>8 DEF IInv

LEMMA RotateOkInv ==
  ASSUME IInv, Base', InOrder', RotateOk
  PROVE  IInv'
<1> USE DEF envVars, ackVars
<1>1. /\ Segments' = Segments \cup {nextLsn} /\ startLsn' = nextLsn
      /\ pc' \in {"close", "select"} /\ pc = "rotate"
      /\ UNCHANGED <<ctrl, pending, staged, nextLsn, disk, synced, torn, short, behind,
                     covered, floor, strict>>
  BY DEF RotateOk, AddSegment, AfterBatch, Segments
<1>2. [seg |-> startLsn, lsn |-> nextLsn - 1] \in synced
  BY DEF RotateOk, InOrder, LastIsSynced
<1>3. nextLsn \notin torn
  BY DEF RotateOk, CanOpen, IInv, Clean
<1>4. Partitioned'
  BY <1>1 DEF IInv, Base, TypeOK, RecordSet, LsnOrder, Partitioned
<1>5. AckedKept'
  BY <1>1 DEF IInv, AckedKept
<1>6. LsnOrder'
  BY <1>1 DEF IInv, Base, TypeOK, LsnOrder
<1>7. InFlight' /\ BatchDone'
  BY <1>1 DEF IInv, InFlight, BatchDone
<1>8. SegmentsRecoverable'
  <2>1. \E r \in synced : nextLsn - 1 <= r.lsn
    BY <1>2, IInvTypes DEF TypeOK
  <2> QED BY <1>1, <2>1 DEF IInv, SegmentsRecoverable
<1>9. Covered' /\ Clean'
  BY <1>1, <1>3 DEF IInv, Covered, Clean
<1> QED BY <1>4, <1>5, <1>6, <1>7, <1>8, <1>9 DEF IInv

LEMMA CloseInv ==
  ASSUME IInv, Base', Close
  PROVE  IInv'
<1> USE DEF ackVars
<1>1. /\ synced' = disk \/ synced' = synced
      /\ pc' = "down" /\ ctrl' = NoMsg
      /\ UNCHANGED <<nextLsn, startLsn, segs, disk, torn, short, behind, covered,
                     floor, strict>>
  BY DEF Close
<1>2. synced \subseteq synced'
  BY <1>1 DEF IInv, Base, TypeOK
<1>3. Partitioned' /\ LsnOrder'
  BY <1>1 DEF IInv, Partitioned, LsnOrder, Segments
<1>4. AckedKept'
  BY <1>1, <1>2 DEF IInv, AckedKept
<1>5. InFlight' /\ BatchDone'
  BY <1>1 DEF InFlight, BatchDone, Running
<1>6. SegmentsRecoverable'
  BY <1>1, <1>2 DEF IInv, SegmentsRecoverable, Segments
<1>7. Covered' /\ Clean'
  BY <1>1 DEF IInv, Covered, Clean, Segments, Running, NoMsg
<1> QED BY <1>3, <1>4, <1>5, <1>6, <1>7 DEF IInv

LEMMA CrashInv ==
  ASSUME IInv, Base', InOrder', NEW k \in Nat, Crash(k)
  PROVE  IInv'
<1>1. /\ disk' = {r \in disk : r \in synced \/ r.lsn <= k} /\ synced' = disk'
      /\ torn' \subseteq torn \cup {startLsn} /\ behind' \subseteq behind
      /\ pc' = "down" /\ ctrl' = NoMsg
      /\ UNCHANGED <<nextLsn, startLsn, covered, floor, strict>>
  BY DEF Crash
<1>2. UNCHANGED <<segs, short>>
  BY DEF Crash, InOrder
<1>3. synced \subseteq synced' /\ disk' \subseteq disk
  BY <1>1 DEF IInv, Base, TypeOK
<1>4. Partitioned' /\ LsnOrder'
  BY <1>1, <1>2, <1>3 DEF IInv, Partitioned, LsnOrder, Segments
<1>5. AckedKept'
  BY <1>1, <1>3 DEF IInv, AckedKept
<1>6. InFlight' /\ BatchDone'
  BY <1>1 DEF InFlight, BatchDone, Running
<1>7. SegmentsRecoverable'
  BY <1>1, <1>2, <1>3 DEF IInv, SegmentsRecoverable, Segments
<1>8. Covered'
  BY <1>1 DEF IInv, Covered, NoMsg
<1>9. Clean'
  BY <1>1, <1>2 DEF IInv, Clean, LsnOrder, Segments, Running
<1> QED BY <1>4, <1>5, <1>6, <1>7, <1>8, <1>9 DEF IInv

LEMMA BootInv ==
  ASSUME IInv, Base', NEW seen \in Readings, NEW f \in Nat, floor <= f, Boot(seen, f)
  PROVE  IInv'
<1> USE DEF ackVars
<1> DEFINE first == FirstLsn(disk, f)
<1>1. seen = disk
  BY ReadingsOnDisk DEF IInv
<1>2. /\ first \in Nat \ {0} /\ f < first
      /\ \A r \in disk : r.lsn < first
      /\ first - 1 = f \/ \E r \in disk : r.lsn = first - 1
  <2>1. \A r \in disk : r.lsn \in Nat
    BY DEF IInv, Base, TypeOK, RecordSet
  <2> QED BY <2>1, RecoveredIsLast DEF FirstLsn, IInv
<1>3. \A s \in Segments : s <= first
  <2> TAKE s \in Segments
  <2>1. s \in Nat /\ floor \in Nat /\ synced \subseteq disk /\ \A r \in disk : r.lsn \in Nat
    BY DEF IInv, Base, TypeOK, RecordSet
  <2>2. s - 1 <= floor \/ \E r \in synced : s - 1 <= r.lsn
    BY DEF IInv, SegmentsRecoverable
  <2> QED BY <1>2, <2>1, <2>2
<1>4. /\ floor' = f /\ synced' = disk /\ pending' = {} /\ staged' = 0
      /\ UNCHANGED <<ctrl, disk, torn, short, behind, covered, strict>>
  BY DEF Boot
<1>5. \/ /\ Segments' = Segments \cup {first} /\ pc' = "select"
         /\ nextLsn' = first /\ startLsn' = first /\ CanOpen(first, RecoveredRv(disk))
      \/ pc' = "refused" /\ UNCHANGED <<segs, nextLsn, startLsn>>
  BY <1>1 DEF Boot, AddSegment, Segments
<1> HIDE DEF first
<1>6. AckedKept'
  BY <1>4 DEF IInv, Base, TypeOK, AckedKept
<1>7. Partitioned'
  <2>1. CASE UNCHANGED segs
    BY <1>4, <2>1 DEF IInv, Partitioned, Segments
  <2>2. CASE Segments' = Segments \cup {first}
    BY <1>2, <1>4, <2>2 DEF IInv, Partitioned
  <2> QED BY <1>5, <2>1, <2>2
<1>8. InFlight' /\ BatchDone'
  BY <1>4, <1>5 DEF InFlight, BatchDone
<1>9. LsnOrder'
  <2>1. CASE UNCHANGED <<segs, nextLsn, startLsn>>
    BY <1>4, <2>1 DEF IInv, LsnOrder, Segments
  <2>2. CASE /\ Segments' = Segments \cup {first} /\ nextLsn' = first
             /\ startLsn' = first
    BY <1>2, <1>3, <1>4, <2>2 DEF LsnOrder
  <2> QED BY <1>5, <2>1, <2>2
<1>10. SegmentsRecoverable'
  <2>1. ASSUME NEW s \in Segments
        PROVE  s - 1 <= f \/ \E r \in disk : s - 1 <= r.lsn
    <3>1. s \in Nat /\ floor \in Nat /\ synced \subseteq disk
      BY DEF IInv, Base, TypeOK
    <3> QED BY <3>1 DEF IInv, SegmentsRecoverable
  <2>2. first - 1 <= f \/ \E r \in disk : first - 1 <= r.lsn
    BY <1>2
  <2>3. Segments' \subseteq Segments \cup {first}
    BY <1>5 DEF Segments
  <2> QED BY <1>4, <2>1, <2>2, <2>3 DEF SegmentsRecoverable
<1>11. Covered'
  BY <1>4 DEF IInv, Base, TypeOK, Covered
<1>12. Clean'
  <2>1. CASE pc' = "refused" /\ UNCHANGED segs
    BY <1>4, <2>1 DEF IInv, Clean, Segments, Running
  <2>2. CASE /\ Segments' = Segments \cup {first} /\ startLsn' = first
             /\ CanOpen(first, RecoveredRv(disk))
    BY <1>4, <2>2 DEF IInv, Clean, CanOpen
  <2> QED BY <1>5, <2>1, <2>2
<1> QED BY <1>6, <1>7, <1>8, <1>9, <1>10, <1>11, <1>12 DEF IInv

LEMMA NextInv == IInv /\ [Next]_vars /\ InOrder' => IInv'
<1> SUFFICES ASSUME IInv, [Next]_vars, InOrder' PROVE IInv'
  OBVIOUS
<1>0. Base'
  BY NextBase DEF IInv
<1>1. ASSUME NEW m \in Modes, NEW g \in Gaps, Submit(m, g) PROVE IInv'
  BY <1>0, <1>1, SubmitInv
<1>2. ASSUME NEW c \in covered + 1 .. nextLsn, NEW g \in Gaps, RequestTruncate(c + g)
      PROVE  IInv'
  <2>1. c + g \in Nat /\ c + g > covered
    BY <1>2, ConstAssumption DEF IInv, Base, TypeOK
  <2> QED BY <1>0, <1>2, <2>1, RequestTruncateInv
<1>3. CASE RequestShutdown
  BY <1>0, <1>3, RequestShutdownInv
<1>4. CASE WorkerStep
  <2>1. disorder' = {}
    BY DEF InOrder
  <2> QED BY <1>0, <1>4, <2>1, TruncateInv, StageInv, StageErrInv, WorkerQuietInv,
             FsyncOkInv, RotateOkInv, RotateErrInv, CloseInv DEF WorkerStep
<1>5. ASSUME NEW k \in 0 .. MaxLsn, Crash(k) PROVE IInv'
  BY <1>0, <1>5, CrashInv, ConstAssumption
<1>6. ASSUME NEW seen \in Readings, NEW f \in floor .. Larger(floor, nextLsn - 1),
             Boot(seen, f)
      PROVE  IInv'
  <2>1. f \in Nat /\ floor <= f
    BY <1>6 DEF IInv, Base, TypeOK, Larger
  <2> QED BY <1>0, <1>6, <2>1, BootInv
<1>7. CASE Refused \/ UNCHANGED vars
  <2>1. UNCHANGED vars
    BY <1>7 DEF Refused
  <2>2. /\ UNCHANGED <<pc, ctrl, pending, staged, nextLsn, startLsn>>
        /\ UNCHANGED <<segs, disk, synced, torn, short, behind>>
        /\ UNCHANGED <<covered, floor, strict>>
    BY <2>1 DEF vars, workerVars, diskVars, envVars, ackVars
  <2>3. Partitioned' /\ AckedKept' /\ Clean'
    BY <2>2 DEF IInv, Partitioned, AckedKept, Clean, Running, Segments
  <2>4. LsnOrder' /\ InFlight' /\ BatchDone' /\ SegmentsRecoverable' /\ Covered'
    BY <2>2 DEF IInv, LsnOrder, InFlight, BatchDone, SegmentsRecoverable, Covered,
                Running, Segments
  <2> QED BY <1>0, <2>3, <2>4 DEF IInv
<1> QED BY <1>1, <1>2, <1>3, <1>4, <1>5, <1>6, <1>7 DEF Next

LEMMA SpecInv == Spec => [](Base /\ (InOrder => IInv))
<1>1. Base /\ (InOrder => IInv) /\ [Next]_vars => Base' /\ (InOrder' => IInv')
  BY NextBase, NextInv, DisorderStays
<1> QED BY <1>1, InitBase, InitInv, PTL DEF Spec

(* The type invariant holds in every state of every instance.              *)
THEOREM TypeCorrect == Spec => []TypeOK
<1>1. Base => TypeOK
  BY DEF Base
<1> QED BY <1>1, SpecInv, PTL

(* Through any sequence of rotations, truncations, failed appends, fsyncs  *)
(* and rotations, crashes and boots, no two records share an LSN and a     *)
(* segment holds only LSNs between its start and the start of its          *)
(* successor, until one of the three failures that leave a stray file or   *)
(* part of a record behind, or an LSN without its record, has happened.    *)
THEOREM SegmentsPartition == Spec => []SegmentsPartitionLsns
<1>1. (InOrder => IInv) => SegmentsPartitionLsns
  BY DEF IInv, SegmentsPartitionLsns
<1> QED BY <1>1, SpecInv, PTL

(* A record acknowledged to a PerEvent caller is never lost unless a       *)
(* durable snapshot covers a later LSN or one of those three failures has  *)
(* happened.                                                               *)
THEOREM StrictAcksKept == Spec => []StrictAcksSurvive
<1>1. (InOrder => IInv) => StrictAcksSurvive
  BY DEF IInv, StrictAcksSurvive
<1> QED BY <1>1, SpecInv, PTL

(* The durable LSN that pushes and snapshots read never covers a record    *)
(* that is not fsynced, whatever has failed.                               *)
THEOREM DurableHonest == Spec => []DurableIsSynced
<1>1. Base => DurableIsSynced
  BY DEF Base
<1> QED BY <1>1, SpecInv, PTL
-----------------------------------------------------------------------------
(* The log as its callers see it: acknowledgements of Periodic callers     *)
(* across a clean shutdown, and the abstract log of AckedLog.              *)

(* What was answered to a Periodic caller and no crash has cost is still   *)
(* in a segment or below the LSN a snapshot covers.                        *)
LooseOnDisk == \A l \in loose : l >= covered => \E r \in disk : r.lsn = l

(* An fsync covers a prefix of the records by LSN.                         *)
SyncedPrefix == \A s \in synced, r \in disk \ synced : s.lsn < r.lsn

(* No LSN at or past next_lsn was acknowledged, and of the acknowledged    *)
(* LSNs that are still in a segment every one is fsynced.                  *)
StrictPast ==
  /\ \A l \in strict : l < nextLsn
  /\ \A r \in disk : r.lsn \in strict => r \in synced

RInv ==
  /\ \A r \in disk : r.lsn > 0
  /\ LooseOnDisk /\ SyncedPrefix /\ StrictPast

LEMMA InitRInv == Init => RInv
  BY DEF Init, RInv, LooseOnDisk, SyncedPrefix, StrictPast

(* A step that leaves the records, what is fsynced and the                 *)
(* acknowledgements alone keeps what RInv says of them.                    *)
LEMMA RecordsKept ==
  ASSUME RInv, covered \in Nat, covered' \in Nat, covered' >= covered,
         loose \in SUBSET Nat, strict \in SUBSET Nat, nextLsn \in Nat,
         nextLsn' \in Nat, nextLsn' >= nextLsn,
         UNCHANGED <<disk, synced, strict, loose>>
  PROVE  RInv'
<1>1. LooseOnDisk'
  BY DEF RInv, LooseOnDisk
<1>2. StrictPast'
  BY DEF RInv, StrictPast
<1> QED BY <1>1, <1>2 DEF RInv, SyncedPrefix

LEMMA NextRInv == IInv /\ RInv /\ [Next]_vars => RInv'
<1> SUFFICES ASSUME IInv, RInv, [Next]_vars PROVE RInv'
  OBVIOUS
<1> USE DEF diskVars, envVars, ackVars
<1>0. /\ covered \in Nat /\ loose \in SUBSET Nat /\ strict \in SUBSET Nat
      /\ nextLsn \in Nat
  BY DEF IInv, Base, TypeOK
<1>1. ASSUME NEW m \in Modes, NEW g \in Gaps, Submit(m, g) PROVE RInv'
  BY <1>0, <1>1, RecordsKept DEF Submit
<1>2. ASSUME NEW c \in covered + 1 .. nextLsn, NEW g \in Gaps, RequestTruncate(c + g)
      PROVE  RInv'
  <2>1. covered' \in Nat /\ covered' >= covered
    BY <1>2, ConstAssumption DEF IInv, Base, TypeOK, RequestTruncate
  <2> QED BY <1>0, <1>2, <2>1, RecordsKept DEF RequestTruncate
<1>3. CASE \/ RequestShutdown \/ Tick \/ TakeShutdown \/ FsyncNothing \/ FsyncErr
           \/ RotateOk \/ RotateErr
  <2>1. UNCHANGED <<disk, synced, nextLsn, strict, loose, covered>>
    BY <1>3 DEF RequestShutdown, Tick, TakeShutdown, FsyncNothing, FsyncErr,
                RotateOk, RotateErr
  <2> QED BY <1>0, <2>1, RecordsKept
<1>11. CASE StageErr
  <2>1. Head(inbox) \in Requests
    BY <1>11 DEF StageErr, IInv, Base, TypeOK
  <2>2. nextLsn' \in Nat /\ nextLsn' >= nextLsn
    BY <1>0, <1>11, <2>1 DEF StageErr, Requests, Larger
  <2>3. UNCHANGED <<disk, synced, strict, loose, covered>>
    BY <1>11 DEF StageErr
  <2> QED BY <1>0, <2>2, <2>3, RecordsKept
<1>4. CASE Truncate
  <2> DEFINE gone == Obsolete(ctrl.lsn)
  <2>1. ctrl.lsn \in Nat /\ ctrl.lsn <= covered
    BY <1>4 DEF IInv, Base, TypeOK, Messages, NoMsg, Truncate, Covered
  <2>2. \A r \in disk : r.seg \in gone => r.lsn < ctrl.lsn
    BY <2>1, ObsoleteBelow
  <2>3. /\ disk' = {r \in disk : r.seg \notin gone}
        /\ synced' = {r \in synced : r.seg \notin gone}
        /\ UNCHANGED <<nextLsn, strict, loose, covered>>
    BY <1>4 DEF Truncate
  <2> HIDE DEF gone
  <2>4. LooseOnDisk'
    <3> SUFFICES ASSUME NEW l \in loose, l >= covered
                 PROVE  \E r \in disk' : r.lsn = l
      BY <2>3 DEF LooseOnDisk
    <3>1. PICK r \in disk : r.lsn = l
      BY DEF RInv, LooseOnDisk
    <3>2. ~(r.lsn < ctrl.lsn)
      BY <1>0, <2>1, <3>1
    <3> QED BY <2>2, <2>3, <3>1, <3>2
  <2>5. SyncedPrefix' /\ StrictPast' /\ \A r \in disk' : r.lsn > 0
    BY <2>3 DEF RInv, SyncedPrefix, StrictPast
  <2> QED BY <2>4, <2>5 DEF RInv
<1>5. CASE Stage
  <2> DEFINE req == Head(inbox)
             lsn == Larger(nextLsn, req.min)
             new == [seg |-> startLsn, lsn |-> lsn]
  <2>1. req \in Requests
    BY <1>5 DEF Stage, IInv, Base, TypeOK
  <2>2. lsn \in Nat /\ nextLsn <= lsn /\ lsn > 0 /\ nextLsn \in Nat
    BY <2>1 DEF IInv, Base, TypeOK, Larger, Requests
  <2>3. /\ nextLsn' = lsn + 1 /\ disk' = disk \cup {new}
        /\ loose' \subseteq loose \cup {lsn}
        /\ UNCHANGED <<synced, strict, covered>>
    BY <1>5 DEF Stage
  <2>4. new.lsn = lsn
    OBVIOUS
  <2> HIDE DEF req, lsn, new
  <2>5. \A r \in disk : r.lsn \in Nat /\ r.lsn < lsn
    BY <2>2 DEF IInv, Base, TypeOK, LsnOrder, RecordSet
  <2>6. LooseOnDisk'
    BY <2>3, <2>4 DEF RInv, LooseOnDisk
  <2>7. SyncedPrefix'
    <3>1. synced \subseteq disk
      BY DEF IInv, Base, TypeOK
    <3> QED BY <2>3, <2>4, <2>5, <3>1 DEF RInv, SyncedPrefix
  <2>8. StrictPast'
    <3>1. \A l \in strict : l \in Nat /\ l < lsn /\ l < lsn + 1
      BY <2>2 DEF IInv, Base, TypeOK, RInv, StrictPast
    <3> QED BY <2>2, <2>3, <2>4, <3>1 DEF RInv, StrictPast
  <2> QED BY <2>2, <2>3, <2>4, <2>6, <2>7, <2>8 DEF RInv
<1>6. CASE FsyncOk
  <2>1. /\ synced' = disk /\ disk' = disk /\ strict' = strict \cup pending
        /\ UNCHANGED <<nextLsn, loose, covered>>
    BY <1>6 DEF FsyncOk
  <2>2. \A l \in pending : [seg |-> startLsn, lsn |-> l] \in disk
    BY <1>6 DEF FsyncOk, IInv, InFlight, Running
  <2>3. \A l \in pending : l < nextLsn
    BY <2>2 DEF IInv, LsnOrder
  <2> QED BY <2>1, <2>3 DEF RInv, LooseOnDisk, SyncedPrefix, StrictPast
<1>7. CASE Close
  <2>1. /\ synced' = disk \/ synced' = synced
        /\ UNCHANGED <<disk, nextLsn, strict, loose, covered>>
    BY <1>7 DEF Close
  <2>2. synced \subseteq disk
    BY DEF IInv, Base, TypeOK
  <2> QED BY <2>1, <2>2 DEF RInv, LooseOnDisk, SyncedPrefix, StrictPast
<1>8. ASSUME NEW k \in 0 .. MaxLsn, Crash(k) PROVE RInv'
  <2>1. /\ disk' \subseteq disk /\ synced' = disk'
        /\ \A r \in disk : r \in synced => r \in disk'
        /\ loose' = {l \in loose : l < covered \/ \E r \in disk' : r.lsn = l}
        /\ UNCHANGED <<nextLsn, strict, covered>>
    BY <1>8 DEF Crash
  <2>2. LooseOnDisk'
    BY <1>0, <2>1 DEF LooseOnDisk
  <2> QED BY <2>1, <2>2 DEF RInv, SyncedPrefix, StrictPast
<1>9. ASSUME NEW seen \in Readings, NEW f \in floor .. Larger(floor, nextLsn - 1),
             Boot(seen, f)
      PROVE  RInv'
  <2>1. f \in Nat /\ floor <= f /\ floor \in Nat /\ covered <= floor
    BY <1>9 DEF IInv, Base, TypeOK, Larger, Covered
  <2>2. /\ synced' = disk /\ UNCHANGED <<disk, strict, loose, covered>>
        /\ nextLsn' = Recovered(disk, f) + 1 \/ nextLsn' = nextLsn
    <3>1. seen = disk
      BY ReadingsOnDisk DEF IInv
    <3> QED BY <1>9, <3>1 DEF Boot, FirstLsn
  <2>3. \A l \in strict : l < Recovered(disk, f) + 1
    <3> TAKE l \in strict
    <3>1. /\ Recovered(disk, f) \in Nat /\ f <= Recovered(disk, f) /\ l \in Nat
          /\ \A r \in disk : r.lsn <= Recovered(disk, f)
      BY <2>1, RecoveredIsLast DEF IInv, Base, TypeOK
    <3>2. CASE l < covered
      BY <1>0, <2>1, <3>1, <3>2
    <3>3. CASE l >= covered
      <4>1. PICK r \in synced : r.lsn = l
        BY <3>3 DEF IInv, AckedKept
      <4>2. r \in disk
        BY DEF IInv, Base, TypeOK
      <4> QED BY <3>1, <4>1, <4>2
    <3> QED BY <1>0, <3>1, <3>2, <3>3
  <2>4. StrictPast'
    BY <2>2, <2>3 DEF RInv, StrictPast
  <2> QED BY <2>2, <2>4 DEF RInv, LooseOnDisk, SyncedPrefix
<1>10. CASE Refused \/ UNCHANGED vars
  <2>1. UNCHANGED <<disk, synced, nextLsn, strict, loose, covered>>
    BY <1>10 DEF Refused, vars, workerVars
  <2> QED BY <1>0, <2>1, RecordsKept
<1> QED BY <1>1, <1>2, <1>3, <1>4, <1>5, <1>6, <1>7, <1>8, <1>9, <1>10, <1>11
  DEF Next, WorkerStep

LEMMA SpecRInv == Spec => []((InOrder => IInv /\ RInv) /\ Base)
<1>1. Init => IInv /\ RInv
  BY InitInv, InitRInv
<1>2. /\ Base /\ (InOrder => IInv /\ RInv) /\ [Next]_vars
      => (InOrder' => IInv' /\ RInv') /\ Base'
  BY NextBase, NextInv, NextRInv, DisorderStays
<1> QED BY <1>1, <1>2, InitBase, PTL DEF Spec

(* A shutdown whose last fsync succeeds loses no record that a Periodic    *)
(* caller was answered and that no crash had cost, also when an earlier    *)
(* fsync failed: the final blocking_sync_data covers the whole segment.    *)
(* Until then no failure may have left the files in disorder.              *)
THEOREM CleanShutdownKeepsAll == Spec => CleanShutdownKeepsLoose
<1> DEFINE Kept ==
      (/\ pc = "close" /\ pc' = "down" /\ InOrder
       /\ <<fails, restarts>>' = <<fails, restarts>>)
        => \A l \in loose : l >= covered => \E r \in synced' : r.lsn = l
<1>1. ASSUME InOrder => IInv /\ RInv, [Next]_vars PROVE Kept
  <2> SUFFICES ASSUME pc = "close", pc' = "down", fails' = fails, restarts' = restarts,
                      IInv, RInv
               PROVE  \A l \in loose : l >= covered => \E r \in synced' : r.lsn = l
    BY <1>1
  <2>1. fails \in Nat /\ restarts \in Nat
    BY DEF IInv, Base, TypeOK
  <2>2. ~ \E k \in 0 .. MaxLsn : Crash(k)
    BY <2>1 DEF Crash
  <2>3. Close
    BY <1>1, <2>1, <2>2
    DEF Next, WorkerStep, Submit, RequestTruncate, RequestShutdown, Truncate, Stage,
        StageErr, Tick, TakeShutdown, FsyncNothing, FsyncOk, FsyncErr, RotateOk, RotateErr,
        Boot, Refused, vars, workerVars
  <2>4. synced' = disk
    BY <2>1, <2>3 DEF Close
  <2> QED BY <1>1, <2>4 DEF RInv, LooseOnDisk
<1>2. (InOrder => IInv /\ RInv) /\ [Next]_vars => [Kept]_vars
  BY <1>1
<1> QED BY <1>2, SpecRInv, PTL DEF Spec, CleanShutdownKeepsLoose

-----------------------------------------------------------------------------
(* Each step is a step of AckedLog or leaves its log alone.                *)

LogLsns == {r.lsn : r \in disk}

(* A crash keeps the records up to the last one kept.                      *)
LEMMA CrashLosesTail ==
  ASSUME IInv, RInv, InOrder, InOrder', NEW k \in 0 .. MaxLsn, Crash(k)
  PROVE  Log!Next
<1>1. /\ disk' = {r \in disk : r \in synced \/ r.lsn <= k}
      /\ UNCHANGED <<strict, covered>> /\ k \in Nat
  BY ConstAssumption DEF Crash
<1>2. /\ \A r \in disk : r.lsn \in Nat /\ r.lsn > 0 /\ r.lsn < nextLsn
      /\ nextLsn \in Nat /\ synced \subseteq disk
  BY DEF IInv, Base, RInv, TypeOK, RecordSet, LsnOrder
<1> DEFINE left == {r.lsn : r \in disk'}
<1>3. SUFFICES \E n \in {0} \cup LogLsns :
                 /\ \A r \in disk : r.lsn \in strict => r.lsn <= n
                 /\ left = {l \in LogLsns : l <= n}
  BY <1>1 DEF Log!Next, Log!LoseTail, LogLsns
<1>4. \A r \in disk : r.lsn \in strict => r \in disk'
  BY <1>1 DEF RInv, StrictPast
<1>5. CASE disk' = {}
  <2>1. left = {l \in LogLsns : l <= 0}
    BY <1>2, <1>5 DEF LogLsns
  <2> QED BY <1>4, <1>5, <2>1
<1>6. CASE disk' # {}
  <2>1. left \in SUBSET Nat /\ left # {} /\ \A l \in left : l <= nextLsn
    BY <1>1, <1>2, <1>6
  <2>2. PICK n \in left : \A l \in left : l <= n
    <3> HIDE DEF left
    <3> QED BY <1>2, <2>1, GreatestNatural
  <2>3. PICK m \in disk' : m.lsn = n
    BY <2>2
  <2>4. \A r \in disk : r.lsn <= n => r \in disk'
    <3> SUFFICES ASSUME NEW r \in disk, r.lsn <= n, r \notin disk' PROVE FALSE
      OBVIOUS
    <3>1. r \notin synced /\ ~(r.lsn <= k)
      BY <1>1
    <3>2. m \in synced \/ m.lsn <= k
      BY <1>1
    <3>3. CASE m \in synced
      <4>1. m.lsn < r.lsn
        BY <3>1, <3>3 DEF RInv, SyncedPrefix
      <4> QED BY <1>1, <1>2, <2>3, <4>1
    <3>4. CASE m.lsn <= k
      BY <1>1, <1>2, <2>3, <3>1, <3>4
    <3> QED BY <3>2, <3>3, <3>4
  <2>5. left = {l \in LogLsns : l <= n}
    BY <1>1, <2>2, <2>4 DEF LogLsns
  <2>6. n \in LogLsns /\ \A r \in disk : r.lsn \in strict => r.lsn <= n
    BY <1>1, <1>4, <2>2 DEF LogLsns
  <2> QED BY <2>5, <2>6
<1> QED BY <1>5, <1>6

(* Segments are deleted from the oldest on.                                *)
LEMMA ObsoleteFirst ==
  ASSUME IInv, NEW c \in Nat, NEW s \in Obsolete(c), NEW t \in Segments, t < s
  PROVE  t \in Obsolete(c)
<1>1. /\ Segments \in SUBSET Nat /\ startLsn \in Nat /\ s \in Segments /\ s \in Nat /\ t \in Nat
      /\ \A m \in Segments : m <= startLsn
  BY DEF IInv, Base, TypeOK, LsnOrder, Obsolete
<1>2. PICK n \in Segments : n > s /\ n <= c
  BY DEF Obsolete
<1> DEFINE later == {m \in Segments : m > t}
<1>3. PICK p \in later : \A m \in later : p <= m
  <2>1. later \in SUBSET Nat /\ s \in later
    BY <1>1
  <2> HIDE DEF later
  <2> QED BY <2>1, LeastNatural
<1>4. p \in Segments /\ p > t /\ p <= s /\ \A m \in Segments : m > t => p <= m
  BY <1>1, <1>3
<1>5. n \in Nat /\ p \in Nat /\ p <= c /\ t # startLsn
  BY <1>1, <1>2, <1>4
<1> QED BY <1>4, <1>5 DEF Obsolete

(* A truncation drops a prefix of the log that the snapshots cover.        *)
LEMMA TruncateTrims ==
  ASSUME IInv, RInv, InOrder, InOrder', Truncate
  PROVE  [Log!Next]_Log!lvars
<1> USE DEF envVars, ackVars
<1> DEFINE gone == Obsolete(ctrl.lsn)
           left == {r.lsn : r \in disk'}
           lost == {r.lsn : r \in {q \in disk : q.seg \in gone}}
<1>1. ctrl.lsn \in Nat /\ ctrl.lsn <= covered /\ covered \in Nat
  BY DEF IInv, Base, TypeOK, Messages, NoMsg, Truncate, Covered
<1>2. \A r \in disk : r.seg \in gone => r.lsn < ctrl.lsn
  BY <1>1, ObsoleteBelow
<1>3. disk' = {r \in disk : r.seg \notin gone} /\ UNCHANGED <<strict, covered>>
  BY DEF Truncate
<1>4. /\ \A r \in disk : r.lsn \in Nat /\ r.lsn > 0
      /\ \A r \in disk : r.seg \in Nat /\ r.seg \in Segments /\ r.seg <= r.lsn
      /\ \A r \in disk : \A s \in Segments : s > r.seg => r.lsn < s
  BY DEF IInv, Base, RInv, TypeOK, RecordSet, Partitioned
<1>5. \A q, r \in disk : q.seg \in gone /\ r.seg \notin gone => q.lsn < r.lsn
  <2> SUFFICES ASSUME NEW q \in disk, NEW r \in disk, q.seg \in gone, r.seg \notin gone
               PROVE  q.lsn < r.lsn
    OBVIOUS
  <2>1. ~(r.seg < q.seg)
    BY <1>1, <1>4, ObsoleteFirst
  <2>2. r.seg # q.seg
    OBVIOUS
  <2>3. r.seg > q.seg
    BY <1>4, <2>1, <2>2
  <2>4. q.lsn < r.seg
    BY <1>4, <2>3
  <2> QED BY <1>4, <2>4
<1> HIDE DEF gone
<1>6. CASE lost = {}
  <2>1. disk' = disk
    BY <1>3, <1>6
  <2> QED BY <1>3, <2>1 DEF Log!lvars
<1>7. CASE lost # {}
  <2>1. lost \in SUBSET Nat /\ \A l \in lost : l <= ctrl.lsn
    BY <1>1, <1>2, <1>4
  <2>2. PICK n \in lost : \A l \in lost : l <= n
    <3> HIDE DEF lost
    <3> QED BY <1>1, <1>7, <2>1, GreatestNatural
  <2>3. PICK q \in disk : q.seg \in gone /\ q.lsn = n
    BY <2>2
  <2>4. n \in Nat /\ n + 1 \in 1 .. covered
    BY <1>1, <1>2, <1>4, <2>3
  <2>5. \A r \in disk : r.seg \notin gone <=> r.lsn >= n + 1
    <3> TAKE r \in disk
    <3>1. CASE r.seg \in gone
      <4>1. r.lsn \in lost
        BY <3>1
      <4>2. r.lsn <= n
        BY <2>2, <4>1
      <4> QED BY <1>4, <2>4, <3>1, <4>2
    <3>2. CASE r.seg \notin gone
      BY <1>4, <1>5, <2>3, <2>4, <3>2
    <3> QED BY <3>1, <3>2
  <2>6. left = {l \in LogLsns : l >= n + 1}
    BY <1>3, <2>5 DEF LogLsns
  <2>7. Log!Trim(n + 1)
    BY <1>3, <2>6 DEF Log!Trim, LogLsns
  <2> QED BY <2>4, <2>7 DEF Log!Next
<1> QED BY <1>6, <1>7

LEMMA StepRefines ==
  (InOrder => IInv /\ RInv) /\ [Next]_vars => [Log!Next]_Log!lvars
<1>0. ASSUME ~InOrder' PROVE Log!Next
  BY <1>0 DEF Log!Next
<1> SUFFICES ASSUME IInv, RInv, InOrder, InOrder', [Next]_vars
             PROVE  [Log!Next]_Log!lvars
  BY <1>0, DisorderStays
<1> USE DEF diskVars, envVars, ackVars
<1>1. ASSUME UNCHANGED <<disk, strict, covered>> PROVE [Log!Next]_Log!lvars
  BY <1>1 DEF Log!lvars
<1>2. ASSUME NEW c \in covered + 1 .. nextLsn, NEW g \in Gaps, RequestTruncate(c + g)
      PROVE  Log!Next
  <2>1. covered' = c + g /\ covered' > covered /\ UNCHANGED <<disk, strict>>
    BY <1>2, ConstAssumption DEF RequestTruncate, IInv, Base, TypeOK
  <2> QED BY <2>1 DEF Log!Next, Log!Cover
<1>3. CASE Stage
  <2> DEFINE req == Head(inbox)
             lsn == Larger(nextLsn, req.min)
             new == [seg |-> startLsn, lsn |-> lsn]
  <2>1. req \in Requests
    BY <1>3 DEF Stage, IInv, Base, TypeOK
  <2>2. lsn \in Nat /\ nextLsn <= lsn /\ nextLsn \in Nat
    BY <2>1 DEF IInv, Base, TypeOK, Larger, Requests
  <2>3. disk' = disk \cup {new} /\ new.lsn = lsn /\ UNCHANGED <<strict, covered>>
    BY <1>3 DEF Stage
  <2> HIDE DEF req, lsn, new
  <2>4. \A x \in LogLsns \cup strict : x < lsn
    <3>1. \A r \in disk : r.lsn \in Nat /\ r.lsn < nextLsn
      BY DEF IInv, Base, TypeOK, LsnOrder, RecordSet
    <3>2. \A l \in strict : l \in Nat /\ l < nextLsn
      BY DEF IInv, Base, RInv, TypeOK, StrictPast
    <3> QED BY <2>2, <3>1, <3>2 DEF LogLsns
  <2>5. {r.lsn : r \in disk'} = LogLsns \cup {lsn}
    BY <2>3 DEF LogLsns
  <2>6. lsn \in {r.lsn : r \in disk'}
    BY <2>5
  <2>7. Log!Next
    BY <2>3, <2>4, <2>5, <2>6 DEF Log!Next, Log!Append, LogLsns
  <2> QED BY <2>7
<1>4. CASE FsyncOk
  <2>1. strict' = strict \cup pending /\ UNCHANGED <<disk, covered>>
    BY <1>4 DEF FsyncOk
  <2>2. \A l \in pending : [seg |-> startLsn, lsn |-> l] \in disk
    BY <1>4 DEF FsyncOk, IInv, InFlight, Running
  <2>3. pending \in SUBSET LogLsns
    <3>1. \A l \in pending : \E r \in disk : r.lsn = l
      BY <2>2
    <3> QED BY <3>1 DEF LogLsns
  <2>4. Log!Acknowledge(pending)
    BY <2>1, <2>3 DEF Log!Acknowledge, LogLsns
  <2> QED BY <2>3, <2>4 DEF Log!Next, LogLsns
<1>5. CASE Truncate
  BY <1>5, TruncateTrims
<1>6. ASSUME NEW k \in 0 .. MaxLsn, Crash(k) PROVE Log!Next
  BY <1>6, CrashLosesTail
<1>7. ASSUME \/ \E m \in Modes, g \in Gaps : Submit(m, g)
             \/ RequestShutdown \/ StageErr \/ Tick \/ TakeShutdown \/ FsyncNothing
             \/ FsyncErr \/ RotateOk \/ RotateErr \/ Close
             \/ \E seen \in Readings, f \in floor .. Larger(floor, nextLsn - 1) :
                  Boot(seen, f)
             \/ Refused \/ UNCHANGED vars
      PROVE  UNCHANGED <<disk, strict, covered>>
  BY <1>7 DEF Submit, RequestShutdown, StageErr, Tick, TakeShutdown, FsyncNothing,
              FsyncErr, RotateOk, RotateErr, Close, Boot, Refused, vars, workerVars
<1> QED BY <1>1, <1>2, <1>3, <1>4, <1>5, <1>6, <1>7 DEF Next, WorkerStep

(* The registry log keeps the promise of AckedLog in every schedule, with  *)
(* failed fsyncs, crashes and boots: records go behind everything there    *)
(* and everything ever acknowledged, a crash costs an unacknowledged tail  *)
(* only and a truncation a covered prefix only, until a failing append or  *)
(* rotation leaves the files in disorder.                                  *)
THEOREM SinkImplementsLog == Spec => ImplementsAckedLog
<1>1. Init => Log!Init
  BY DEF Init, InOrder, Log!Init
<1> QED BY <1>1, StepRefines, SpecRInv, PTL DEF Spec, ImplementsAckedLog, Log!Spec

=============================================================================
