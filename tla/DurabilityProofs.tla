-------------------------- MODULE DurabilityProofs --------------------------
(***************************************************************************)
(* Proofs about Durability, for every set of names, both snapshot modes    *)
(* and every bound: what the protocol keeps, and then what recovery        *)
(* restores: the order the two logs share, the registry, and the tables.   *)
(***************************************************************************)
EXTENDS Durability, NaturalLemmas, FiniteSetTheorems, TLAPS

(* Tables whose events are in LSN order and not past top. *)
InOrder(t, top) ==
  \A i \in DOMAIN t :
    /\ t[i] \in Seq(Nat)
    /\ \A j \in DOMAIN t[i] : t[i][j] <= top
    /\ \A j, k \in DOMAIN t[i] : j < k => t[i][j] < t[i][k]

(* What a snapshot promises recovery: next_event_id bounds its tables. *)
BodyOK(b) ==
  /\ b.lsn \in Nat /\ b.version \in Nat /\ b.next \in Nat
  /\ DOMAIN b.reg \subseteq Names
  /\ \A n \in DOMAIN b.reg : b.reg[n] \in Nat
  /\ InOrder(b.tables, b.next)

SnapshotOK(b) == BodyOK(b) /\ \A n \in DOMAIN b.reg : b.reg[n] \in DOMAIN b.tables

(* Between append and apply an event is past everything applied. *)
ApplyThread ==
  /\ apc \in {"staged", "fsynced", "removed"} => op \in Bumps
  /\ apc = "appended" => nextEvent < op.lsn /\ op.lsn <= committed
  /\ Up => nextEvent <= committed
  /\ ~ Up => apc = "idle" /\ spc = "idle"

SnapshotTask ==
  /\ BodyOK(body)
  /\ ForkSnapshot /\ spc = "lock" => \A n \in DOMAIN body.reg : body.reg[n] \in DOMAIN tables
  /\ spc = "write" => SnapshotOK(body)

(* There is a newest snapshot as long as their LSNs are bounded. *)
SnapshotFiles ==
  /\ \A s \in snaps : SnapshotOK(s)
  /\ \E k \in Nat : \A s \in snaps : s.lsn <= k

Replay == phase = "events" => nextEvent <= cursor

IInv ==
  /\ TypeOK /\ InOrder(tables, nextEvent)
  /\ ApplyThread /\ SnapshotTask /\ SnapshotFiles /\ Replay

-----------------------------------------------------------------------------
(* The operators on tables. *)

(* Appending an LSN past top keeps tables in order. *)
LEMMA AppliedInOrder ==
  ASSUME NEW t, NEW top \in Nat, NEW r, NEW names, NEW lsn \in Nat,
         InOrder(t, top), top < lsn
  PROVE  InOrder(Applied(t, r, names, lsn), lsn) /\ DOMAIN Applied(t, r, names, lsn) = DOMAIN t
<1> DEFINE u == Applied(t, r, names, lsn)
<1>1. DOMAIN u = DOMAIN t
  BY DEF Applied
<1>2. ASSUME NEW i \in DOMAIN t
      PROVE  /\ u[i] \in Seq(Nat)
             /\ \A j \in DOMAIN u[i] : u[i][j] <= lsn
             /\ \A j, k \in DOMAIN u[i] : j < k => u[i][j] < u[i][k]
  <2>1. /\ t[i] \in Seq(Nat)
        /\ \A j \in DOMAIN t[i] : t[i][j] <= top /\ t[i][j] \in Nat
        /\ \A j, k \in DOMAIN t[i] : j < k => t[i][j] < t[i][k]
    BY DEF InOrder
  <2>2. u[i] = Append(t[i], lsn) \/ u[i] = t[i]
    BY DEF Applied
  <2>3. CASE u[i] = t[i]
    BY <2>1, <2>3
  <2>4. CASE u[i] = Append(t[i], lsn)
    <3> DEFINE n == Len(t[i])
               a == Append(t[i], lsn)
    <3>1. n \in Nat /\ DOMAIN t[i] = 1 .. n
      BY <2>1
    <3>2. a \in Seq(Nat) /\ DOMAIN a = 1 .. n + 1
      BY <2>1
    <3>3. a[n + 1] = lsn /\ \A j \in 1 .. n : a[j] = t[i][j]
      BY <2>1, <3>1
    <3> HIDE DEF n, a
    <3>4. \A j \in 1 .. n + 1 : j # n + 1 => j \in 1 .. n
      BY <3>1
    <3>5. \A j \in DOMAIN a : a[j] <= lsn
      BY <2>1, <3>1, <3>2, <3>3, <3>4
    <3>6. ASSUME NEW j \in DOMAIN a, NEW k \in DOMAIN a, j < k PROVE a[j] < a[k]
      <4>1. j \in 1 .. n
        BY <3>1, <3>2, <3>6
      <4>2. CASE k = n + 1
        BY <2>1, <3>1, <3>3, <4>1, <4>2
      <4>3. CASE k \in 1 .. n
        BY <2>1, <3>1, <3>3, <3>6, <4>1, <4>3
      <4> QED BY <3>2, <3>4, <4>2, <4>3
    <3> QED BY <2>4, <3>2, <3>5, <3>6 DEF a
  <2> QED BY <2>2, <2>3, <2>4
<1> QED BY <1>1, <1>2 DEF InOrder

(* New tables are empty. *)
LEMMA GrownInOrder ==
  ASSUME NEW t, NEW top, NEW r, InOrder(t, top)
  PROVE  /\ InOrder(Grown(t, r), top)
         /\ DOMAIN t \subseteq DOMAIN Grown(t, r)
         /\ \A n \in DOMAIN r : r[n].inst \in DOMAIN Grown(t, r)
<1>1. \A i \in DOMAIN Grown(t, r) : Grown(t, r)[i] = IF i \in DOMAIN t THEN t[i] ELSE <<>>
  BY DEF Grown
<1>2. DOMAIN t \subseteq DOMAIN Grown(t, r) /\ \A n \in DOMAIN r : r[n].inst \in DOMAIN Grown(t, r)
  BY DEF Grown
<1>3. <<>> \in Seq(Nat) /\ DOMAIN <<>> = {}
  OBVIOUS
<1>4. ASSUME NEW i \in DOMAIN Grown(t, r)
      PROVE  /\ Grown(t, r)[i] \in Seq(Nat)
             /\ \A j \in DOMAIN Grown(t, r)[i] : Grown(t, r)[i][j] <= top
             /\ \A j, k \in DOMAIN Grown(t, r)[i] : j < k => Grown(t, r)[i][j] < Grown(t, r)[i][k]
  <2>1. CASE i \in DOMAIN t
    BY <1>1, <2>1 DEF InOrder
  <2>2. CASE i \notin DOMAIN t
    BY <1>1, <1>3, <2>2
  <2> QED BY <2>1, <2>2
<1> QED BY <1>2, <1>4 DEF InOrder

(* Installing a bump leaves a well-formed registry. *)
LEMMA InstallTyped ==
  ASSUME NEW r, NEW b \in Bumps, NEW v \in Nat, DOMAIN r \subseteq Names,
         \A n \in DOMAIN r : r[n] \in [inst : Nat, at : Nat]
  PROVE  /\ DOMAIN Install(r, b, v) \subseteq Names
         /\ \A n \in DOMAIN Install(r, b, v) : Install(r, b, v)[n] \in [inst : Nat, at : Nat]
BY DEF Install, Bumps

(* The replay loops read the next record there is. *)
LEMMA NextAfterExists ==
  ASSUME NEW S, \A r \in S : r.lsn \in Nat, NEW l \in Nat, \E r \in S : r.lsn > l
  PROVE  /\ NextAfter(S, l) \in S /\ NextAfter(S, l).lsn > l
         /\ \A q \in S : q.lsn > l => NextAfter(S, l).lsn <= q.lsn
<1> DEFINE L == {m \in Nat : \E r \in S : r.lsn = m /\ m > l}
<1>1. PICK m \in L : \A q \in L : m <= q
  <2>1. L \in SUBSET Nat /\ L # {}
    OBVIOUS
  <2> QED BY <2>1, LeastNatural
<1>2. PICK r \in S : r.lsn = m /\ m > l
  BY <1>1
<1>3. \A q \in S : q.lsn > l => r.lsn <= q.lsn
  BY <1>1, <1>2
<1> QED BY <1>2, <1>3 DEF NextAfter

-----------------------------------------------------------------------------
(* IInv is inductive. *)

LEMMA InitIInv == Init => IInv
<1> SUFFICES ASSUME Init PROVE IInv
  OBVIOUS
<1> USE DEF Init, NoOp, NoBody, Up
<1>1. DOMAIN <<>> = {}
  OBVIOUS
<1>2. TypeOK
  BY <1>1 DEF TypeOK, Bumps, Events
<1>3. InOrder(<<>>, 0)
  BY <1>1 DEF InOrder
<1>4. ApplyThread /\ SnapshotTask /\ SnapshotFiles /\ Replay
  BY <1>1, <1>3 DEF ApplyThread, SnapshotTask, SnapshotFiles, Replay, BodyOK, SnapshotOK
<1> QED BY <1>2, <1>3, <1>4 DEF IInv

(* A step that leaves the tables, the registry and the snapshots alone     *)
(* keeps what IInv says of them.                                           *)
LEMMA MemoryKept ==
  ASSUME IInv, UNCHANGED <<tables, nextEvent, snaps>>
  PROVE  InOrder(tables, nextEvent)' /\ SnapshotFiles'
BY DEF IInv, SnapshotFiles

(* The apply thread. *)
LEMMA ApplySteps ==
  ASSUME IInv,
         \/ PushAppend \/ PushApply \/ RegisterFsync \/ RegisterFsyncErr
         \/ RegisterRemove \/ RegisterApply
         \/ \E n \in Names : RegisterStage(n)
  PROVE  IInv'
<1> USE DurabilityAssumption DEF IInv, Up, Larger, NoOp
<1>1. CASE PushAppend
  <2>1. TypeOK'
    BY <1>1 DEF PushAppend, PushLsn, TypeOK, Events, Bumps, taskVars, bootVars, histVars
  <2>2. ApplyThread'
    BY <1>1 DEF PushAppend, PushLsn, TypeOK, ApplyThread, taskVars
  <2>3. SnapshotTask' /\ Replay'
    BY <1>1 DEF PushAppend, SnapshotTask, Replay, taskVars, bootVars
  <2> QED BY <1>1, <2>1, <2>2, <2>3, MemoryKept DEF PushAppend
<1>2. CASE PushApply
  <2>1. op.lsn \in Nat /\ nextEvent < op.lsn /\ nextEvent \in Nat
    BY <1>2 DEF PushApply, TypeOK, ApplyThread, Bumps
  <2>2. InOrder(tables', op.lsn) /\ DOMAIN tables' = DOMAIN tables
    BY <1>2, <2>1, AppliedInOrder DEF PushApply
  <2>3. TypeOK'
    BY <1>2, <2>1, <2>2 DEF PushApply, TypeOK, Bumps, diskVars, taskVars, bootVars, histVars
  <2>4. ApplyThread'
    BY <1>2 DEF PushApply, TypeOK, ApplyThread, taskVars
  <2>5. SnapshotTask' /\ SnapshotFiles' /\ Replay'
    BY <1>2, <2>2 DEF PushApply, SnapshotTask, SnapshotFiles, Replay, diskVars, taskVars, bootVars
  <2> QED BY <1>2, <2>2, <2>3, <2>4, <2>5 DEF PushApply
<1>3. CASE RegisterFsync
  <2>1. TypeOK'
    BY <1>3 DEF RegisterFsync, TypeOK, taskVars, bootVars, histVars
  <2>2. ApplyThread' /\ SnapshotTask' /\ Replay'
    BY <1>3 DEF RegisterFsync, ApplyThread, SnapshotTask, Replay, taskVars, bootVars
  <2> QED BY <1>3, <2>1, <2>2, MemoryKept DEF RegisterFsync
<1>4. CASE RegisterFsyncErr
  <2>1. TypeOK'
    BY <1>4 DEF RegisterFsyncErr, TypeOK, diskVars, taskVars, bootVars
  <2>2. ApplyThread' /\ SnapshotTask' /\ Replay'
    BY <1>4 DEF RegisterFsyncErr, ApplyThread, SnapshotTask, Replay, taskVars, bootVars
  <2> QED BY <1>4, <2>1, <2>2, MemoryKept DEF RegisterFsyncErr, diskVars
<1>5. CASE RegisterApply
  <2>1. op \in Bumps /\ version + 1 \in Nat
    BY <1>5 DEF RegisterApply, TypeOK, ApplyThread
  <2>2. DOMAIN reg' \subseteq Names /\ \A n \in DOMAIN reg' : reg'[n] \in [inst : Nat, at : Nat]
    BY <1>5, <2>1, InstallTyped DEF RegisterApply, TypeOK
  <2>3. /\ InOrder(tables', nextEvent) /\ DOMAIN tables \subseteq DOMAIN tables'
        /\ \A n \in DOMAIN reg' : reg'[n].inst \in DOMAIN tables'
    BY <1>5, GrownInOrder DEF RegisterApply
  <2>4. TypeOK'
    BY <1>5, <2>2, <2>3 DEF RegisterApply, TypeOK, diskVars, taskVars, bootVars, histVars
  <2>5. ApplyThread' /\ SnapshotTask' /\ SnapshotFiles' /\ Replay'
    BY <1>5, <2>3 DEF RegisterApply, ApplyThread, SnapshotTask, SnapshotFiles, Replay,
       diskVars, taskVars, bootVars
  <2> QED BY <1>5, <2>3, <2>4, <2>5 DEF RegisterApply
<1>6. ASSUME NEW n \in Names, RegisterStage(n) PROVE IInv'
  <2> DEFINE lsn == Larger(sinkNext, nextEvent + 1)
             bump == [lsn |-> lsn, ver |-> version + 1, name |-> n, force |-> n \in DOMAIN reg]
  <2>1. bump \in Bumps /\ lsn \in Nat
    BY DEF Bumps, TypeOK
  <2>2. log' = log \cup {bump} /\ op' = bump /\ sinkNext' = lsn + 1
    BY <1>6 DEF RegisterStage
  <2> HIDE DEF lsn, bump
  <2>3. TypeOK'
    BY <1>6, <2>1, <2>2 DEF RegisterStage, TypeOK, taskVars, bootVars, histVars
  <2>4. ApplyThread' /\ SnapshotTask' /\ Replay'
    BY <1>6, <2>1, <2>2 DEF RegisterStage, ApplyThread, SnapshotTask, Replay, taskVars, bootVars
  <2> QED BY <1>6, <2>3, <2>4, MemoryKept DEF RegisterStage
<1>7. CASE RegisterRemove
  <2>1. op \in Bumps
    BY <1>7 DEF RegisterRemove, ApplyThread
  <2>2. DOMAIN reg' \subseteq DOMAIN reg /\ \A n \in DOMAIN reg' : reg'[n] = reg[n]
    BY <1>7 DEF RegisterRemove
  <2>3. TypeOK'
    BY <1>7, <2>1, <2>2 DEF RegisterRemove, TypeOK, diskVars, taskVars, bootVars, histVars
  <2>4. ApplyThread' /\ SnapshotTask' /\ Replay'
    BY <1>7, <2>1 DEF RegisterRemove, ApplyThread, SnapshotTask, Replay, taskVars, bootVars
  <2> QED BY <1>7, <2>3, <2>4, MemoryKept DEF RegisterRemove, diskVars
<1> QED BY <1>1, <1>2, <1>3, <1>4, <1>5, <1>6, <1>7

(* The writer thread and the snapshot task. *)
LEMMA TaskSteps ==
  ASSUME IInv,
         \/ Compact \/ \E k \in 1 .. MaxLsn : Flush(k)
         \/ SnapStart \/ SnapCaptureRegistry \/ SnapCapture \/ SnapWrite \/ SnapFail
         \/ \E s \in 0 .. MaxLsn : SnapTruncate(s)
         \/ SnapRequestReclaim \/ SnapPrune
  PROVE  IInv'
<1> USE DurabilityAssumption DEF IInv, Up, Larger, memVars
<1>1. CASE Compact
  <2>1. TypeOK'
    BY <1>1 DEF Compact, TypeOK, taskVars, bootVars, histVars
  <2>2. ApplyThread' /\ SnapshotTask' /\ Replay'
    BY <1>1 DEF Compact, ApplyThread, SnapshotTask, Replay, taskVars, bootVars
  <2> QED BY <1>1, <2>1, <2>2, MemoryKept DEF Compact
<1>2. ASSUME NEW k \in 1 .. MaxLsn, Flush(k) PROVE IInv'
  <2>1. TypeOK'
    BY <1>2 DEF Flush, Lsns, Events, TypeOK, taskVars, bootVars
  <2>2. ApplyThread' /\ SnapshotTask' /\ Replay'
    BY <1>2 DEF Flush, ApplyThread, SnapshotTask, Replay, taskVars, bootVars
  <2> QED BY <1>2, <2>1, <2>2, MemoryKept DEF Flush
<1>3. CASE SnapStart
  <2>1. TypeOK'
    BY <1>3 DEF SnapStart, TypeOK, diskVars, bootVars
  <2>2. ApplyThread' /\ Replay'
    BY <1>3 DEF SnapStart, ApplyThread, Replay, bootVars
  <2>3. SnapshotTask'
    BY <1>3 DEF SnapStart, SnapshotTask
  <2> QED BY <1>3, <2>1, <2>2, <2>3, MemoryKept DEF SnapStart, diskVars
<1>4. CASE SnapCaptureRegistry
  <2>1. TypeOK'
    BY <1>4 DEF SnapCaptureRegistry, TypeOK, diskVars, bootVars, histVars
  <2>2. ApplyThread' /\ Replay'
    BY <1>4 DEF SnapCaptureRegistry, ApplyThread, Replay, bootVars
  <2>3. /\ body' = [lsn |-> 0, version |-> version, reg |-> Instances(reg), tables |-> <<>>, next |-> 0]
        /\ DOMAIN <<>> = {}
    BY <1>4 DEF SnapCaptureRegistry
  <2>4. BodyOK(body')
    BY <2>3 DEF BodyOK, InOrder, Instances, TypeOK
  <2>5. \A n \in DOMAIN body'.reg : body'.reg[n] \in DOMAIN tables'
    BY <1>4, <2>3 DEF SnapCaptureRegistry, Instances, TypeOK
  <2> QED BY <1>4, <2>1, <2>2, <2>4, <2>5, MemoryKept DEF SnapCaptureRegistry, SnapshotTask, diskVars
<1>5. CASE SnapCapture
  <2> DEFINE r == IF ForkSnapshot THEN body.reg ELSE Instances(reg)
             v == IF ForkSnapshot THEN body.version ELSE version
  <2>1. TypeOK'
    BY <1>5 DEF SnapCapture, TypeOK, diskVars, bootVars, histVars
  <2>2. ApplyThread' /\ Replay'
    BY <1>5 DEF SnapCapture, ApplyThread, Replay, bootVars
  <2>3. body' = [lsn |-> Larger(legacy, nextEvent), version |-> v, reg |-> r,
                 tables |-> BodyTables(r), next |-> nextEvent]
    BY <1>5 DEF SnapCapture
  <2>4. /\ DOMAIN r \subseteq Names /\ v \in Nat
        /\ \A n \in DOMAIN r : r[n] \in Nat /\ r[n] \in DOMAIN tables
    <3>1. CASE ForkSnapshot
      BY <1>5, <3>1 DEF SnapCapture, SnapshotTask, BodyOK
    <3>2. CASE ~ ForkSnapshot
      BY <3>2 DEF Instances, TypeOK
    <3> QED BY <3>1, <3>2
  <2> HIDE DEF r, v
  <2>5. /\ \A i \in DOMAIN BodyTables(r) : i \in DOMAIN tables /\ BodyTables(r)[i] = tables[i]
        /\ \A n \in DOMAIN r : r[n] \in DOMAIN BodyTables(r)
    BY <2>4 DEF BodyTables
  <2>6. InOrder(BodyTables(r), nextEvent)
    BY <2>5 DEF InOrder
  <2>7. SnapshotOK(body')
    BY <2>3, <2>4, <2>5, <2>6 DEF SnapshotOK, BodyOK, TypeOK
  <2>8. SnapshotTask'
    BY <1>5, <2>7 DEF SnapCapture, SnapshotTask, SnapshotOK
  <2> QED BY <1>5, <2>1, <2>2, <2>8, MemoryKept DEF SnapCapture, diskVars
<1>6. BodyOK(NoBody) /\ \A l \in Nat : BodyOK([NoBody EXCEPT !.lsn = l])
  BY DEF NoBody, BodyOK, InOrder
<1>7. CASE SnapWrite
  <2>1. TypeOK'
    BY <1>7 DEF SnapWrite, TypeOK, bootVars, histVars
  <2>2. ApplyThread' /\ Replay'
    BY <1>7 DEF SnapWrite, ApplyThread, Replay, bootVars
  <2>3. SnapshotOK(body) /\ body.lsn \in Nat
    BY <1>7 DEF SnapWrite, SnapshotTask, SnapshotOK, BodyOK
  <2>4. SnapshotTask'
    BY <1>6, <1>7, <2>3 DEF SnapWrite, SnapshotTask
  <2>5. SnapshotFiles'
    <3>1. PICK k \in Nat : \A s \in snaps : s.lsn <= k
      BY DEF SnapshotFiles
    <3>2. \A s \in snaps : s.lsn \in Nat
      BY DEF SnapshotFiles, SnapshotOK, BodyOK
    <3>3. snaps' \subseteq snaps \cup {body}
      BY <1>7 DEF SnapWrite
    <3>4. \A s \in snaps' : s.lsn <= Larger(k, body.lsn)
      BY <2>3, <3>1, <3>2, <3>3
    <3>5. Larger(k, body.lsn) \in Nat
      BY <2>3
    <3> QED BY <2>3, <3>3, <3>4, <3>5 DEF SnapshotFiles
  <2> QED BY <1>7, <2>1, <2>2, <2>4, <2>5 DEF SnapWrite
<1>8. CASE SnapFail
  <2>1. TypeOK'
    BY <1>8 DEF SnapFail, TypeOK, diskVars, bootVars, histVars
  <2>2. ApplyThread' /\ Replay' /\ SnapshotTask'
    BY <1>6, <1>8 DEF SnapFail, ApplyThread, Replay, SnapshotTask, bootVars
  <2> QED BY <1>8, <2>1, <2>2, MemoryKept DEF SnapFail, diskVars
<1>9. ASSUME NEW s \in 0 .. MaxLsn, SnapTruncate(s) PROVE IInv'
  <2>1. TypeOK'
    BY <1>9 DEF SnapTruncate, TypeOK, bootVars, histVars
  <2>2. ApplyThread' /\ Replay' /\ SnapshotTask'
    BY <1>9 DEF SnapTruncate, ApplyThread, Replay, SnapshotTask, bootVars
  <2> QED BY <1>9, <2>1, <2>2, MemoryKept DEF SnapTruncate
<1>10. CASE SnapRequestReclaim
  <2>1. TypeOK'
    BY <1>10 DEF SnapRequestReclaim, TypeOK, SnapshotTask, BodyOK, bootVars, histVars
  <2>2. ApplyThread' /\ Replay' /\ SnapshotTask'
    BY <1>6, <1>10 DEF SnapRequestReclaim, ApplyThread, Replay, SnapshotTask, bootVars
  <2> QED BY <1>10, <2>1, <2>2, MemoryKept DEF SnapRequestReclaim
<1>11. CASE SnapPrune
  <2>1. TypeOK'
    BY <1>11 DEF SnapPrune, TypeOK, bootVars, histVars
  <2>2. ApplyThread' /\ Replay' /\ SnapshotTask'
    BY <1>11 DEF SnapPrune, ApplyThread, Replay, SnapshotTask, bootVars
  <2>3. snaps' \subseteq snaps
    BY <1>11 DEF SnapPrune
  <2>4. SnapshotFiles'
    BY <2>3 DEF SnapshotFiles
  <2> QED BY <1>11, <2>1, <2>2, <2>4 DEF SnapPrune
<1> QED BY <1>1, <1>2, <1>3, <1>4, <1>5, <1>7, <1>8, <1>9, <1>10, <1>11

(* The end of a process. *)
LEMMA DownSteps ==
  ASSUME IInv, Shutdown \/ \E k, j \in 0 .. MaxLsn : Crash(k, j)
  PROVE  IInv'
<1> USE DEF IInv, NoOp
<1>1. /\ Down /\ UNCHANGED snaps
      /\ wal' \subseteq wal \cup ring /\ logSynced' \subseteq log' /\ log' \subseteq log
      /\ kept' \subseteq kept \cup Lsns(ring)
  BY DEF Shutdown, Crash, Down
<1>2. Lsns(ring) \subseteq Nat
  BY DEF Lsns, TypeOK, Events
<1>3. DOMAIN <<>> = {}
  OBVIOUS
<1>4. TypeOK'
  BY <1>1, <1>2, <1>3 DEF Down, TypeOK, Bumps, bootVars
<1>5. InOrder(tables', nextEvent') /\ BodyOK(body')
  BY <1>1, <1>3 DEF Down, InOrder, BodyOK, NoBody
<1>6. SnapshotFiles'
  BY <1>1 DEF SnapshotFiles
<1>7. ApplyThread' /\ SnapshotTask' /\ Replay'
  BY <1>1, <1>5 DEF Down, ApplyThread, SnapshotTask, Replay, Up
<1> QED BY <1>4, <1>5, <1>6, <1>7

(* A newest snapshot exists and LoadSnapshot takes one. *)
LEMMA NewestSnapshot ==
  ASSUME SnapshotFiles, snaps # {}
  PROVE  LET s == CHOOSE x \in snaps : \A y \in snaps : y.lsn <= x.lsn
         IN  s \in snaps /\ \A y \in snaps : y.lsn <= s.lsn
<1> DEFINE L == {l \in Nat : \E s \in snaps : s.lsn = l}
<1>1. \A s \in snaps : s.lsn \in Nat
  BY DEF SnapshotFiles, SnapshotOK, BodyOK
<1>2. PICK k \in Nat : \A s \in snaps : s.lsn <= k
  BY DEF SnapshotFiles
<1>3. L \in SUBSET Nat /\ L # {} /\ \A l \in L : l <= k
  BY <1>1, <1>2
<1> HIDE DEF L
<1>4. PICK l \in L : \A m \in L : m <= l
  BY <1>3, GreatestNatural
<1>5. PICK x \in snaps : x.lsn = l
  BY <1>4 DEF L
<1>6. \A y \in snaps : y.lsn <= x.lsn
  BY <1>1, <1>4, <1>5 DEF L
<1> QED BY <1>6

(* Recovery. *)
LEMMA RecoverySteps ==
  ASSUME IInv,
         \/ LoadSnapshot \/ ReplayBump \/ BumpsDone \/ ReplayEvent \/ EventsDone \/ Start
  PROVE  IInv'
<1> USE DurabilityAssumption DEF IInv, Up, Larger, diskVars, taskVars
<1>1. CASE LoadSnapshot
  <2> DEFINE s == IF snaps = {} THEN NoBody
                  ELSE CHOOSE x \in snaps : \A y \in snaps : y.lsn <= x.lsn
  <2>1. SnapshotOK(s)
    <3>1. CASE snaps = {}
      <4>1. DOMAIN <<>> = {}
        OBVIOUS
      <4> QED BY <3>1, <4>1 DEF NoBody, SnapshotOK, BodyOK, InOrder
    <3>2. CASE snaps # {}
      BY <3>2, NewestSnapshot DEF SnapshotFiles
    <3> QED BY <3>1, <3>2
  <2>2. /\ version' = s.version /\ tables' = s.tables /\ nextEvent' = s.next /\ seen' = s.lsn
        /\ reg' = [n \in DOMAIN s.reg |-> [inst |-> s.reg[n], at |-> 1]]
    BY <1>1 DEF LoadSnapshot
  <2> HIDE DEF s
  <2>3. /\ DOMAIN reg' \subseteq Names /\ version' \in Nat /\ nextEvent' \in Nat /\ seen' \in Nat
        /\ \A n \in DOMAIN reg' : reg'[n] \in [inst : Nat, at : Nat] /\ reg'[n].inst \in DOMAIN tables'
    BY <2>1, <2>2 DEF SnapshotOK, BodyOK
  <2>4. TypeOK'
    BY <1>1, <2>3 DEF LoadSnapshot, TypeOK, histVars
  <2>5. InOrder(tables', nextEvent')
    BY <2>1, <2>2 DEF SnapshotOK, BodyOK
  <2>6. ApplyThread' /\ SnapshotTask' /\ SnapshotFiles' /\ Replay'
    BY <1>1 DEF LoadSnapshot, ApplyThread, SnapshotTask, SnapshotFiles, Replay
  <2> QED BY <2>4, <2>5, <2>6
<1>2. CASE ReplayBump
  <2> DEFINE b == NextAfter(log, cursor)
  <2>1. b \in log /\ b \in Bumps /\ b.lsn \in Nat
    <3>1. \A r \in log : r.lsn \in Nat /\ r \in Bumps
      BY DEF TypeOK, Bumps
    <3> QED BY <1>2, <3>1, NextAfterExists DEF ReplayBump, TypeOK
  <2>2. /\ \/ UNCHANGED <<version, reg, tables>>
           \/ /\ version' = version + 1 /\ reg' = Install(reg, b, version + 1)
              /\ tables' = Grown(tables, reg')
        /\ cursor' = b.lsn /\ seen' = Larger(seen, b.lsn)
    BY <1>2 DEF ReplayBump
  <2> HIDE DEF b
  <2>3. /\ DOMAIN reg' \subseteq Names /\ version' \in Nat
        /\ \A n \in DOMAIN reg' : reg'[n] \in [inst : Nat, at : Nat] /\ reg'[n].inst \in DOMAIN tables'
        /\ InOrder(tables', nextEvent)
    <3>1. CASE UNCHANGED <<version, reg, tables>>
      BY <3>1 DEF TypeOK
    <3>2. CASE /\ version' = version + 1 /\ reg' = Install(reg, b, version + 1)
               /\ tables' = Grown(tables, reg')
      <4>1. version + 1 \in Nat
        BY DEF TypeOK
      <4>2. DOMAIN reg' \subseteq Names /\ \A n \in DOMAIN reg' : reg'[n] \in [inst : Nat, at : Nat]
        BY <2>1, <3>2, <4>1, InstallTyped DEF TypeOK
      <4>3. InOrder(tables', nextEvent) /\ \A n \in DOMAIN reg' : reg'[n].inst \in DOMAIN tables'
        BY <3>2, GrownInOrder
      <4> QED BY <3>2, <4>1, <4>2, <4>3
    <3> QED BY <2>2, <3>1, <3>2
  <2>4. TypeOK'
    BY <1>2, <2>1, <2>2, <2>3 DEF ReplayBump, TypeOK, histVars
  <2>5. ApplyThread' /\ SnapshotTask' /\ SnapshotFiles' /\ Replay'
    BY <1>2 DEF ReplayBump, ApplyThread, SnapshotTask, SnapshotFiles, Replay
  <2> QED BY <1>2, <2>3, <2>4, <2>5 DEF ReplayBump
<1>3. CASE BumpsDone
  <2>1. TypeOK' /\ ApplyThread' /\ SnapshotTask' /\ Replay'
    BY <1>3 DEF BumpsDone, ReplayFloor, TypeOK, ApplyThread, SnapshotTask, Replay, memVars, histVars
  <2> QED BY <1>3, <2>1, MemoryKept DEF BumpsDone, memVars
<1>4. CASE ReplayEvent
  <2> DEFINE e == NextAfter(wal, cursor)
  <2>1. e \in wal /\ e.lsn \in Nat /\ e.lsn > cursor /\ nextEvent <= cursor
    <3>1. \A r \in wal : r.lsn \in Nat
      BY DEF TypeOK, Events
    <3> QED BY <1>4, <3>1, NextAfterExists DEF ReplayEvent, TypeOK, Replay
  <2>2. /\ tables' = Applied(tables, reg, RegisteredAt(e.rv), e.lsn)
        /\ nextEvent' = Larger(nextEvent, e.lsn) /\ cursor' = e.lsn /\ seen' = Larger(seen, e.lsn)
    BY <1>4 DEF ReplayEvent
  <2> HIDE DEF e
  <2>3. nextEvent < e.lsn /\ nextEvent' = e.lsn /\ nextEvent \in Nat
    BY <2>1, <2>2 DEF TypeOK
  <2>4. InOrder(tables', e.lsn) /\ DOMAIN tables' = DOMAIN tables
    BY <2>1, <2>2, <2>3, AppliedInOrder
  <2>5. TypeOK'
    BY <1>4, <2>1, <2>2, <2>3, <2>4 DEF ReplayEvent, TypeOK, histVars
  <2>6. ApplyThread' /\ SnapshotTask' /\ SnapshotFiles' /\ Replay'
    BY <1>4, <2>1, <2>2, <2>3, <2>4 DEF ReplayEvent, ApplyThread, SnapshotTask, SnapshotFiles, Replay
  <2> QED BY <2>3, <2>4, <2>5, <2>6
<1>5. CASE EventsDone
  <2>1. TypeOK' /\ ApplyThread' /\ SnapshotTask' /\ Replay'
    BY <1>5 DEF EventsDone, TypeOK, ApplyThread, SnapshotTask, Replay, memVars, bootVars, histVars
  <2> QED BY <1>5, <2>1, MemoryKept DEF EventsDone, memVars
<1>6. CASE Start
  <2>1. LastRecovered \in Nat /\ nextEvent <= LastRecovered
    BY DEF LastRecovered, TypeOK
  <2>2. kept' \subseteq Nat
    BY <1>6 DEF Start
  <2>3. TypeOK'
    BY <1>6, <2>1, <2>2 DEF Start, TypeOK
  <2>4. ApplyThread' /\ SnapshotTask' /\ Replay'
    BY <1>6, <2>1 DEF Start, ApplyThread, SnapshotTask, Replay
  <2> QED BY <1>6, <2>3, <2>4, MemoryKept DEF Start
<1> QED BY <1>1, <1>2, <1>3, <1>4, <1>5, <1>6

LEMMA NextIInv == IInv /\ [Next]_vars => IInv'
<1> SUFFICES ASSUME IInv, [Next]_vars PROVE IInv'
  OBVIOUS
<1>1. CASE UNCHANGED vars
  <2>1. TypeOK'
    BY <1>1 DEF vars, memVars, diskVars, taskVars, bootVars, histVars, IInv, TypeOK
  <2>2. ApplyThread' /\ SnapshotTask' /\ Replay'
    BY <1>1 DEF vars, memVars, diskVars, taskVars, bootVars, IInv, ApplyThread, SnapshotTask, Replay, Up
  <2> QED BY <1>1, <2>1, <2>2, MemoryKept DEF vars, memVars, diskVars, IInv
<1>2. CASE Next
  BY <1>1, <1>2, ApplySteps, TaskSteps, DownSteps, RecoverySteps DEF Next, Quiet
<1> QED BY <1>1, <1>2

-----------------------------------------------------------------------------
(* Every variable keeps its type, and every registered aggregation has a   *)
(* table, through registrations, snapshots, crashes and recoveries.        *)
THEOREM TypeCorrect == Spec => []TypeOK
<1>1. IInv => TypeOK
  BY DEF IInv
<1> QED BY <1>1, InitIInv, NextIInv, PTL DEF Spec

(* No event is counted twice or out of order, live or after any number of  *)
(* crashes, with either snapshot mode and with failing fsyncs of the       *)
(* registry log: next_event_id, saved with the tables, is past every event *)
(* in them, and the replay starts there.                                   *)
THEOREM EventsCountedOnce == Spec => []NoEventTwice
<1>1. IInv => NoEventTwice
  BY DEF IInv, InOrder, NoEventTwice
<1> QED BY <1>1, InitIInv, NextIInv, PTL DEF Spec

-----------------------------------------------------------------------------
(* The order of the snapshots. *)

(* s is no newer than a state of LSN l, version v and next_event_id e. *)
NotPast(s, l, v, e) == s.lsn <= l /\ s.version <= v /\ s.next <= e

(* Snapshot files are ordered alike by LSN, version and next_event_id. *)
Chain == \A s, t \in snaps : s.lsn <= t.lsn => s.version <= t.version /\ s.next <= t.next

(* The live state is past every snapshot, and its LSN is the higher of the *)
(* registry log's durable LSN and next_event_id; during recovery, the      *)
(* highest LSN read.                                                       *)
LivePast ==
  /\ Up => /\ durable < sinkNext
           /\ \A s \in snaps : NotPast(s, Larger(durable, nextEvent), version, nextEvent)
  /\ phase \in {"bumps", "events", "ready"} =>
       \A s \in snaps : NotPast(s, seen, version, nextEvent)

(* So is a snapshot in the making, though it holds an older durable LSN    *)
(* and, in fork mode, an older registry.                                   *)
CapturePast ==
  /\ spc \in {"fork", "lock"} =>
       /\ legacy <= durable
       /\ \A s \in snaps : s.lsn <= Larger(legacy, nextEvent)
  /\ ForkSnapshot /\ spc = "lock" =>
       /\ body.version <= version
       /\ \A s \in snaps : s.version <= body.version
  /\ spc = "write" =>
       /\ NotPast(body, Larger(durable, nextEvent), version, nextEvent)
       /\ \A s \in snaps : NotPast(s, body.lsn, body.version, body.next)

SInv == Chain /\ LivePast /\ CapturePast

LEMMA InitSInv == Init => SInv
BY DEF Init, SInv, Chain, LivePast, CapturePast, Up, Larger

(* The numbers in the snapshots. *)
LEMMA SnapshotNumbers ==
  ASSUME IInv
  PROVE  /\ \A s \in snaps : s.lsn \in Nat /\ s.version \in Nat /\ s.next \in Nat
         /\ body.lsn \in Nat /\ body.version \in Nat /\ body.next \in Nat
         /\ durable \in Nat /\ nextEvent \in Nat /\ version \in Nat /\ sinkNext \in Nat
         /\ legacy \in Nat /\ seen \in Nat
         /\ apc = "appended" => nextEvent < op.lsn /\ op.lsn \in Nat
BY DEF IInv, SnapshotFiles, SnapshotTask, SnapshotOK, BodyOK, TypeOK, ApplyThread, Bumps

(* While the server is up its counters only grow. *)
LEMMA CountersGrow ==
  ASSUME IInv, SInv, Up, Up', UNCHANGED <<snaps, taskVars>>,
         durable' \in Nat, nextEvent' \in Nat, version' \in Nat,
         durable <= durable', nextEvent <= nextEvent', version <= version', durable' < sinkNext'
  PROVE  SInv'
<1> USE SnapshotNumbers DEF SInv, Up, Larger, NotPast, taskVars
<1>1. Chain'
  BY DEF Chain
<1>2. LivePast'
  BY DEF LivePast
<1>3. CapturePast'
  BY DEF CapturePast
<1> QED BY <1>1, <1>2, <1>3

LEMMA NextSInv == IInv /\ SInv /\ [Next]_vars => SInv'
<1> SUFFICES ASSUME IInv, SInv, [Next]_vars PROVE SInv'
  OBVIOUS
<1>1. CASE UNCHANGED vars
  BY <1>1 DEF vars, memVars, diskVars, taskVars, bootVars, SInv, Chain, LivePast, CapturePast, Up
<1>2. CASE Next
  <2> USE SnapshotNumbers DEF Larger
  <2>1. CASE \/ PushAppend \/ PushApply \/ RegisterFsync \/ RegisterFsyncErr
             \/ RegisterRemove \/ RegisterApply
             \/ \E n \in Names : RegisterStage(n)
             \/ Compact \/ \E k \in 1 .. MaxLsn : Flush(k)
    <3>1. Up /\ Up' /\ UNCHANGED <<snaps, taskVars>>
      BY <2>1 DEF PushAppend, PushApply, RegisterFsync, RegisterFsyncErr, RegisterRemove, RegisterApply,
         RegisterStage, Compact, Flush, Up, diskVars
    <3>2. durable < sinkNext
      BY <3>1 DEF SInv, LivePast
    <3>3. /\ durable' \in Nat /\ nextEvent' \in Nat /\ version' \in Nat
          /\ durable <= durable' /\ nextEvent <= nextEvent' /\ version <= version'
          /\ durable' < sinkNext'
      BY <2>1, <3>2 DEF PushAppend, PushApply, RegisterFsync, RegisterFsyncErr, RegisterRemove, RegisterApply,
         RegisterStage, Compact, Flush, memVars
    <3> QED BY <3>1, <3>3, CountersGrow
  <2>2. CASE SnapStart \/ SnapCaptureRegistry \/ SnapCapture \/ SnapFail \/ SnapRequestReclaim
             \/ \E s \in 0 .. MaxLsn : SnapTruncate(s)
    <3>1. Chain' /\ LivePast'
      BY <2>2 DEF SInv, Chain, LivePast, NotPast, SnapStart, SnapCaptureRegistry, SnapCapture,
         SnapFail, SnapRequestReclaim, SnapTruncate, memVars, diskVars, Up
    <3>2. ASSUME SnapStart PROVE CapturePast'
      BY <3>2 DEF SnapStart, SInv, LivePast, CapturePast, NotPast, memVars, diskVars, Up
    <3>3. ASSUME SnapCaptureRegistry PROVE CapturePast'
      BY <3>3 DEF SnapCaptureRegistry, SInv, LivePast, CapturePast, NotPast, memVars, diskVars, Up
    <3>4. ASSUME SnapCapture PROVE CapturePast'
      <4>1. /\ body'.lsn = Larger(legacy, nextEvent) /\ body'.next = nextEvent
            /\ body'.version = IF ForkSnapshot THEN body.version ELSE version
        BY <3>4 DEF SnapCapture
      <4> QED BY <3>4, <4>1 DEF SnapCapture, SInv, LivePast, CapturePast, NotPast, memVars, diskVars, Up
    <3>5. ASSUME SnapFail \/ SnapRequestReclaim \/ \E s \in 0 .. MaxLsn : SnapTruncate(s)
          PROVE  CapturePast'
      BY <3>5 DEF SnapFail, SnapRequestReclaim, SnapTruncate, CapturePast
    <3> QED BY <2>2, <3>1, <3>2, <3>3, <3>4, <3>5 DEF SInv
  <2>3. CASE SnapWrite
    <3>1. \A s \in snaps' : s = body \/ (s \in snaps /\ s.lsn # body.lsn)
      BY <2>3 DEF SnapWrite
    <3>2. /\ NotPast(body, Larger(durable, nextEvent), version, nextEvent)
          /\ \A s \in snaps : NotPast(s, body.lsn, body.version, body.next)
      BY <2>3 DEF SnapWrite, SInv, CapturePast
    <3>3. Chain'
      BY <3>1, <3>2 DEF SInv, Chain, NotPast
    <3>4. LivePast'
      BY <2>3, <3>1, <3>2 DEF SnapWrite, SInv, LivePast, memVars, Up
    <3>5. CapturePast'
      BY <2>3 DEF SnapWrite, CapturePast
    <3> QED BY <3>3, <3>4, <3>5 DEF SInv
  <2>4. CASE SnapPrune
    <3>1. snaps' \subseteq snaps
      BY <2>4 DEF SnapPrune
    <3> QED BY <2>4, <3>1 DEF SnapPrune, SInv, Chain, LivePast, CapturePast, memVars, Up
  <2>5. CASE Shutdown \/ \E k, j \in 0 .. MaxLsn : Crash(k, j)
    <3>1. Down
      BY <2>5 DEF Shutdown, Crash
    <3> QED BY <3>1 DEF Down, SInv, Chain, LivePast, CapturePast, Up
  <2>6. CASE LoadSnapshot
    <3> DEFINE x == CHOOSE x1 \in snaps : \A y \in snaps : y.lsn <= x1.lsn
    <3>1. snaps' = snaps /\ spc' = spc /\ spc = "idle" /\ phase' = "bumps"
      BY <2>6 DEF LoadSnapshot, IInv, ApplyThread, Up, diskVars, taskVars
    <3>2. CASE snaps = {}
      BY <3>1, <3>2 DEF SInv, Chain, LivePast, CapturePast, Up
    <3>3. CASE snaps # {}
      <4>1. x \in snaps /\ \A z \in snaps : z.lsn <= x.lsn
        BY <3>3, NewestSnapshot DEF IInv
      <4>2. version' = x.version /\ nextEvent' = x.next /\ seen' = x.lsn
        BY <2>6, <3>3 DEF LoadSnapshot
      <4> HIDE DEF x
      <4>3. \A s \in snaps : NotPast(s, x.lsn, x.version, x.next)
        BY <4>1 DEF SInv, Chain, NotPast
      <4> QED BY <3>1, <4>2, <4>3 DEF SInv, Chain, LivePast, CapturePast, Up
    <3> QED BY <3>2, <3>3
  <2>7. CASE ReplayBump \/ ReplayEvent \/ BumpsDone \/ EventsDone
    <3>1. /\ phase \in {"bumps", "events", "ready"} /\ phase' \in {"bumps", "events", "ready"}
          /\ snaps' = snaps /\ spc' = spc /\ spc = "idle"
      BY <2>7 DEF ReplayBump, ReplayEvent, BumpsDone, EventsDone, IInv, ApplyThread, Up, diskVars, taskVars
    <3>2. version' \in Nat /\ nextEvent' \in Nat /\ seen' \in Nat
      BY <1>2, NextIInv DEF IInv, TypeOK
    <3>3. version <= version' /\ nextEvent <= nextEvent' /\ seen <= seen'
      <4>1. CASE ReplayBump
        <5>1. NextAfter(log, cursor).lsn \in Nat
          BY <4>1, NextAfterExists DEF ReplayBump, IInv, TypeOK, Bumps
        <5>2. seen' = Larger(seen, NextAfter(log, cursor).lsn) /\ nextEvent' = nextEvent
          BY <4>1 DEF ReplayBump
        <5>3. version' = version \/ version' = version + 1
          BY <4>1 DEF ReplayBump
        <5> QED BY <5>1, <5>2, <5>3
      <4>2. CASE ReplayEvent
        <5>1. NextAfter(wal, cursor).lsn \in Nat
          BY <4>2, NextAfterExists DEF ReplayEvent, IInv, TypeOK, Events
        <5>2. /\ seen' = Larger(seen, NextAfter(wal, cursor).lsn) /\ version' = version
              /\ nextEvent' = Larger(nextEvent, NextAfter(wal, cursor).lsn)
          BY <4>2 DEF ReplayEvent
        <5> QED BY <5>1, <5>2
      <4>3. CASE BumpsDone \/ EventsDone
        BY <4>3 DEF BumpsDone, EventsDone, memVars, bootVars
      <4> QED BY <2>7, <4>1, <4>2, <4>3
    <3> QED BY <3>1, <3>2, <3>3 DEF SInv, Chain, LivePast, CapturePast, NotPast, Up
  <2>8. CASE Start
    <3>1. spc = "idle"
      BY <2>8 DEF Start, IInv, ApplyThread, Up
    <3> QED BY <2>8, <3>1 DEF Start, LastRecovered, SInv, Chain, LivePast, CapturePast, NotPast, Up,
            diskVars, taskVars
  <2>9. CASE Quiet
    BY <1>1, <2>9 DEF Quiet
  <2> QED BY <1>2, <2>1, <2>2, <2>3, <2>4, <2>5, <2>6, <2>7, <2>8, <2>9 DEF Next
<1> QED BY <1>1, <1>2

(* Recovery, which takes the snapshot with the highest LSN, takes the      *)
(* latest state that was saved: no snapshot is ever written under an LSN   *)
(* below that of an older one, across restarts and in both snapshot modes. *)
THEOREM NewestIsLatest == Spec => []SnapshotsAdvance
<1>1. SInv => SnapshotsAdvance
  BY DEF SInv, CapturePast, NotPast, SnapshotsAdvance
<1> QED BY <1>1, InitIInv, NextIInv, InitSInv, NextSInv, PTL DEF Spec

-----------------------------------------------------------------------------
(* What recovery restores. *)

(* The bumps of L after version lo, up to version hi. *)
Between(L, lo, hi) == {b \in L : lo < b.ver /\ b.ver <= hi}

(* The instances q once bump b is installed. *)
After(q, b) == [n \in DOMAIN q \cup {b.name} |-> IF n = b.name THEN b.lsn ELSE q[n]]

(* Replaying the bumps of L turns the instances r of version lo into q of  *)
(* version hi: no version is missing, a bump that does not replace finds   *)
(* its name free, and the last bump of a name counts.                      *)
Leads(lo, r, hi, q, L) ==
  /\ lo <= hi
  /\ \A w \in lo + 1 .. hi : \E b \in L : b.ver = w
  /\ DOMAIN q = DOMAIN r \cup {b.name : b \in Between(L, lo, hi)}
  /\ \A b \in Between(L, lo, hi) :
       \/ b.force
       \/ b.name \notin DOMAIN r /\ \A c \in Between(L, lo, hi) : c.ver < b.ver => c.name # b.name
  /\ \A n \in DOMAIN r : (\A b \in Between(L, lo, hi) : b.name # n) => q[n] = r[n]
  /\ \A b \in Between(L, lo, hi) :
       (\A c \in Between(L, lo, hi) : c.name = b.name => c.ver <= b.ver) => q[b.name] = b.lsn

SavedEvents(s, i) == IF i \in DOMAIN s.tables THEN EventsOf(s.tables[i]) ELSE {}

(* The table of instance i holds what snapshot s has and, of the events E  *)
(* after it up to top, those past the bump that installed i.               *)
Counted(s, t, i, E, top) ==
  EventsOf(t[i]) = SavedEvents(s, i) \cup {l \in Lsns(E) : s.next < l /\ i < l /\ l <= top}

(* Every instance of r can be restored from s, the bumps L and events E. *)
Carries(s, r, t, top, L, E) ==
  \A n \in DOMAIN r :
    (r[n] <= s.lsn \/ r[n] \in Lsns(L)) /\ Counted(s, t, r[n], E, top)

(* The registry and the tables, from s and what the logs hold after it. *)
Restores(s, v, q, r, t, top, L, E) ==
  Leads(s.version, s.reg, v, q, L) /\ Carries(s, r, t, top, L, E)

(* No bump past version v has the LSN of an instance that has a table. *)
Fresh(t, v, L) ==
  /\ DOMAIN t \subseteq Nat
  /\ \A i \in DOMAIN t, b \in L : b.ver > v => i < b.lsn

(* What makes s a snapshot to recover from: truncating L and compacting E  *)
(* at its LSN loses nothing it does not hold.                              *)
Sound(s, L, E) ==
  /\ s.next <= MaxLsn
  /\ s.version = 0 => DOMAIN s.reg = {}
  /\ s.reg = [n \in DOMAIN s.reg |-> s.reg[n]]
  /\ \A b \in L : b.lsn < s.lsn => b.ver <= s.version
  /\ Fresh(s.tables, s.version, L)
  /\ \A e \in E : s.next < e.lsn => s.lsn < e.lsn /\ \A i \in DOMAIN s.tables : i < e.lsn
  /\ \A i \in DOMAIN s.tables : i <= s.lsn \/ i \in Lsns(L)

(* The snapshot recovery would load. *)
Bases == IF snaps = {} THEN {NoBody} ELSE {s \in snaps : \A y \in snaps : y.lsn <= s.lsn}

Installing == apc \in {"fsynced", "removed"}
Pending == apc = "staged" \/ Installing
LiveVersion == IF Installing THEN version + 1 ELSE version
LiveReg == IF Installing THEN After(Instances(reg), op) ELSE Instances(reg)

(* The two logs share one order. *)
Streams ==
  /\ \A b \in log : b.lsn >= 1
  /\ \A a, b \in log : (a.ver < b.ver <=> a.lsn < b.lsn) /\ (a.lsn = b.lsn => a = b)
  /\ \A e \in wal \cup ring, b \in log : e.rv >= b.ver <=> e.lsn > b.lsn
  /\ \A e \in wal \cup ring : e.rv >= 1 /\ e.lsn <= MaxLsn
  /\ \A e \in wal, f \in ring : e.lsn < f.lsn

LiveLog ==
  Up => /\ \A b \in log : b.lsn < sinkNext
        /\ \A b \in log : b \in logSynced \/ (apc = "staged" /\ b = op)
        /\ ~ Pending => \A b \in log : b.ver <= version /\ b.lsn <= durable
        /\ Pending => /\ op \in log /\ op.ver = version + 1
                      /\ nextEvent < op.lsn /\ durable <= op.lsn /\ sinkNext = op.lsn + 1
                      /\ op.force \/ op.name \notin DOMAIN reg
                      /\ \A b \in log : b = op \/ (b.ver <= version /\ b.lsn <= durable)
                      /\ \A e \in wal \cup ring : e.lsn < op.lsn
        /\ Installing => op.lsn = durable

LiveEvents ==
  Up => /\ nextEvent <= MaxLsn
        /\ version = 0 => DOMAIN reg = {}
        /\ \A e \in wal \cup ring : e.rv <= version
        /\ apc # "appended" => \A e \in wal \cup ring : e.lsn <= nextEvent
        /\ apc = "appended" =>
             /\ durable < op.lsn /\ op.lsn <= MaxLsn /\ op.lsn \in Lsns(wal \cup ring)
             /\ \A e \in wal \cup ring : e.lsn <= nextEvent \/ e.lsn = op.lsn
        /\ \A i \in DOMAIN tables : i <= durable
        /\ Fresh(tables, version, log)

BasesSound ==
  /\ \A s, t \in Bases : s = t
  /\ \A s \in Bases :
       /\ Sound(s, log, wal \cup ring)
       /\ requested <= s.lsn
       /\ \A l \in kept : l <= s.next \/ \E e \in wal : l <= e.lsn

BasesLead ==
  phase # "load" =>
    \A s \in Bases : Restores(s, LiveVersion, LiveReg, Instances(reg), tables, nextEvent,
                              log, wal \cup ring)

Saving ==
  /\ ForkSnapshot /\ spc = "lock" => body.version = version /\ body.reg = Instances(reg)
  /\ spc = "write" => /\ Sound(body, log, wal \cup ring)
                      /\ Restores(body, LiveVersion, LiveReg, Instances(reg), tables, nextEvent,
                                  log, wal \cup ring)
  /\ spc \in {"truncate", "reclaim"} => \A s \in Bases : body.lsn <= s.lsn

(* The bumps left lead to the registry at the crash, or past the bump in   *)
(* progress.                                                               *)
Reaches(v, r) ==
  \/ /\ ~ want.bumpSynced
     /\ Leads(v, r, want.version, want.reg, log) /\ \A b \in log : b.ver <= want.version
  \/ /\ want.bump # NoOp
     /\ Leads(v, r, want.version + 1, After(want.reg, want.bump), log)
     /\ \A b \in log : b.ver <= want.version + 1

(* The tables t at the crash, against snapshot s and the events F of the   *)
(* .wal file.                                                              *)
Wanted(s, i, t, F) ==
  /\ i \in DOMAIN t
  /\ SavedEvents(s, i) \subseteq EventsOf(t[i])
  /\ \A e \in F : s.next < e.lsn /\ i < e.lsn => e.lsn \in EventsOf(t[i])
  /\ \A l \in EventsOf(t[i]) :
       \/ l \in SavedEvents(s, i)
       \/ l \in Nat /\ s.next < l /\ i < l /\ (l \in Lsns(F) \/ \A e \in F : e.lsn < l)

Target ==
  /\ want.version \in Nat
  /\ want.reg = [n \in DOMAIN want.reg |-> want.reg[n]]
  /\ ~ Up => /\ ring = {} /\ logSynced = log /\ requested = 0
             /\ \A e \in wal : e.rv <= want.version
             /\ \A s \in Bases : /\ Reaches(s.version, s.reg)
                                 /\ \A n \in DOMAIN want.reg : Wanted(s, want.reg[n], want.tables, wal)
             /\ want.bump # NoOp =>
                  /\ \A e \in wal : e.lsn < want.bump.lsn
                  /\ want.bump.lsn \notin DOMAIN want.tables
                  /\ \A s \in Bases : want.bump.lsn \notin DOMAIN s.tables

Replaying ==
  phase \in {"bumps", "events", "ready"} =>
    /\ nextEvent <= MaxLsn
    /\ version = 0 => DOMAIN reg = {}
    /\ Reaches(version, Instances(reg))
    /\ Fresh(tables, version, log)
    /\ \A i \in DOMAIN tables : i <= seen \/ i \in Lsns(log)
    /\ \A s \in Bases :
         /\ nextEvent = s.next \/ (phase # "bumps" /\ nextEvent \in Lsns(wal))
         /\ \A n \in DOMAIN reg :
              \/ reg[n].at <= 1 /\ reg[n].inst \in DOMAIN s.tables
              \/ \E b \in log : b.lsn = reg[n].inst /\ b.ver = reg[n].at
    /\ \A b \in log : phase = "bumps" => (b.lsn <= cursor => b.ver <= version /\ b.lsn <= seen)
    /\ \A b \in log : phase # "bumps" => b.ver <= version /\ b.lsn <= seen
    /\ phase = "events" => cursor = nextEvent
    /\ phase = "ready" => \A e \in wal : e.lsn <= nextEvent

RInv ==
  /\ Streams /\ LiveLog /\ LiveEvents /\ BasesSound /\ BasesLead
  /\ Saving /\ Target /\ Replaying

(* The two conditions recovery depends on: no fsync of the registry log    *)
(* fails, and the registry a fork snapshot has captured does not change    *)
(* before its tables are.                                                  *)
FsyncsSucceed == ~ RegisterFsyncErr
CaptureUndisturbed == ForkSnapshot /\ spc = "lock" /\ Up /\ Up' => UNCHANGED <<version, reg>>

-----------------------------------------------------------------------------
(* Replaying bumps. *)

(* What installing a bump changes in the instances. *)
LEMMA AfterIs ==
  ASSUME NEW q, NEW b
  PROVE  /\ DOMAIN After(q, b) = DOMAIN q \cup {b.name}
         /\ After(q, b)[b.name] = b.lsn
         /\ \A n \in DOMAIN q : n # b.name => After(q, b)[n] = q[n]
BY DEF After

(* No bumps, no change. *)
LEMMA LeadsNowhere ==
  ASSUME NEW v \in Nat, NEW r, NEW L, \A b \in L : b.ver \in Nat
  PROVE  Leads(v, r, v, r, L)
<1>1. Between(L, v, v) = {}
  BY DEF Between
<1>2. v + 1 .. v = {}
  OBVIOUS
<1>3. {b.name : b \in Between(L, v, v)} = {}
  BY <1>1
<1>4. \A w \in v + 1 .. v : \E b \in L : b.ver = w
  BY <1>2
<1>5. v <= v
  OBVIOUS
<1>6. DOMAIN r = DOMAIN r \cup {b.name : b \in Between(L, v, v)}
  BY <1>3
<1>7. /\ \A b \in Between(L, v, v) :
           \/ b.force
           \/ b.name \notin DOMAIN r /\ \A c \in Between(L, v, v) : c.ver < b.ver => c.name # b.name
      /\ \A b \in Between(L, v, v) :
           (\A c \in Between(L, v, v) : c.name = b.name => c.ver <= b.ver) => r[b.name] = b.lsn
  BY <1>1
<1> QED BY <1>4, <1>5, <1>6, <1>7 DEF Leads

(* Only the bumps in between matter. *)
LEMMA LeadsSame ==
  ASSUME NEW lo \in Nat, NEW r, NEW hi \in Nat, NEW q, NEW L, NEW M,
         Leads(lo, r, hi, q, L), Between(L, lo, hi) = Between(M, lo, hi)
  PROVE  Leads(lo, r, hi, q, M)
<1>1. \A w \in lo + 1 .. hi : \E b \in M : b.ver = w
  <2> SUFFICES ASSUME NEW w \in lo + 1 .. hi PROVE \E b \in M : b.ver = w
    OBVIOUS
  <2>1. PICK b \in L : b.ver = w
    BY DEF Leads
  <2>2. b \in Between(L, lo, hi)
    BY <2>1 DEF Between
  <2> QED BY <2>1, <2>2 DEF Between
<1> QED BY <1>1 DEF Leads

(* A bump more at the end. *)
LEMMA LeadsBack ==
  ASSUME NEW lo \in Nat, NEW r, NEW hi \in Nat, NEW q, NEW L, NEW b \in L,
         \A a \in L : a.ver \in Nat, \A a \in L : a.ver = hi + 1 => a = b,
         Leads(lo, r, hi, q, L), b.ver = hi + 1, b.force \/ b.name \notin DOMAIN q
  PROVE  Leads(lo, r, hi + 1, After(q, b), L)
<1> DEFINE B == Between(L, lo, hi)
           C == Between(L, lo, hi + 1)
<1>0. lo <= hi
  BY DEF Leads
<1>1. C = B \cup {b}
  BY <1>0 DEF Between
<1>2. \A c \in B : c.ver \in Nat /\ c.ver <= hi /\ c # b
  BY DEF Between
<1>3. DOMAIN q = DOMAIN r \cup {c.name : c \in B}
  BY DEF Leads
<1>4. \A w \in lo + 1 .. hi + 1 : \E c \in L : c.ver = w
  <2>1. \A w \in lo + 1 .. hi + 1 : w = hi + 1 \/ w \in lo + 1 .. hi
    OBVIOUS
  <2>2. \A w \in lo + 1 .. hi : \E c \in L : c.ver = w
    BY DEF Leads
  <2> QED BY <2>1, <2>2
<1>5. /\ \A c \in B : c.force \/ (c.name \notin DOMAIN r /\ \A d \in B : d.ver < c.ver => d.name # c.name)
      /\ \A n \in DOMAIN r : (\A c \in B : c.name # n) => q[n] = r[n]
      /\ \A c \in B : (\A d \in B : d.name = c.name => d.ver <= c.ver) => q[c.name] = c.lsn
  BY DEF Leads
<1>a. /\ DOMAIN After(q, b) = DOMAIN q \cup {b.name}
      /\ After(q, b)[b.name] = b.lsn
      /\ \A n \in DOMAIN q : n # b.name => After(q, b)[n] = q[n]
  BY AfterIs
<1> HIDE DEF B, C
<1>6. DOMAIN After(q, b) = DOMAIN r \cup {c.name : c \in C}
  BY <1>1, <1>3, <1>a
<1>7. ASSUME NEW c \in C
      PROVE  c.force \/ (c.name \notin DOMAIN r /\ \A d \in C : d.ver < c.ver => d.name # c.name)
  <2>1. CASE c = b
    <3>1. \A d \in C : d.ver < b.ver => d \in B
      BY <1>1, <1>2
    <3> QED BY <1>3, <2>1, <3>1
  <2>2. CASE c \in B
    BY <1>1, <1>2, <1>5, <2>2
  <2> QED BY <1>1, <2>1, <2>2
<1>8. ASSUME NEW n \in DOMAIN r, \A c \in C : c.name # n PROVE After(q, b)[n] = r[n]
  BY <1>1, <1>3, <1>5, <1>8, <1>a
<1>9. ASSUME NEW c \in C, \A d \in C : d.name = c.name => d.ver <= c.ver
      PROVE  After(q, b)[c.name] = c.lsn
  <2>1. CASE c = b
    BY <2>1, <1>a
  <2>2. CASE c \in B
    <3>1. b.name # c.name
      BY <1>1, <1>2, <1>9, <2>2
    <3> QED BY <1>1, <1>3, <1>5, <1>9, <2>2, <3>1, <1>a
  <2> QED BY <1>1, <2>1, <2>2
<1>10. lo <= hi + 1
  BY <1>0
<1> QED BY <1>10, <1>4, <1>6, <1>7, <1>8, <1>9 DEF Leads, C

(* The first bump replayed. *)
LEMMA LeadsFront ==
  ASSUME NEW lo \in Nat, NEW r, NEW hi \in Nat, NEW q, NEW L, NEW b \in L,
         \A a \in L : a.ver \in Nat, \A a \in L : a.ver = lo + 1 => a = b,
         Leads(lo, r, hi, q, L), b.ver = lo + 1, lo + 1 <= hi
  PROVE  Leads(lo + 1, After(r, b), hi, q, L) /\ (b.force \/ b.name \notin DOMAIN r)
<1> DEFINE B == Between(L, lo, hi)
           C == Between(L, lo + 1, hi)
<1>1. C = B \ {b} /\ b \in B
  BY DEF Between
<1>2. \A c \in C : c.ver \in Nat /\ b.ver < c.ver /\ c \in B
  BY DEF Between
<1>3. DOMAIN q = DOMAIN r \cup {c.name : c \in B}
  BY DEF Leads
<1>4. \A w \in lo + 1 + 1 .. hi : \E c \in L : c.ver = w
  <2>1. \A w \in lo + 1 + 1 .. hi : w \in lo + 1 .. hi
    OBVIOUS
  <2> QED BY <2>1 DEF Leads
<1>5. /\ \A c \in B : c.force \/ (c.name \notin DOMAIN r /\ \A d \in B : d.ver < c.ver => d.name # c.name)
      /\ \A n \in DOMAIN r : (\A c \in B : c.name # n) => q[n] = r[n]
      /\ \A c \in B : (\A d \in B : d.name = c.name => d.ver <= c.ver) => q[c.name] = c.lsn
  BY DEF Leads
<1>a. /\ DOMAIN After(r, b) = DOMAIN r \cup {b.name}
      /\ After(r, b)[b.name] = b.lsn
      /\ \A n \in DOMAIN r : n # b.name => After(r, b)[n] = r[n]
  BY AfterIs
<1> HIDE DEF B, C
<1>6. DOMAIN q = DOMAIN After(r, b) \cup {c.name : c \in C}
  BY <1>1, <1>3, <1>a
<1>7. ASSUME NEW c \in C
      PROVE  c.force \/ (c.name \notin DOMAIN After(r, b) /\ \A d \in C : d.ver < c.ver => d.name # c.name)
  BY <1>1, <1>2, <1>5, <1>a
<1>8. ASSUME NEW n \in DOMAIN After(r, b), \A c \in C : c.name # n PROVE q[n] = After(r, b)[n]
  <2>1. CASE n = b.name
    <3>1. \A d \in B : d.name = b.name => d.ver <= b.ver
      BY <1>1, <1>8, <2>1
    <3> QED BY <1>1, <1>5, <2>1, <3>1, <1>a
  <2>2. CASE n # b.name
    <3>1. n \in DOMAIN r /\ \A c \in B : c.name # n
      BY <1>1, <1>8, <2>2, <1>a
    <3> QED BY <1>5, <2>2, <3>1, <1>a
  <2> QED BY <2>1, <2>2
<1>9. ASSUME NEW c \in C, \A d \in C : d.name = c.name => d.ver <= c.ver
      PROVE  q[c.name] = c.lsn
  <2>1. \A d \in B : d.name = c.name => d.ver <= c.ver
    BY <1>1, <1>2, <1>9
  <2> QED BY <1>2, <1>5, <2>1
<1> QED BY <1>1, <1>4, <1>5, <1>6, <1>7, <1>8, <1>9 DEF Leads, C

(* Nothing left to replay. *)
LEMMA LeadsDone ==
  ASSUME NEW lo \in Nat, NEW r, NEW hi \in Nat, NEW q, NEW L,
         \A a \in L : a.ver \in Nat /\ a.ver <= lo, Leads(lo, r, hi, q, L)
  PROVE  lo = hi /\ DOMAIN q = DOMAIN r /\ \A n \in DOMAIN r : q[n] = r[n]
<1>1. lo = hi
  <2> SUFFICES ASSUME lo # hi PROVE FALSE
    OBVIOUS
  <2>1. hi \in lo + 1 .. hi
    BY DEF Leads
  <2>2. PICK b \in L : b.ver = hi
    BY <2>1 DEF Leads
  <2> QED BY <2>1, <2>2
<1>2. Between(L, lo, hi) = {}
  BY DEF Between
<1> QED BY <1>1, <1>2 DEF Leads

(* The registry r once bump b is installed at version v. *)
Put(r, b, v) ==
  [n \in DOMAIN r \cup {b.name} |-> IF n = b.name THEN [inst |-> b.lsn, at |-> v] ELSE r[n]]

(* The instances after a bump is installed. *)
LEMMA PutInstances ==
  ASSUME NEW r, NEW b, NEW v PROVE Instances(Put(r, b, v)) = After(Instances(r), b)
BY DEF Instances, After, Put

(* The name the bump installs. *)
LEMMA PutNew ==
  ASSUME NEW r, NEW b, NEW v PROVE Put(r, b, v)[b.name].inst = b.lsn /\ Put(r, b, v)[b.name].at = v
BY DEF Put

(* The other names. *)
LEMMA PutOld ==
  ASSUME NEW r, NEW b, NEW v
  PROVE  /\ DOMAIN Put(r, b, v) = DOMAIN r \cup {b.name}
         /\ \A n \in DOMAIN r : n # b.name => Put(r, b, v)[n] = r[n]
BY DEF Put

-----------------------------------------------------------------------------
(* Snapshots. *)

(* Losing records of the logs that s holds. *)
LEMMA SoundShrink ==
  ASSUME NEW s, NEW L, NEW M, NEW E, NEW F, Sound(s, L, E), M \subseteq L, F \subseteq E,
         \A b \in L : b \in M \/ b.lsn <= s.lsn \/ b.lsn \notin DOMAIN s.tables
  PROVE  Sound(s, M, F)
<1>1. \A i \in DOMAIN s.tables : i <= s.lsn \/ i \in Lsns(M)
  BY DEF Sound, Lsns
<1> QED BY <1>1 DEF Sound, Fresh

(* Appending an event adds it to the table's events. *)
LEMMA AppendEvents ==
  ASSUME NEW t \in Seq(Nat), NEW l \in Nat
  PROVE  EventsOf(Append(t, l)) = EventsOf(t) \cup {l}
<1> DEFINE a == Append(t, l)
           m == Len(t)
<1>1. m \in Nat /\ DOMAIN t = 1 .. m /\ DOMAIN a = 1 .. m + 1
  OBVIOUS
<1>2. a[m + 1] = l /\ \A j \in 1 .. m : a[j] = t[j]
  OBVIOUS
<1> HIDE DEF a, m
<1>3. \A j \in 1 .. m + 1 : j = m + 1 \/ j \in 1 .. m
  BY <1>1
<1>4. \A j \in 1 .. m : j \in 1 .. m + 1
  BY <1>1
<1>5. m + 1 \in 1 .. m + 1
  BY <1>1
<1>6. EventsOf(a) = EventsOf(t) \cup {l}
  BY <1>1, <1>2, <1>3, <1>4, <1>5 DEF EventsOf
<1> QED BY <1>6 DEF a

(* An empty table holds no event. *)
LEMMA NoEvents == EventsOf(<<>>) = {}
BY DEF EventsOf

-----------------------------------------------------------------------------
(* The types the recovery invariant rests on. *)

(* LSNs and versions are natural numbers. *)
LEMMA LogNumbers ==
  ASSUME IInv
  PROVE  /\ \A b \in log : b.lsn \in Nat /\ b.ver \in Nat /\ b.name \in Names /\ b.force \in BOOLEAN
         /\ \A e \in wal \cup ring : e.lsn \in Nat /\ e.rv \in Nat
         /\ MaxLsn \in Nat /\ version \in Nat /\ nextEvent \in Nat /\ committed \in Nat
         /\ sinkNext \in Nat /\ durable \in Nat /\ requested \in Nat /\ cursor \in Nat /\ seen \in Nat
         /\ kept \subseteq Nat
         /\ DOMAIN reg \subseteq Names
         /\ \A n \in DOMAIN reg : /\ reg[n].inst \in Nat /\ reg[n].at \in Nat
                                  /\ reg[n].inst \in DOMAIN tables
BY DurabilityAssumption DEF IInv, TypeOK, Bumps, Events

(* Recovery without a snapshot starts from an empty one. *)
LEMMA NoBodyOK == SnapshotOK(NoBody) /\ NoBody.lsn = 0 /\ NoBody.version = 0 /\ NoBody.next = 0
                  /\ DOMAIN NoBody.reg = {} /\ DOMAIN NoBody.tables = {}
BY DEF NoBody, SnapshotOK, BodyOK, InOrder

(* There is a snapshot, or none, to recover from. *)
LEMMA BaseExists ==
  ASSUME IInv PROVE \E s \in Bases : TRUE
<1>1. CASE snaps = {}
  BY <1>1 DEF Bases
<1>2. CASE snaps # {}
  <2>1. \E s \in snaps : \A y \in snaps : y.lsn <= s.lsn
    BY <1>2, NewestSnapshot DEF IInv
  <2> QED BY <2>1, <1>2 DEF Bases
<1> QED BY <1>1, <1>2

(* The snapshot recovery would load is well formed. *)
LEMMA BaseOK ==
  ASSUME IInv, NEW s \in Bases
  PROVE  /\ s.lsn \in Nat /\ s.version \in Nat /\ s.next \in Nat
         /\ DOMAIN s.reg \subseteq Names
         /\ \A n \in DOMAIN s.reg : s.reg[n] \in Nat /\ s.reg[n] \in DOMAIN s.tables
         /\ InOrder(s.tables, s.next)
<1>1. SnapshotOK(s)
  BY NoBodyOK DEF Bases, IInv, SnapshotFiles
<1> QED BY <1>1 DEF SnapshotOK, BodyOK

(* The live state, and a recovering one, is past the base. *)
LEMMA BasePast ==
  ASSUME IInv, SInv, NEW s \in Bases
  PROVE  /\ Up => NotPast(s, Larger(durable, nextEvent), version, nextEvent)
         /\ phase \in {"bumps", "events", "ready"} => NotPast(s, seen, version, nextEvent)
         /\ spc \in {"fork", "lock"} => s.lsn <= Larger(legacy, nextEvent)
         /\ spc = "write" => NotPast(s, body.lsn, body.version, body.next)
<1>1. s = NoBody \/ s \in snaps
  BY DEF Bases
<1>2. CASE s \in snaps
  BY <1>2 DEF SInv, LivePast, CapturePast
<1>3. CASE s = NoBody
  BY <1>3, NoBodyOK, SnapshotNumbers DEF NotPast, Larger
<1> QED BY <1>1, <1>2, <1>3

(* What a step that leaves all this alone keeps. *)
Settled == /\ Streams /\ LiveLog /\ LiveEvents /\ BasesSound /\ BasesLead
           /\ Target /\ Replaying

(* A step that only moves the snapshot task. *)
LEMMA Undisturbed ==
  ASSUME RInv,
         UNCHANGED <<phase, apc, op, version, reg, tables, nextEvent, sinkNext, durable,
                     ring, wal, log, logSynced, requested, snaps, kept, want, cursor, seen>>
  PROVE  Settled'
<1> USE DEF RInv
<1>1. Streams'
  BY DEF Streams
<1>2. LiveLog'
  BY DEF LiveLog, Up, Pending, Installing
<1>3. LiveEvents'
  BY DEF LiveEvents, Up
<1>4. Bases' = Bases
  BY DEF Bases
<1>5. BasesSound'
  BY <1>4 DEF BasesSound
<1>6. BasesLead'
  BY <1>4 DEF BasesLead, LiveVersion, LiveReg, Installing
<1>7. Target'
  BY <1>4 DEF Target, Reaches, Up
<1>8. Replaying'
  BY <1>4 DEF Replaying, Reaches
<1> QED BY <1>1, <1>2, <1>3, <1>5, <1>6, <1>7, <1>8 DEF Settled

(* The logs keep their order when records are lost. *)
LEMMA StreamsShrink ==
  ASSUME IInv, Streams, log' \subseteq log, wal' \cup ring' \subseteq wal \cup ring,
         \A e \in wal', f \in ring' : e.lsn < f.lsn
  PROVE  Streams'
BY DEF Streams

(* The invariant holds at the first start. *)
LEMMA InitRInv == Init => RInv
<1> SUFFICES ASSUME Init PROVE RInv
  OBVIOUS
<1>0. MaxLsn \in Nat
  BY DurabilityAssumption
<1>1. Bases = {NoBody} /\ NoBody.lsn = 0 /\ NoBody.version = 0 /\ NoBody.next = 0
      /\ NoBody.reg = <<>> /\ NoBody.tables = <<>> /\ DOMAIN <<>> = {}
  BY DEF Init, Bases, NoBody
<1>2. Streams /\ LiveLog /\ LiveEvents
  BY <1>0, <1>1 DEF Init, Streams, LiveLog, LiveEvents, Pending, Installing, Fresh
<1>3. BasesSound
  BY <1>0, <1>1 DEF Init, BasesSound, Sound, Fresh
<1>4. Instances(reg) = <<>>
  BY DEF Init, Instances
<1>5. BasesLead
  <2>1. Leads(0, <<>>, 0, <<>>, {})
    BY LeadsNowhere
  <2>2. Carries(NoBody, <<>>, tables, nextEvent, log, wal \cup ring)
    BY <1>1 DEF Carries
  <2> QED BY <1>1, <1>4, <2>1, <2>2 DEF Init, BasesLead, Restores, LiveVersion, LiveReg, Installing
<1>6. Saving
  BY DEF Init, Saving
<1>7. Target
  <2>1. want.version = 0 /\ want.reg = <<>>
    BY DEF Init
  <2>2. <<>> = [n \in DOMAIN <<>> |-> <<>>[n]]
    OBVIOUS
  <2> QED BY <2>1, <2>2 DEF Init, Target, Up
<1>8. Replaying
  BY DEF Init, Replaying
<1> QED BY <1>2, <1>3, <1>5, <1>6, <1>7, <1>8 DEF RInv

-----------------------------------------------------------------------------
(* Steps of the apply thread and the writer. *)

(* What is known of a snapshot while the server is up. *)
Earlier(s) ==
  /\ s.lsn \in Nat /\ s.version \in Nat /\ s.next \in Nat
  /\ s.lsn <= Larger(durable, nextEvent) /\ s.version <= version /\ s.next <= nextEvent
  /\ requested <= s.lsn
  /\ Sound(s, log, wal \cup ring)
  /\ Restores(s, LiveVersion, LiveReg, Instances(reg), tables, nextEvent, log, wal \cup ring)

(* The base, and a snapshot about to be written, are such snapshots. *)
LEMMA BasesEarlier ==
  ASSUME IInv, SInv, RInv, Up
  PROVE  /\ \A s \in Bases : Earlier(s)
         /\ spc = "write" => Earlier(body)
<1>1. ASSUME NEW s \in Bases PROVE Earlier(s)
  <2>1. s.lsn <= Larger(durable, nextEvent) /\ s.version <= version /\ s.next <= nextEvent
    BY <1>1, BasePast DEF NotPast
  <2>2. requested <= s.lsn /\ Sound(s, log, wal \cup ring)
    BY <1>1 DEF RInv, BasesSound
  <2>3. Restores(s, LiveVersion, LiveReg, Instances(reg), tables, nextEvent, log, wal \cup ring)
    BY <1>1 DEF RInv, BasesLead, Up
  <2>4. s.lsn \in Nat /\ s.version \in Nat /\ s.next \in Nat
    BY <1>1, BaseOK
  <2> QED BY <2>1, <2>2, <2>3, <2>4 DEF Earlier
<1>2. ASSUME spc = "write" PROVE Earlier(body)
  <2>1. body.lsn <= Larger(durable, nextEvent) /\ body.version <= version /\ body.next <= nextEvent
    BY <1>2 DEF SInv, CapturePast, NotPast
  <2>2. PICK s \in Bases : TRUE
    BY BaseExists
  <2>3. s.lsn <= body.lsn /\ requested <= s.lsn
    BY <1>2, <2>2, BasePast DEF NotPast, RInv, BasesSound
  <2>4. body.lsn \in Nat /\ body.version \in Nat /\ body.next \in Nat /\ s.lsn \in Nat /\ requested \in Nat
    BY <2>2, BaseOK, SnapshotNumbers, LogNumbers
  <2>5. requested <= body.lsn
    BY <2>3, <2>4
  <2>6. /\ Sound(body, log, wal \cup ring)
        /\ Restores(body, LiveVersion, LiveReg, Instances(reg), tables, nextEvent, log, wal \cup ring)
    BY <1>2 DEF RInv, Saving
  <2> QED BY <2>1, <2>4, <2>5, <2>6 DEF Earlier
<1> QED BY <1>1, <1>2

(* A step of the apply thread or the writer that keeps what an earlier     *)
(* snapshot promises keeps what the base and the snapshot in the making    *)
(* promise.                                                                *)
LEMMA SnapshotsKept ==
  ASSUME IInv, SInv, RInv, Up, Up', UNCHANGED <<snaps, spc, body, requested>>,
         \A s \in Bases : \A l \in kept' : l <= s.next \/ \E e \in wal' : l <= e.lsn,
         \A s : Earlier(s) =>
           /\ Sound(s, log', wal' \cup ring')
           /\ Restores(s, LiveVersion', LiveReg', Instances(reg'), tables', nextEvent', log', wal' \cup ring'),
         ForkSnapshot /\ spc = "lock" => UNCHANGED <<version, reg>>
  PROVE  BasesSound' /\ BasesLead' /\ Saving'
<1>1. Bases' = Bases
  BY DEF Bases
<1>2. \A s \in Bases : Earlier(s) /\ requested <= s.lsn
  BY BasesEarlier DEF Earlier
<1>3. BasesSound'
  BY <1>1, <1>2 DEF RInv, BasesSound
<1>4. BasesLead'
  BY <1>1, <1>2 DEF BasesLead
<1>5. ASSUME spc = "write"
      PROVE  /\ Sound(body, log', wal' \cup ring')
             /\ Restores(body, LiveVersion', LiveReg', Instances(reg'), tables', nextEvent', log', wal' \cup ring')
  BY <1>5, BasesEarlier
<1>6. spc \in {"truncate", "reclaim"} => \A s \in Bases : body.lsn <= s.lsn
  BY DEF RInv, Saving
<1>7. ForkSnapshot /\ spc = "lock" => body.version = version' /\ body.reg = Instances(reg')
  BY DEF RInv, Saving
<1>8. Saving'
  BY <1>1, <1>5, <1>6, <1>7 DEF Saving
<1> QED BY <1>3, <1>4, <1>8

(* While the server is up there is nothing to say of recovery. *)
LEMMA StaysUp ==
  ASSUME RInv, Up', want' = want PROVE Target' /\ Replaying'
BY DEF RInv, Target, Replaying, Up

(* The tables and the registry can be restored as long as what the logs    *)
(* lose is in s.                                                           *)
LEMMA CarriesSame ==
  ASSUME NEW s, NEW r, NEW t, NEW top, NEW L, NEW M, NEW E, NEW F, Carries(s, r, t, top, L, E),
         \A b \in L : b \in M \/ b.lsn <= s.lsn,
         \A l : s.next < l /\ l <= top => (l \in Lsns(E) <=> l \in Lsns(F))
  PROVE  Carries(s, r, t, top, M, F)
<1> SUFFICES ASSUME NEW n \in DOMAIN r
             PROVE  (r[n] <= s.lsn \/ r[n] \in Lsns(M)) /\ Counted(s, t, r[n], F, top)
  BY DEF Carries
<1>1. r[n] <= s.lsn \/ r[n] \in Lsns(M)
  BY DEF Carries, Lsns
<1>2. Counted(s, t, r[n], E, top)
  BY DEF Carries
<1>3. Counted(s, t, r[n], F, top)
  BY <1>2 DEF Counted
<1> QED BY <1>1, <1>3

(* The events of a table after one more is applied. *)
LEMMA AppliedEvents ==
  ASSUME NEW t, NEW top, InOrder(t, top), NEW r, NEW names, NEW l \in Nat, NEW i \in DOMAIN t
  PROVE  /\ (\E n \in names : r[n].inst = i) =>
               EventsOf(Applied(t, r, names, l)[i]) = EventsOf(t[i]) \cup {l}
         /\ ~ (\E n \in names : r[n].inst = i) =>
               EventsOf(Applied(t, r, names, l)[i]) = EventsOf(t[i])
<1>1. t[i] \in Seq(Nat)
  BY DEF InOrder
<1>2. Applied(t, r, names, l)[i] = IF \E n \in names : r[n].inst = i THEN Append(t[i], l) ELSE t[i]
  BY DEF Applied
<1> QED BY <1>1, <1>2, AppendEvents

(* dispatch_push_sync appends past both logs' LSNs. *)
LEMMA PushAppendR ==
  ASSUME IInv, SInv, RInv, PushAppend PROVE RInv'
<1> DEFINE l == PushLsn
           e0 == [lsn |-> l, rv |-> version]
<1>1. /\ Up /\ Up' /\ apc = "idle" /\ apc' = "appended" /\ op'.lsn = l /\ l <= MaxLsn
      /\ wal' \cup ring' = (wal \cup ring) \cup {e0} /\ wal' = wal /\ ring' = ring \cup {e0}
      /\ UNCHANGED <<log, logSynced, version, reg, tables, nextEvent, sinkNext, durable,
                     snaps, requested, spc, body, kept, want>>
  BY DEF PushAppend, Up, taskVars, histVars
<1>2. ~ Installing /\ ~ Pending /\ ~ Installing' /\ ~ Pending'
  BY <1>1 DEF Installing, Pending
<1>3. /\ nextEvent <= committed /\ l \in Nat /\ committed < l /\ durable < l /\ nextEvent < l
  BY <1>1, LogNumbers DEF PushLsn, Larger, IInv, ApplyThread
<1>4. \A e \in wal \cup ring : e.lsn <= nextEvent /\ e.rv <= version
  BY <1>1 DEF RInv, LiveEvents
<1>5. \A b \in log : b.ver <= version /\ b.lsn <= durable /\ b.lsn < sinkNext /\ b \in logSynced
  BY <1>1, <1>2 DEF RInv, LiveLog
<1>6. version >= 1
  BY <1>1, LogNumbers DEF PushAppend, RInv, LiveEvents
<1>7. e0.lsn = l /\ e0.rv = version
  OBVIOUS
<1> HIDE DEF l, e0
<1> USE LogNumbers
<1>8. Streams'
  <2>1. /\ \A e \in wal \cup ring, b \in log : e.rv >= b.ver <=> e.lsn > b.lsn
        /\ \A e \in wal \cup ring : e.rv >= 1 /\ e.lsn <= MaxLsn
        /\ \A e \in wal, f \in ring : e.lsn < f.lsn
    BY DEF RInv, Streams
  <2>2. \A b \in log : e0.rv >= b.ver /\ e0.lsn > b.lsn
    BY <1>3, <1>5, <1>7
  <2>3. \A e \in wal : e.lsn < e0.lsn
    BY <1>3, <1>4, <1>7
  <2>4. /\ \A a, b \in log : (a.ver < b.ver <=> a.lsn < b.lsn) /\ (a.lsn = b.lsn => a = b)
        /\ \A b \in log : b.lsn >= 1
    BY DEF RInv, Streams
  <2> QED BY <1>1, <1>6, <1>7, <2>1, <2>2, <2>3, <2>4 DEF Streams
<1>9. LiveLog'
  BY <1>1, <1>2, <1>5 DEF LiveLog
<1>10. LiveEvents'
  <2>1. l \in Lsns(wal' \cup ring')
    BY <1>1, <1>7 DEF Lsns
  <2>2. \A e \in wal' \cup ring' : (e.lsn <= nextEvent \/ e.lsn = l) /\ e.rv <= version
    BY <1>1, <1>4, <1>7
  <2>3. /\ nextEvent <= MaxLsn /\ Fresh(tables, version, log) /\ \A i \in DOMAIN tables : i <= durable
        /\ version = 0 => DOMAIN reg = {}
    BY <1>1 DEF RInv, LiveEvents
  <2> QED BY <1>1, <1>3, <2>1, <2>2, <2>3 DEF LiveEvents
<1>11. LiveVersion' = LiveVersion /\ LiveReg' = LiveReg
  BY <1>1, <1>2 DEF LiveVersion, LiveReg
<1>12. ASSUME NEW s, Earlier(s)
       PROVE  /\ Sound(s, log', wal' \cup ring')
              /\ Restores(s, LiveVersion', LiveReg', Instances(reg'), tables', nextEvent', log', wal' \cup ring')
  <2>1. s.lsn < l
    BY <1>3, <1>12 DEF Earlier, Larger
  <2>2. \A i \in DOMAIN s.tables : i < l
    <3>1. \A i \in DOMAIN s.tables : i <= s.lsn \/ i \in Lsns(log)
      BY <1>12 DEF Earlier, Sound
    <3>2. DOMAIN s.tables \subseteq Nat
      BY <1>12 DEF Earlier, Sound, Fresh
    <3> QED BY <1>3, <1>5, <1>12, <2>1, <3>1, <3>2 DEF Lsns, Earlier
  <2>3. Sound(s, log', wal' \cup ring')
    BY <1>1, <1>7, <1>12, <2>1, <2>2 DEF Earlier, Sound
  <2>4. \A k : s.next < k /\ k <= nextEvent => (k \in Lsns(wal \cup ring) <=> k \in Lsns(wal' \cup ring'))
    BY <1>1, <1>3, <1>7 DEF Lsns
  <2>5. Carries(s, Instances(reg), tables, nextEvent, log, wal' \cup ring')
    BY <1>12, <2>4, CarriesSame DEF Earlier, Restores
  <2> QED BY <1>1, <1>11, <1>12, <2>3, <2>5 DEF Earlier, Restores
<1>13. BasesSound' /\ BasesLead' /\ Saving'
  <2>1. \A s \in Bases : \A k \in kept' : k <= s.next \/ \E e \in wal' : k <= e.lsn
    BY <1>1 DEF RInv, BasesSound
  <2> QED BY <1>1, <1>12, <2>1, SnapshotsKept
<1> QED BY <1>1, <1>8, <1>9, <1>10, <1>13, StaysUp DEF RInv

(* Once the appended event is applied, the tables can still be restored. *)
LEMMA AppendedCounted ==
  ASSUME IInv, SInv, RInv, Up, apc = "appended", NEW s, Earlier(s), NEW n \in DOMAIN reg
  PROVE  Counted(s, Applied(tables, reg, DOMAIN reg, op.lsn), reg[n].inst, wal \cup ring, op.lsn)
<1> DEFINE i == reg[n].inst
           l == op.lsn
           t == Applied(tables, reg, DOMAIN reg, l)
<1> USE LogNumbers
<1>1. nextEvent < l /\ l \in Nat
  BY SnapshotNumbers
<1>2. /\ durable < l /\ l \in Lsns(wal \cup ring)
      /\ \A e \in wal \cup ring : e.lsn <= nextEvent \/ e.lsn = l
      /\ \A j \in DOMAIN tables : j <= durable
  BY DEF RInv, LiveEvents
<1>3. Counted(s, tables, i, wal \cup ring, nextEvent)
  BY DEF Earlier, Restores, Carries, Instances
<1>4. i \in DOMAIN tables /\ i \in Nat /\ i <= durable /\ i < l
  BY <1>1, <1>2
<1>5. EventsOf(t[i]) = EventsOf(tables[i]) \cup {l}
  <2>1. InOrder(tables, nextEvent)
    BY DEF IInv
  <2>2. (\E m \in DOMAIN reg : reg[m].inst = i) => EventsOf(t[i]) = EventsOf(tables[i]) \cup {l}
    BY <1>1, <1>4, <2>1, AppliedEvents
  <2> QED BY <2>2
<1>6. s.next < l
  BY <1>1 DEF Earlier
<1>7. \A k \in Lsns(wal \cup ring) : k \in Nat /\ (k <= l <=> k <= nextEvent \/ k = l)
  BY <1>1, <1>2 DEF Lsns
<1> HIDE DEF i, l, t
<1>8. Counted(s, t, i, wal \cup ring, l)
  BY <1>2, <1>3, <1>4, <1>5, <1>6, <1>7 DEF Counted
<1> QED BY <1>8 DEF i, l, t

(* The event appended is applied to the tables. *)
LEMMA PushApplyR ==
  ASSUME IInv, SInv, RInv, PushApply PROVE RInv'
<1> DEFINE l == op.lsn
<1>1. /\ Up /\ Up' /\ apc = "appended" /\ apc' = "idle"
      /\ tables' = Applied(tables, reg, DOMAIN reg, l) /\ nextEvent' = l
      /\ UNCHANGED <<log, logSynced, wal, ring, version, reg, sinkNext, durable,
                     snaps, requested, spc, body, kept, want>>
  BY DEF PushApply, Up, taskVars, histVars, diskVars
<1>2. ~ Installing /\ ~ Pending /\ ~ Installing' /\ ~ Pending'
  BY <1>1 DEF Installing, Pending
<1>3. nextEvent < l /\ l \in Nat
  BY <1>1, SnapshotNumbers
<1>4. /\ durable < l /\ l <= MaxLsn /\ l \in Lsns(wal \cup ring)
      /\ \A e \in wal \cup ring : (e.lsn <= nextEvent \/ e.lsn = l) /\ e.rv <= version
      /\ \A i \in DOMAIN tables : i <= durable
      /\ Fresh(tables, version, log)
      /\ version = 0 => DOMAIN reg = {}
  BY <1>1 DEF RInv, LiveEvents
<1>5. InOrder(tables, nextEvent) /\ DOMAIN tables' = DOMAIN tables
  BY <1>1 DEF IInv, Applied
<1> HIDE DEF l
<1> USE LogNumbers
<1>6. Streams'
  BY <1>1 DEF RInv, Streams
<1>7. LiveLog'
  BY <1>1, <1>2 DEF RInv, LiveLog
<1>8. LiveEvents'
  <2>1. \A e \in wal \cup ring : e.lsn <= l
    BY <1>3, <1>4
  <2>2. Fresh(tables', version', log')
    BY <1>1, <1>4, <1>5 DEF Fresh
  <2> QED BY <1>1, <1>4, <1>5, <2>1, <2>2 DEF LiveEvents
<1>9. LiveVersion' = LiveVersion /\ LiveReg' = LiveReg
  BY <1>1, <1>2 DEF LiveVersion, LiveReg
<1>10. ASSUME NEW s, Earlier(s)
       PROVE  /\ Sound(s, log', wal' \cup ring')
              /\ Restores(s, LiveVersion', LiveReg', Instances(reg'), tables', nextEvent', log', wal' \cup ring')
  <2>1. Sound(s, log', wal' \cup ring')
    BY <1>1, <1>10 DEF Earlier
  <2>2. Carries(s, Instances(reg), tables, nextEvent, log, wal \cup ring)
    BY <1>10 DEF Earlier, Restores
  <2>3. ASSUME NEW n \in DOMAIN reg
        PROVE  Counted(s, tables', reg[n].inst, wal \cup ring, l)
    BY <1>1, <1>10, <2>3, AppendedCounted DEF l
  <2>4. Carries(s, Instances(reg), tables', l, log, wal \cup ring)
    BY <2>2, <2>3 DEF Carries, Instances
  <2> QED BY <1>1, <1>9, <1>10, <2>1, <2>4 DEF Earlier, Restores
<1>11. BasesSound' /\ BasesLead' /\ Saving'
  <2>1. \A s \in Bases : \A k \in kept' : k <= s.next \/ \E e \in wal' : k <= e.lsn
    BY <1>1 DEF RInv, BasesSound
  <2> QED BY <1>1, <1>10, <2>1, SnapshotsKept
<1> QED BY <1>1, <1>6, <1>7, <1>8, <1>11, StaysUp DEF RInv

(* The bump's LSN is past every event and bump. *)
LEMMA RegisterStageR ==
  ASSUME IInv, SInv, RInv, NEW n \in Names, RegisterStage(n) PROVE RInv'
<1> DEFINE l == Larger(sinkNext, nextEvent + 1)
           b0 == [lsn |-> l, ver |-> version + 1, name |-> n, force |-> n \in DOMAIN reg]
<1>1. /\ Up /\ Up' /\ apc = "idle" /\ apc' = "staged"
      /\ log' = log \cup {b0} /\ op' = b0 /\ sinkNext' = l + 1
      /\ UNCHANGED <<logSynced, wal, ring, version, reg, tables, nextEvent, durable,
                     snaps, requested, spc, body, kept, want>>
  BY DEF RegisterStage, Up, taskVars, histVars
<1>2. ~ Installing /\ ~ Pending /\ ~ Installing' /\ Pending'
  BY <1>1 DEF Installing, Pending
<1>3. durable < sinkNext
  BY <1>1 DEF SInv, LivePast
<1> USE LogNumbers
<1>4. l \in Nat /\ sinkNext <= l /\ nextEvent < l /\ durable < l
  BY <1>3 DEF Larger
<1>5. /\ b0.lsn = l /\ b0.ver = version + 1 /\ b0.name = n
      /\ b0.force \/ b0.name \notin DOMAIN reg
  OBVIOUS
<1> HIDE DEF l, b0
<1>6. \A b \in log : b.ver <= version /\ b.lsn <= durable /\ b.lsn < l /\ b \in logSynced
  BY <1>1, <1>2, <1>4 DEF RInv, LiveLog
<1>7. \A e \in wal \cup ring : e.lsn <= nextEvent /\ e.rv <= version /\ e.lsn < l
  BY <1>1, <1>4 DEF RInv, LiveEvents
<1>8. Streams'
  <2>1. /\ \A e \in wal \cup ring, b \in log : e.rv >= b.ver <=> e.lsn > b.lsn
        /\ \A e \in wal \cup ring : e.rv >= 1 /\ e.lsn <= MaxLsn
        /\ \A e \in wal, f \in ring : e.lsn < f.lsn
        /\ \A a, b \in log : (a.ver < b.ver <=> a.lsn < b.lsn) /\ (a.lsn = b.lsn => a = b)
        /\ \A b \in log : b.lsn >= 1
    BY DEF RInv, Streams
  <2>2. \A a, b \in log' : (a.ver < b.ver <=> a.lsn < b.lsn) /\ (a.lsn = b.lsn => a = b)
    BY <1>1, <1>4, <1>5, <1>6, <2>1
  <2>3. \A e \in wal \cup ring : ~ (e.rv >= b0.ver) /\ ~ (e.lsn > b0.lsn)
    BY <1>4, <1>5, <1>7
  <2>4. \A e \in wal' \cup ring', b \in log' : e.rv >= b.ver <=> e.lsn > b.lsn
    BY <1>1, <2>1, <2>3
  <2>5. \A b \in log' : b.lsn >= 1
    BY <1>1, <1>4, <1>5, <2>1
  <2> QED BY <1>1, <2>1, <2>2, <2>4, <2>5 DEF Streams
<1>9. LiveLog'
  <2>1. \A b \in log' : b.lsn < sinkNext'
    BY <1>1, <1>4, <1>5, <1>6
  <2>2. \A b \in log' : b = b0 \/ (b.ver <= version /\ b.lsn <= durable /\ b \in logSynced)
    BY <1>1, <1>6
  <2> QED BY <1>1, <1>2, <1>4, <1>5, <1>7, <2>1, <2>2 DEF LiveLog
<1>10. LiveEvents'
  <2>1. \A i \in DOMAIN tables : i <= durable
    BY <1>1 DEF RInv, LiveEvents
  <2>2. Fresh(tables, version, log)
    BY <1>1 DEF RInv, LiveEvents
  <2>3. Fresh(tables', version', log')
    BY <1>1, <1>4, <1>5, <2>1, <2>2 DEF Fresh
  <2> QED BY <1>1, <2>3 DEF RInv, LiveEvents
<1>11. LiveVersion' = version /\ LiveReg' = Instances(reg) /\ LiveVersion = version /\ LiveReg = Instances(reg)
  BY <1>1, <1>2 DEF LiveVersion, LiveReg
<1>12. ASSUME NEW s, Earlier(s)
       PROVE  /\ Sound(s, log', wal' \cup ring')
              /\ Restores(s, LiveVersion', LiveReg', Instances(reg'), tables', nextEvent', log', wal' \cup ring')
  <2>1. s.lsn < l /\ s.version \in Nat /\ s.lsn \in Nat
    BY <1>4, <1>12 DEF Earlier, Larger
  <2>2. /\ DOMAIN s.tables \subseteq Nat
        /\ \A i \in DOMAIN s.tables : i <= s.lsn \/ i \in Lsns(log)
        /\ \A i \in DOMAIN s.tables, b \in log : b.ver > s.version => i < b.lsn
    BY <1>12 DEF Earlier, Sound, Fresh
  <2>3. \A i \in DOMAIN s.tables : i < l
    BY <1>4, <1>6, <2>1, <2>2 DEF Lsns
  <2>4. Fresh(s.tables, s.version, log')
    BY <1>1, <1>5, <2>2, <2>3 DEF Fresh
  <2>5. \A i \in DOMAIN s.tables : i <= s.lsn \/ i \in Lsns(log')
    BY <1>1, <2>2 DEF Lsns
  <2>6. \A b \in log' : b.lsn < s.lsn => b.ver <= s.version
    BY <1>1, <1>4, <1>5, <1>12, <2>1 DEF Earlier, Sound
  <2>7. Sound(s, log', wal' \cup ring')
    BY <1>1, <1>12, <2>4, <2>5, <2>6 DEF Earlier, Sound
  <2>8. Carries(s, Instances(reg), tables, nextEvent, log', wal \cup ring)
    BY <1>1, <1>12, CarriesSame DEF Earlier, Restores
  <2>9. Between(log, s.version, version) = Between(log', s.version, version)
    BY <1>1, <1>5 DEF Between
  <2>10. Leads(s.version, s.reg, version, Instances(reg), log)
    BY <1>11, <1>12 DEF Earlier, Restores
  <2>11. Leads(s.version, s.reg, version, Instances(reg), log')
    BY <2>1, <2>9, <2>10, LeadsSame
  <2> QED BY <1>1, <1>11, <2>7, <2>8, <2>11 DEF Restores
<1>13. BasesSound' /\ BasesLead' /\ Saving'
  <2>1. \A s \in Bases : \A k \in kept' : k <= s.next \/ \E e \in wal' : k <= e.lsn
    BY <1>1 DEF RInv, BasesSound
  <2> QED BY <1>1, <1>12, <2>1, SnapshotsKept
<1> QED BY <1>1, <1>8, <1>9, <1>10, <1>13, StaysUp DEF RInv

(* The bump is fsynced: recovery now installs it. *)
LEMMA RegisterFsyncR ==
  ASSUME IInv, SInv, RInv, RegisterFsync PROVE RInv'
<1>1. /\ Up /\ Up' /\ apc = "staged" /\ apc' = "fsynced"
      /\ logSynced' = log /\ durable' = sinkNext - 1
      /\ UNCHANGED <<log, op, wal, ring, version, reg, tables, nextEvent, sinkNext,
                     snaps, requested, spc, body, kept, want>>
  BY DEF RegisterFsync, Up, taskVars, histVars
<1>2. ~ Installing /\ Pending /\ Installing' /\ Pending'
  BY <1>1 DEF Installing, Pending
<1> USE LogNumbers
<1>3. /\ op \in log /\ op.ver = version + 1 /\ sinkNext = op.lsn + 1 /\ nextEvent < op.lsn /\ durable <= op.lsn
      /\ op.force \/ op.name \notin DOMAIN reg
      /\ \A b \in log : b = op \/ (b.ver <= version /\ b.lsn <= durable)
      /\ \A b \in log : b.lsn < sinkNext
      /\ \A e \in wal \cup ring : e.lsn < op.lsn
  BY <1>1, <1>2 DEF RInv, LiveLog
<1>4. op.lsn \in Nat /\ durable' = op.lsn
  BY <1>1, <1>3
<1>5. Streams'
  BY <1>1 DEF RInv, Streams
<1>6. LiveLog'
  <2>1. \A b \in log : b = op \/ (b.ver <= version /\ b.lsn <= durable')
    BY <1>3, <1>4
  <2> QED BY <1>1, <1>2, <1>3, <1>4, <2>1 DEF LiveLog
<1>7. LiveEvents'
  <2>1. Fresh(tables, version, log) /\ \A i \in DOMAIN tables : i <= durable
    BY <1>1 DEF RInv, LiveEvents
  <2>2. \A i \in DOMAIN tables : i <= durable'
    BY <1>3, <1>4, <2>1 DEF Fresh
  <2> QED BY <1>1, <2>1, <2>2 DEF RInv, LiveEvents
<1>8. LiveVersion' = version + 1 /\ LiveReg' = After(Instances(reg), op)
  BY <1>1, <1>2 DEF LiveVersion, LiveReg
<1>9. LiveVersion = version /\ LiveReg = Instances(reg)
  BY <1>2 DEF LiveVersion, LiveReg
<1>10. ASSUME NEW s, Earlier(s)
       PROVE  /\ Sound(s, log', wal' \cup ring')
              /\ Restores(s, LiveVersion', LiveReg', Instances(reg'), tables', nextEvent', log', wal' \cup ring')
  <2>1. Leads(s.version, s.reg, version, Instances(reg), log)
    BY <1>9, <1>10 DEF Earlier, Restores
  <2>2. s.version \in Nat /\ version \in Nat /\ \A a \in log : a.ver \in Nat
    BY <1>10 DEF Earlier
  <2>3. \A a \in log : a.ver = version + 1 => a = op
    BY <1>3
  <2>4. op.force \/ op.name \notin DOMAIN Instances(reg)
    BY <1>3 DEF Instances
  <2>5. Leads(s.version, s.reg, version + 1, After(Instances(reg), op), log)
    BY <1>3, <2>1, <2>2, <2>3, <2>4, LeadsBack
  <2> QED BY <1>1, <1>8, <1>10, <2>5 DEF Earlier, Restores
<1>11. BasesSound' /\ BasesLead' /\ Saving'
  <2>1. \A s \in Bases : \A k \in kept' : k <= s.next \/ \E e \in wal' : k <= e.lsn
    BY <1>1 DEF RInv, BasesSound
  <2> QED BY <1>1, <1>10, <2>1, SnapshotsKept
<1> QED BY <1>1, <1>5, <1>6, <1>7, <1>11, StaysUp DEF RInv

(* The removal before a replacement: the bump on disk still restores it. *)
LEMMA RegisterRemoveR ==
  ASSUME IInv, SInv, RInv, RegisterRemove, ForkSnapshot /\ spc = "lock" => UNCHANGED <<version, reg>>
  PROVE  RInv'
<1>1. /\ Up /\ Up' /\ apc = "fsynced" /\ apc' = "removed"
      /\ reg' = [n \in DOMAIN reg \ {op.name} |-> reg[n]]
      /\ UNCHANGED <<log, logSynced, op, wal, ring, version, tables, nextEvent, sinkNext, durable,
                     snaps, requested, spc, body, kept, want>>
  BY DEF RegisterRemove, Up, taskVars, histVars, diskVars
<1>2. Installing /\ Pending /\ Installing' /\ Pending'
  BY <1>1 DEF Installing, Pending
<1>3. Streams'
  BY <1>1 DEF RInv, Streams
<1>4. LiveLog'
  BY <1>1, <1>2 DEF RInv, LiveLog
<1>5. LiveEvents'
  BY <1>1 DEF RInv, LiveEvents
<1>6. LiveVersion' = LiveVersion
  BY <1>1, <1>2 DEF LiveVersion
<1>7. LiveReg' = LiveReg
  <2>1. DOMAIN Instances(reg') \cup {op.name} = DOMAIN Instances(reg) \cup {op.name}
    BY <1>1 DEF Instances
  <2>2. \A n \in DOMAIN Instances(reg) : n # op.name => Instances(reg')[n] = Instances(reg)[n]
    BY <1>1 DEF Instances
  <2>3. After(Instances(reg'), op) = After(Instances(reg), op)
    BY <2>1, <2>2 DEF After
  <2> QED BY <1>1, <1>2, <2>3 DEF LiveReg
<1>8. ASSUME NEW s, Earlier(s)
       PROVE  /\ Sound(s, log', wal' \cup ring')
              /\ Restores(s, LiveVersion', LiveReg', Instances(reg'), tables', nextEvent', log', wal' \cup ring')
  <2>1. \A n \in DOMAIN Instances(reg') : n \in DOMAIN Instances(reg) /\ Instances(reg')[n] = Instances(reg)[n]
    BY <1>1 DEF Instances
  <2>2. Carries(s, Instances(reg'), tables, nextEvent, log, wal \cup ring)
    BY <1>8, <2>1 DEF Earlier, Restores, Carries
  <2> QED BY <1>1, <1>6, <1>7, <1>8, <2>2 DEF Earlier, Restores
<1>9. BasesSound' /\ BasesLead' /\ Saving'
  <2>1. \A s \in Bases : \A k \in kept' : k <= s.next \/ \E e \in wal' : k <= e.lsn
    BY <1>1 DEF RInv, BasesSound
  <2> QED BY <1>1, <1>8, <2>1, SnapshotsKept
<1> QED BY <1>1, <1>3, <1>4, <1>5, <1>9, StaysUp DEF RInv

(* A bump installed: its instance gets an empty table, the others keep     *)
(* theirs.                                                                 *)
Housed(r, t) == \A n \in DOMAIN r : r[n].inst \in DOMAIN t

Grew(u, t, l) == DOMAIN u = DOMAIN t \cup {l}

(* The instances that have a table after a bump. *)
LEMMA GrownDomain ==
  ASSUME NEW r, NEW b, NEW v, NEW t, Housed(r, t)
  PROVE  Grew(Grown(t, Put(r, b, v)), t, b.lsn)
<1> DEFINE q == Put(r, b, v)
<1>1. q[b.name].inst = b.lsn
  BY PutNew
<1>2. DOMAIN q = DOMAIN r \cup {b.name}
  BY PutOld
<1>3. \A n \in DOMAIN r : n # b.name => q[n] = r[n]
  BY PutOld
<1> HIDE DEF q
<1>4. \A n \in DOMAIN q : q[n].inst \in DOMAIN t \cup {b.lsn}
  BY <1>1, <1>2, <1>3 DEF Housed
<1>5. DOMAIN t \cup {q[n].inst : n \in DOMAIN q} = DOMAIN t \cup {b.lsn}
  BY <1>1, <1>2, <1>4
<1>6. DOMAIN Grown(t, q) = DOMAIN t \cup {b.lsn}
  BY <1>5 DEF Grown
<1> QED BY <1>6 DEF q, Grew

(* Tables there stay as they are. *)
LEMMA GrownOld ==
  ASSUME NEW r, NEW t
  PROVE  \A i \in DOMAIN t : Grown(t, r)[i] = t[i]
BY DEF Grown

(* A new table is empty. *)
LEMMA GrownNew ==
  ASSUME NEW r, NEW t
  PROVE  \A i \in DOMAIN Grown(t, r) : i \notin DOMAIN t => Grown(t, r)[i] = <<>>
BY DEF Grown

(* What the installed bump means for a snapshot. *)
LEMMA CarriesBump ==
  ASSUME NEW s, NEW r, NEW b, NEW v, NEW t,
         \A n \in DOMAIN r : r[n].inst \in DOMAIN t, b.lsn \notin DOMAIN t,
         b.lsn \notin DOMAIN s.tables, b.lsn \in Nat,
         NEW top \in Nat, NEW L, b \in L, NEW E, \A e \in E : e.lsn \in Nat,
         \A l \in Lsns(E) : ~ (s.next < l /\ b.lsn < l /\ l <= top),
         Carries(s, Instances(r), t, top, L, E)
  PROVE  Carries(s, Instances(Put(r, b, v)), Grown(t, Put(r, b, v)), top, L, E)
<1> DEFINE q == Instances(Put(r, b, v))
           u == Grown(t, Put(r, b, v))
<1>1. /\ \A i \in DOMAIN t : u[i] = t[i]
      /\ u[b.lsn] = <<>>
  <2>1. \A i \in DOMAIN t : u[i] = t[i]
    BY GrownOld
  <2>2. DOMAIN u = DOMAIN t \cup {b.lsn}
    <3>1. Housed(r, t)
      BY DEF Housed
    <3>2. Grew(u, t, b.lsn)
      BY <3>1, GrownDomain
    <3> QED BY <3>2 DEF Grew
  <2>3. \A i \in DOMAIN u : i \notin DOMAIN t => u[i] = <<>>
    BY GrownNew
  <2> QED BY <2>1, <2>2, <2>3
<1>2. q = After(Instances(r), b)
  BY PutInstances
<1>3. /\ DOMAIN q = DOMAIN r \cup {b.name} /\ q[b.name] = b.lsn
      /\ \A n \in DOMAIN r : n # b.name => q[n] = r[n].inst
  BY <1>2 DEF After, Instances
<1> HIDE DEF q, u
<1>4. ASSUME NEW n \in DOMAIN q
      PROVE  (q[n] <= s.lsn \/ q[n] \in Lsns(L)) /\ Counted(s, u, q[n], E, top)
  <2>1. CASE n = b.name
    <3>1. SavedEvents(s, b.lsn) = {}
      BY DEF SavedEvents
    <3>2. EventsOf(u[b.lsn]) = {}
      BY <1>1, NoEvents
    <3>3. Counted(s, u, b.lsn, E, top)
      BY <3>1, <3>2 DEF Counted
    <3>4. b.lsn \in Lsns(L)
      BY DEF Lsns
    <3> QED BY <1>3, <2>1, <3>3, <3>4
  <2>2. CASE n # b.name
    <3>1. n \in DOMAIN r /\ q[n] = r[n].inst /\ u[q[n]] = t[q[n]]
      BY <1>1, <1>3, <2>2
    <3>2. (q[n] <= s.lsn \/ q[n] \in Lsns(L)) /\ Counted(s, t, q[n], E, top)
      BY <3>1 DEF Carries, Instances
    <3> QED BY <3>1, <3>2 DEF Counted
  <2> QED BY <2>1, <2>2
<1>5. Carries(s, q, u, top, L, E)
  BY <1>4 DEF Carries
<1> QED BY <1>5 DEF q, u

(* The bump is installed in memory. *)
LEMMA RegisterApplyR ==
  ASSUME IInv, SInv, RInv, RegisterApply, ForkSnapshot /\ spc = "lock" => UNCHANGED <<version, reg>>
  PROVE  RInv'
<1>1. /\ Up /\ Up' /\ apc \in {"fsynced", "removed"} /\ apc' = "idle" /\ version' = version + 1
      /\ reg' = Install(reg, op, version + 1) /\ tables' = Grown(tables, reg')
      /\ UNCHANGED <<log, logSynced, wal, ring, nextEvent, sinkNext, durable,
                     snaps, requested, spc, body, kept, want>>
  BY DEF RegisterApply, Up, taskVars, histVars, diskVars
<1>2. Installing /\ Pending /\ ~ Installing' /\ ~ Pending'
  BY <1>1 DEF Installing, Pending
<1> USE LogNumbers
<1>3. /\ op \in log /\ op.ver = version + 1 /\ nextEvent < op.lsn /\ durable = op.lsn
      /\ op.force \/ op.name \notin DOMAIN reg
      /\ \A b \in log : b = op \/ (b.ver <= version /\ b.lsn <= durable)
      /\ \A b \in log : b.lsn < sinkNext /\ b \in logSynced
      /\ \A e \in wal \cup ring : e.lsn < op.lsn
  BY <1>1, <1>2 DEF RInv, LiveLog
<1>4. /\ Fresh(tables, version, log) /\ \A i \in DOMAIN tables : i <= durable
      /\ nextEvent <= MaxLsn
      /\ \A e \in wal \cup ring : e.rv <= version /\ e.lsn <= nextEvent
  BY <1>1 DEF RInv, LiveEvents
<1>5. op.lsn \notin DOMAIN tables /\ op.lsn \in Nat
  BY <1>3, <1>4 DEF Fresh
<1>a. reg' = Put(reg, op, version + 1) /\ tables' = Grown(tables, Put(reg, op, version + 1))
  BY <1>1, <1>3 DEF Install, Put
<1>6. /\ DOMAIN tables' = DOMAIN tables \cup {op.lsn}
      /\ Instances(reg') = After(Instances(reg), op)
  <2>0. Housed(reg, tables)
    BY DEF Housed
  <2>1. Grew(Grown(tables, Put(reg, op, version + 1)), tables, op.lsn)
    BY <2>0, GrownDomain
  <2>2. Instances(Put(reg, op, version + 1)) = After(Instances(reg), op)
    BY PutInstances
  <2> QED BY <1>a, <2>1, <2>2 DEF Grew
<1>7. Streams'
  BY <1>1 DEF RInv, Streams
<1>8. LiveLog'
  <2>1. \A b \in log : b.ver <= version + 1 /\ b.lsn <= durable
    BY <1>3
  <2> QED BY <1>1, <1>2, <1>3, <2>1 DEF LiveLog
<1>9. LiveEvents'
  <2>1. \A b \in log : ~ (b.ver > version + 1)
    BY <1>3
  <2>2. Fresh(tables', version', log')
    BY <1>1, <1>4, <1>5, <1>6, <2>1 DEF Fresh
  <2>3. \A i \in DOMAIN tables' : i <= durable'
    BY <1>1, <1>3, <1>4, <1>6
  <2>4. \A e \in wal \cup ring : e.rv <= version + 1 /\ e.lsn <= nextEvent
    BY <1>4
  <2> QED BY <1>1, <1>4, <2>2, <2>3, <2>4 DEF LiveEvents
<1>10. LiveVersion' = LiveVersion /\ LiveReg' = LiveReg
  BY <1>1, <1>2, <1>6 DEF LiveVersion, LiveReg
<1>11. ASSUME NEW s, Earlier(s)
       PROVE  /\ Sound(s, log', wal' \cup ring')
              /\ Restores(s, LiveVersion', LiveReg', Instances(reg'), tables', nextEvent', log', wal' \cup ring')
  <2>1. op.lsn \notin DOMAIN s.tables
    <3>1. op.ver > s.version
      BY <1>3, <1>11 DEF Earlier
    <3>2. \A i \in DOMAIN s.tables : i \in Nat /\ i < op.lsn
      BY <1>3, <1>11, <3>1 DEF Earlier, Sound, Fresh
    <3> QED BY <1>5, <3>2
  <2>2. \A l \in Lsns(wal \cup ring) : ~ (s.next < l /\ op.lsn < l /\ l <= nextEvent)
    BY <1>3, <1>5 DEF Lsns
  <2>3. Carries(s, Instances(reg), tables, nextEvent, log, wal \cup ring)
    BY <1>11 DEF Earlier, Restores
  <2>4. Carries(s, Instances(reg'), tables', nextEvent, log, wal \cup ring)
    BY <1>3, <1>5, <1>a, <2>1, <2>2, <2>3, CarriesBump
  <2> QED BY <1>1, <1>10, <1>11, <2>4 DEF Earlier, Restores
<1>12. BasesSound' /\ BasesLead' /\ Saving'
  <2>1. \A s \in Bases : \A k \in kept' : k <= s.next \/ \E e \in wal' : k <= e.lsn
    BY <1>1 DEF RInv, BasesSound
  <2> QED BY <1>1, <1>11, <2>1, SnapshotsKept
<1> QED BY <1>1, <1>7, <1>8, <1>9, <1>12, StaysUp DEF RInv

(* The writer moves a prefix of the ring to the file. *)
LEMMA FlushR ==
  ASSUME IInv, SInv, RInv, NEW k \in 1 .. MaxLsn, Flush(k) PROVE RInv'
<1>1. /\ Up /\ Up'
      /\ wal' = wal \cup {e \in ring : e.lsn <= k} /\ ring' = ring \ {e \in ring : e.lsn <= k}
      /\ kept' = kept \cup Lsns({e \in ring : e.lsn <= k})
      /\ UNCHANGED <<log, logSynced, apc, op, version, reg, tables, nextEvent, sinkNext, durable,
                     snaps, requested, spc, body, want>>
  BY DEF Flush, Up, memVars, taskVars
<1> USE LogNumbers
<1>2. wal' \cup ring' = wal \cup ring
  BY <1>1
<1>3. Streams'
  <2>1. \A e \in wal', f \in ring' : e.lsn < f.lsn
    BY <1>1 DEF RInv, Streams
  <2> QED BY <1>1, <1>2, <2>1, StreamsShrink DEF RInv
<1>4. LiveLog'
  BY <1>1, <1>2 DEF RInv, LiveLog, Pending, Installing
<1>5. LiveEvents'
  BY <1>1, <1>2 DEF RInv, LiveEvents
<1>6. LiveVersion' = LiveVersion /\ LiveReg' = LiveReg
  BY <1>1 DEF LiveVersion, LiveReg, Installing
<1>7. ASSUME NEW s, Earlier(s)
       PROVE  /\ Sound(s, log', wal' \cup ring')
              /\ Restores(s, LiveVersion', LiveReg', Instances(reg'), tables', nextEvent', log', wal' \cup ring')
  BY <1>1, <1>2, <1>6, <1>7 DEF Earlier
<1>8. BasesSound' /\ BasesLead' /\ Saving'
  <2>1. ASSUME NEW s \in Bases, NEW l \in kept' PROVE l <= s.next \/ \E e \in wal' : l <= e.lsn
    <3>1. CASE l \in kept
      BY <1>1, <2>1, <3>1 DEF RInv, BasesSound
    <3>2. CASE l \in Lsns({e \in ring : e.lsn <= k})
      <4>1. PICK e \in ring : e.lsn <= k /\ e.lsn = l
        BY <3>2 DEF Lsns
      <4> QED BY <1>1, <4>1
    <3> QED BY <1>1, <3>1, <3>2
  <2> QED BY <1>1, <1>7, <2>1, SnapshotsKept
<1> QED BY <1>1, <1>3, <1>4, <1>5, <1>8, StaysUp DEF RInv

(* Compaction drops events the base holds. *)
LEMMA CompactR ==
  ASSUME IInv, SInv, RInv, Compact PROVE RInv'
<1>1. /\ Up /\ Up' /\ wal' = {e \in wal : e.lsn > requested}
      /\ UNCHANGED <<ring, log, logSynced, apc, op, version, reg, tables, nextEvent, sinkNext, durable,
                     snaps, requested, spc, body, kept, want>>
  BY DEF Compact, Up, memVars, taskVars, histVars
<1> USE LogNumbers
<1>2. wal' \cup ring' \subseteq wal \cup ring
  BY <1>1
<1>3. \A e \in wal \cup ring : e \in wal' \cup ring' \/ e.lsn <= requested
  BY <1>1
<1>4. \A s : Earlier(s) => \A e \in wal \cup ring : s.next < e.lsn => e \in wal' \cup ring'
  BY <1>3 DEF Earlier, Sound
<1>5. Streams'
  <2>1. \A e \in wal', f \in ring' : e.lsn < f.lsn
    BY <1>1 DEF RInv, Streams
  <2> QED BY <1>1, <1>2, <2>1, StreamsShrink DEF RInv
<1>6. LiveLog'
  BY <1>1, <1>2 DEF RInv, LiveLog, Pending, Installing
<1>7. LiveEvents'
  <2>1. ASSUME apc = "appended" PROVE op.lsn \in Lsns(wal' \cup ring')
    <3>1. PICK s \in Bases : TRUE
      BY BaseExists
    <3>2. Earlier(s)
      BY <1>1, <3>1, BasesEarlier
    <3>3. op.lsn \in Lsns(wal \cup ring)
      BY <1>1, <2>1 DEF RInv, LiveEvents
    <3>4. nextEvent < op.lsn /\ op.lsn \in Nat
      BY <2>1, SnapshotNumbers
    <3>5. s.next < op.lsn
      BY <3>2, <3>4 DEF Earlier
    <3> QED BY <1>4, <3>2, <3>3, <3>5 DEF Lsns
  <2> QED BY <1>1, <1>2, <2>1 DEF RInv, LiveEvents
<1>8. LiveVersion' = LiveVersion /\ LiveReg' = LiveReg
  BY <1>1 DEF LiveVersion, LiveReg, Installing
<1>9. ASSUME NEW s, Earlier(s)
       PROVE  /\ Sound(s, log', wal' \cup ring')
              /\ Restores(s, LiveVersion', LiveReg', Instances(reg'), tables', nextEvent', log', wal' \cup ring')
  <2>1. Sound(s, log', wal' \cup ring')
    BY <1>1, <1>2, <1>9, SoundShrink DEF Earlier
  <2>2. \A l : s.next < l /\ l <= nextEvent => (l \in Lsns(wal \cup ring) <=> l \in Lsns(wal' \cup ring'))
    BY <1>2, <1>4, <1>9 DEF Lsns
  <2>3. Carries(s, Instances(reg), tables, nextEvent, log, wal' \cup ring')
    BY <1>9, <2>2, CarriesSame DEF Earlier, Restores
  <2> QED BY <1>1, <1>8, <1>9, <2>1, <2>3 DEF Earlier, Restores
<1>10. BasesSound' /\ BasesLead' /\ Saving'
  <2>1. ASSUME NEW s \in Bases, NEW l \in kept' PROVE l <= s.next \/ \E e \in wal' : l <= e.lsn
    <3>1. CASE l <= s.next
      BY <3>1
    <3>2. ASSUME NEW e \in wal, l <= e.lsn PROVE l <= s.next \/ \E f \in wal' : l <= f.lsn
      <4>1. CASE e \in wal'
        BY <3>2, <4>1
      <4>2. CASE e \notin wal'
        <5>1. Earlier(s) /\ e.lsn <= requested
          BY <1>1, <2>1, <4>2, BasesEarlier
        <5>2. e.lsn <= s.lsn /\ s.lsn \in Nat /\ s.next \in Nat /\ e.lsn \in Nat /\ l \in Nat
          BY <1>1, <5>1 DEF Earlier
        <5>3. s.next < e.lsn => s.lsn < e.lsn
          BY <5>1 DEF Earlier, Sound
        <5> QED BY <3>2, <5>2, <5>3
      <4> QED BY <4>1, <4>2
    <3> QED BY <1>1, <2>1, <3>1, <3>2 DEF RInv, BasesSound
  <2> QED BY <1>1, <1>9, <2>1, SnapshotsKept
<1> QED BY <1>1, <1>5, <1>6, <1>7, <1>10, StaysUp DEF RInv

-----------------------------------------------------------------------------
(* Steps of the snapshot task. *)

(* The start of a snapshot, the fork path's registry capture, a failure. *)
LEMMA SnapIdleR ==
  ASSUME IInv, SInv, RInv, SnapStart \/ SnapCaptureRegistry \/ SnapFail PROVE RInv'
<1>1. /\ Up /\ Up'
      /\ UNCHANGED <<phase, apc, op, version, reg, tables, nextEvent, sinkNext, durable,
                     ring, wal, log, logSynced, requested, snaps, kept, want, cursor, seen>>
  BY DEF SnapStart, SnapCaptureRegistry, SnapFail, Up, memVars, diskVars, bootVars, histVars
<1>2. Settled'
  BY <1>1, Undisturbed
<1>3. Saving'
  <2>1. CASE SnapStart
    BY <2>1 DEF SnapStart, Saving
  <2>2. CASE SnapCaptureRegistry
    <3>1. spc' = "lock" /\ body'.version = version' /\ body'.reg = Instances(reg')
      BY <1>1, <2>2 DEF SnapCaptureRegistry
    <3> QED BY <3>1 DEF Saving
  <2>3. CASE SnapFail
    BY <2>3 DEF SnapFail, Saving
  <2> QED BY <2>1, <2>2, <2>3
<1> QED BY <1>2, <1>3 DEF RInv, Settled

(* Under the table lock the tables, next_event_id and the registry match. *)
LEMMA SnapCaptureR ==
  ASSUME IInv, SInv, RInv, SnapCapture PROVE RInv'
<1> DEFINE r == Instances(reg)
           x == [lsn |-> Larger(legacy, nextEvent), version |-> version, reg |-> r,
                 tables |-> BodyTables(r), next |-> nextEvent]
<1>1. /\ Up /\ Up' /\ spc = "lock" /\ spc' = "write"
      /\ UNCHANGED <<phase, apc, op, version, reg, tables, nextEvent, sinkNext, durable,
                     ring, wal, log, logSynced, requested, snaps, kept, want, cursor, seen>>
  BY DEF SnapCapture, Up, memVars, diskVars, bootVars, histVars
<1>2. body' = x
  <2>1. CASE ForkSnapshot
    BY <1>1, <2>1 DEF SnapCapture, RInv, Saving
  <2>2. CASE ~ ForkSnapshot
    BY <2>2 DEF SnapCapture
  <2> QED BY <2>1, <2>2
<1>3. Settled'
  BY <1>1, Undisturbed
<1> USE LogNumbers
<1>4. /\ x.lsn = Larger(legacy, nextEvent) /\ x.version = version /\ x.reg = r
      /\ x.tables = BodyTables(r) /\ x.next = nextEvent
  OBVIOUS
<1> HIDE DEF x
<1>5. legacy \in Nat /\ legacy <= durable
  BY <1>1, SnapshotNumbers DEF SInv, CapturePast
<1>6. /\ DOMAIN BodyTables(r) = {reg[n].inst : n \in DOMAIN reg}
      /\ \A i \in DOMAIN BodyTables(r) : BodyTables(r)[i] = tables[i] /\ i \in DOMAIN tables
  BY DEF BodyTables, Instances
<1>7. /\ nextEvent <= MaxLsn /\ Fresh(tables, version, log) /\ \A i \in DOMAIN tables : i <= durable
      /\ apc # "appended" => \A e \in wal \cup ring : e.lsn <= nextEvent
      /\ apc = "appended" =>
             /\ durable < op.lsn /\ \A e \in wal \cup ring : e.lsn <= nextEvent \/ e.lsn = op.lsn
  BY <1>1 DEF RInv, LiveEvents
<1>8. PICK s \in Bases : TRUE
  BY BaseExists
<1>9. Earlier(s) /\ s.lsn <= Larger(legacy, nextEvent)
  BY <1>1, <1>8, BasesEarlier, BasePast
<1>10. Sound(x, log, wal \cup ring)
  <2>1. x.version = 0 => DOMAIN x.reg = {}
    BY <1>1, <1>4 DEF RInv, LiveEvents, Instances
  <2>2. ASSUME NEW b \in log, b.lsn < x.lsn PROVE b.ver <= x.version
    <3>1. ~ Pending => b.ver <= version
      BY <1>1 DEF RInv, LiveLog
    <3>2. Pending => /\ b = op \/ b.ver <= version
                     /\ nextEvent < op.lsn /\ durable <= op.lsn /\ op \in log
      BY <1>1 DEF RInv, LiveLog
    <3>3. x.lsn = legacy \/ x.lsn = nextEvent
      BY <1>4 DEF Larger
    <3>4. Pending => b # op
      BY <1>5, <2>2, <3>2, <3>3
    <3> QED BY <1>4, <3>1, <3>2, <3>4
  <2>3. Fresh(x.tables, x.version, log)
    BY <1>4, <1>6, <1>7 DEF Fresh
  <2>4. ASSUME NEW e \in wal \cup ring, x.next < e.lsn
        PROVE  x.lsn < e.lsn /\ \A i \in DOMAIN x.tables : i < e.lsn
    <3>1. durable < e.lsn
      BY <1>4, <1>7, <2>4
    <3>2. x.lsn < e.lsn
      BY <1>4, <1>5, <2>4, <3>1 DEF Larger
    <3>3. \A i \in DOMAIN x.tables : i \in Nat /\ i <= durable
      BY <1>4, <1>6, <1>7 DEF Fresh
    <3> QED BY <3>1, <3>2, <3>3
  <2>5. ASSUME NEW i \in DOMAIN x.tables PROVE i <= x.lsn \/ i \in Lsns(log)
    <3>1. PICK n \in DOMAIN reg : reg[n].inst = i
      BY <1>4, <1>6
    <3>2. i <= s.lsn \/ i \in Lsns(log)
      BY <1>9, <3>1 DEF Earlier, Restores, Carries, Instances
    <3>3. i \in Nat /\ s.lsn \in Nat /\ x.lsn \in Nat
      BY <1>4, <1>5, <1>9, <3>1 DEF Earlier, Larger
    <3> QED BY <1>4, <1>9, <3>2, <3>3
  <2>6. x.reg = [n \in DOMAIN x.reg |-> x.reg[n]]
    BY <1>4 DEF Instances
  <2> QED BY <1>4, <1>7, <2>1, <2>2, <2>3, <2>4, <2>5, <2>6 DEF Sound
<1>11. Carries(x, r, tables, nextEvent, log, wal \cup ring)
  <2> SUFFICES ASSUME NEW n \in DOMAIN r
               PROVE  (r[n] <= x.lsn \/ r[n] \in Lsns(log)) /\ Counted(x, tables, r[n], wal \cup ring, nextEvent)
    BY DEF Carries
  <2>1. r[n] \in DOMAIN x.tables /\ x.tables[r[n]] = tables[r[n]]
    BY <1>4, <1>6 DEF Instances
  <2>2. r[n] <= x.lsn \/ r[n] \in Lsns(log)
    BY <1>10, <2>1 DEF Sound
  <2>3. {l \in Lsns(wal \cup ring) : x.next < l /\ r[n] < l /\ l <= nextEvent} = {}
    BY <1>4 DEF Lsns
  <2>4. SavedEvents(x, r[n]) = EventsOf(tables[r[n]])
    BY <2>1 DEF SavedEvents
  <2> QED BY <2>2, <2>3, <2>4 DEF Counted
<1>12. Restores(x, LiveVersion, LiveReg, r, tables, nextEvent, log, wal \cup ring)
  <2>1. Leads(version, r, version, r, log)
    BY LeadsNowhere
  <2>2. CASE ~ Installing
    <3>1. LiveVersion = version /\ LiveReg = r
      BY <2>2 DEF LiveVersion, LiveReg
    <3>2. Leads(x.version, x.reg, LiveVersion, LiveReg, log)
      BY <1>4, <2>1, <3>1
    <3> QED BY <1>11, <3>2 DEF Restores
  <2>3. CASE Installing
    <3>1. /\ op \in log /\ op.ver = version + 1
          /\ op.force \/ op.name \notin DOMAIN reg
          /\ \A b \in log : b = op \/ b.ver <= version
      BY <1>1, <2>3 DEF RInv, LiveLog, Pending
    <3>2. LiveVersion = version + 1 /\ LiveReg = After(r, op)
      BY <2>3 DEF LiveVersion, LiveReg
    <3>3. \A a \in log : a.ver = version + 1 => a = op
      BY <3>1
    <3>4. op.force \/ op.name \notin DOMAIN r
      BY <3>1 DEF Instances
    <3>5. Leads(version, r, version + 1, After(r, op), log)
      <4>1. version \in Nat /\ \A a \in log : a.ver \in Nat
        OBVIOUS
      <4> QED BY <2>1, <3>1, <3>3, <3>4, <4>1, LeadsBack
    <3> QED BY <1>4, <1>11, <3>2, <3>5 DEF Restores
  <2> QED BY <2>2, <2>3
<1>13. Saving'
  <2>1. LiveVersion' = LiveVersion /\ LiveReg' = LiveReg /\ Instances(reg') = r
    BY <1>1 DEF LiveVersion, LiveReg, Installing
  <2> QED BY <1>1, <1>2, <1>10, <1>12, <2>1 DEF Saving
<1> QED BY <1>3, <1>13 DEF RInv, Settled

(* The snapshot written is the new base. *)
LEMMA SnapWriteR ==
  ASSUME IInv, SInv, RInv, SnapWrite PROVE RInv'
<1>1. /\ Up /\ Up' /\ spc = "write" /\ spc' = "truncate" /\ body'.lsn = body.lsn
      /\ snaps' = {s \in snaps : s.lsn # body.lsn} \cup {body}
      /\ UNCHANGED <<phase, apc, op, version, reg, tables, nextEvent, sinkNext, durable,
                     ring, wal, log, logSynced, requested, kept, want>>
  BY DEF SnapWrite, NoBody, Up, memVars, histVars
<1> USE LogNumbers
<1>2. Earlier(body) /\ body.lsn \in Nat
  BY <1>1, BasesEarlier DEF Earlier
<1>3. \A s \in snaps : s.lsn \in Nat /\ s.lsn <= body.lsn
  BY <1>1, SnapshotNumbers DEF SInv, CapturePast, NotPast
<1>4. Bases' = {body}
  <2>1. \A s \in snaps' : s = body \/ (s.lsn \in Nat /\ s.lsn < body.lsn)
    BY <1>1, <1>2, <1>3
  <2>2. body \in snaps' /\ snaps' # {}
    BY <1>1
  <2>3. Bases' = {s \in snaps' : \A y \in snaps' : y.lsn <= s.lsn}
    BY <2>2 DEF Bases
  <2>4. \A s \in Bases' : s = body
    BY <1>2, <2>1, <2>2, <2>3
  <2>5. body \in Bases'
    BY <1>2, <2>1, <2>2, <2>3
  <2> QED BY <2>4, <2>5
<1>5. Streams'
  BY <1>1 DEF RInv, Streams
<1>6. LiveLog' /\ LiveEvents'
  BY <1>1 DEF RInv, LiveLog, LiveEvents, Pending, Installing
<1>7. BasesSound'
  <2>1. ASSUME NEW l \in kept PROVE l <= body.next \/ \E e \in wal : l <= e.lsn
    <3>1. PICK s \in Bases : TRUE
      BY BaseExists
    <3>2. l <= s.next \/ \E e \in wal : l <= e.lsn
      BY <2>1, <3>1 DEF RInv, BasesSound
    <3>3. s.next <= body.next
      BY <1>1, <3>1, BasePast DEF NotPast
    <3>4. s.next \in Nat /\ body.next \in Nat /\ l \in Nat
      BY <2>1, <3>1, BaseOK, SnapshotNumbers
    <3> QED BY <3>2, <3>3, <3>4
  <2> QED BY <1>1, <1>2, <1>4, <2>1 DEF Earlier, BasesSound
<1>8. LiveVersion' = LiveVersion /\ LiveReg' = LiveReg
  BY <1>1 DEF LiveVersion, LiveReg, Installing
<1>9. BasesLead'
  BY <1>1, <1>2, <1>4, <1>8 DEF Earlier, BasesLead
<1>10. Saving'
  <2>1. \A s \in Bases' : body'.lsn <= s.lsn
    BY <1>1, <1>2, <1>4
  <2> QED BY <1>1, <2>1 DEF Saving
<1> QED BY <1>1, <1>5, <1>6, <1>7, <1>9, <1>10, StaysUp DEF RInv

(* Truncation drops bumps the base holds. *)
LEMMA SnapTruncateR ==
  ASSUME IInv, SInv, RInv, NEW x \in 0 .. MaxLsn, SnapTruncate(x) PROVE RInv'
<1>1. /\ Up /\ Up' /\ spc = "truncate" /\ spc' = "reclaim" /\ x <= body.lsn
      /\ log' = {b \in log : b.lsn >= x} /\ logSynced' = {b \in logSynced : b.lsn >= x}
      /\ UNCHANGED <<phase, apc, op, version, reg, tables, nextEvent, sinkNext, durable,
                     ring, wal, snaps, body, requested, kept, want>>
  BY DEF SnapTruncate, Up, memVars, histVars
<1> USE LogNumbers
<1>2. Bases' = Bases
  BY <1>1 DEF Bases
<1>3. body.lsn \in Nat /\ \A s \in Bases : body.lsn <= s.lsn /\ s.lsn \in Nat
  BY <1>1, BaseOK, SnapshotNumbers DEF RInv, Saving
<1>4. \A s \in Bases : Earlier(s)
  BY <1>1, BasesEarlier
<1>5. \A b \in log : b \in log' \/ (b.lsn < x /\ b.lsn \in Nat)
  BY <1>1
<1>6. \A s \in Bases, b \in log : b \in log' \/ (b.lsn <= s.lsn /\ b.ver <= s.version)
  <2> SUFFICES ASSUME NEW s \in Bases, NEW b \in log, b \notin log'
               PROVE  b.lsn <= s.lsn /\ b.ver <= s.version
    OBVIOUS
  <2>1. b.lsn < s.lsn /\ b.lsn <= s.lsn
    BY <1>1, <1>3, <1>5
  <2> QED BY <1>4, <2>1 DEF Earlier, Sound
<1>7. log' \subseteq log
  BY <1>1
<1>8. Streams'
  BY <1>1, <1>7, StreamsShrink DEF RInv, Streams
<1>9. LiveLog'
  <2>1. ASSUME Pending PROVE op \in log'
    <3>1. PICK s \in Bases : TRUE
      BY BaseExists
    <3>2. op \in log /\ op.ver = version + 1
      BY <1>1, <2>1 DEF RInv, LiveLog
    <3>3. ~ (op.ver <= s.version)
      BY <1>4, <3>1, <3>2 DEF Earlier
    <3> QED BY <1>6, <3>1, <3>2, <3>3
  <2>2. \A b \in log' : b \in logSynced => b \in logSynced'
    BY <1>1
  <2>3. Pending' = Pending /\ Installing' = Installing
    BY <1>1 DEF Pending, Installing
  <2> QED BY <1>1, <1>7, <2>1, <2>2, <2>3 DEF RInv, LiveLog
<1>10. LiveEvents'
  <2>1. Fresh(tables, version, log')
    BY <1>1, <1>7 DEF RInv, LiveEvents, Fresh
  <2> QED BY <1>1, <2>1 DEF RInv, LiveEvents
<1>11. LiveVersion' = LiveVersion /\ LiveReg' = LiveReg
  BY <1>1 DEF LiveVersion, LiveReg, Installing
<1>12. ASSUME NEW s \in Bases
       PROVE  /\ Sound(s, log', wal \cup ring)
              /\ Restores(s, LiveVersion, LiveReg, Instances(reg), tables, nextEvent, log', wal \cup ring)
  <2>1. Earlier(s) /\ \A b \in log : b \in log' \/ b.lsn <= s.lsn
    BY <1>4, <1>6, <1>12
  <2>2. Sound(s, log', wal \cup ring)
    BY <1>7, <2>1, SoundShrink DEF Earlier
  <2>3. Carries(s, Instances(reg), tables, nextEvent, log', wal \cup ring)
    BY <2>1, CarriesSame DEF Earlier, Restores
  <2>4. s.version \in Nat /\ LiveVersion \in Nat
    BY <2>1 DEF Earlier, LiveVersion
  <2>5. Between(log, s.version, LiveVersion) = Between(log', s.version, LiveVersion)
    BY <1>6, <1>7, <1>12, <2>4 DEF Between
  <2>6. Leads(s.version, s.reg, LiveVersion, LiveReg, log)
    BY <2>1 DEF Earlier, Restores
  <2>7. Leads(s.version, s.reg, LiveVersion, LiveReg, log')
    BY <2>4, <2>5, <2>6, LeadsSame
  <2> QED BY <2>2, <2>3, <2>7 DEF Restores
<1>13. BasesSound' /\ BasesLead'
  BY <1>1, <1>2, <1>11, <1>12 DEF RInv, BasesSound, BasesLead
<1>14. Saving'
  BY <1>1, <1>2, <1>3 DEF Saving
<1> QED BY <1>1, <1>8, <1>9, <1>10, <1>13, <1>14, StaysUp DEF RInv

(* The LSN requested for compaction is the base's. *)
LEMMA SnapReclaimR ==
  ASSUME IInv, SInv, RInv, SnapRequestReclaim PROVE RInv'
<1>1. /\ Up /\ Up' /\ spc = "reclaim" /\ spc' = "prune" /\ requested' = Larger(requested, body.lsn)
      /\ UNCHANGED <<phase, apc, op, version, reg, tables, nextEvent, sinkNext, durable,
                     ring, wal, log, logSynced, snaps, kept, want>>
  BY DEF SnapRequestReclaim, Up, memVars, histVars
<1>2. Bases' = Bases
  BY <1>1 DEF Bases
<1>3. \A s \in Bases : requested' <= s.lsn
  BY <1>1 DEF RInv, Saving, BasesSound, Larger
<1>4. Streams'
  BY <1>1 DEF RInv, Streams
<1>5. LiveLog' /\ LiveEvents'
  BY <1>1 DEF RInv, LiveLog, LiveEvents, Pending, Installing
<1>6. LiveVersion' = LiveVersion /\ LiveReg' = LiveReg
  BY <1>1 DEF LiveVersion, LiveReg, Installing
<1>7. BasesSound' /\ BasesLead'
  BY <1>1, <1>2, <1>3, <1>6 DEF RInv, BasesSound, BasesLead
<1>8. Saving'
  BY <1>1 DEF Saving
<1> QED BY <1>1, <1>4, <1>5, <1>7, <1>8, StaysUp DEF RInv

(* Pruning keeps the newest snapshot. *)
LEMMA SnapPruneR ==
  ASSUME IInv, SInv, RInv, SnapPrune PROVE RInv'
<1>1. /\ Up /\ Up' /\ spc' = "idle"
      /\ snaps' = {s \in snaps : Cardinality({t \in snaps : t.lsn > s.lsn}) < Retain}
      /\ UNCHANGED <<phase, apc, op, version, reg, tables, nextEvent, sinkNext, durable,
                     ring, wal, log, logSynced, requested, kept, want>>
  BY DEF SnapPrune, Up, memVars, histVars
<1>2. \A s \in snaps : s.lsn \in Nat
  BY SnapshotNumbers
<1>3. snaps' \subseteq snaps
  BY <1>1
<1>4. \A s \in snaps : (\A y \in snaps : y.lsn <= s.lsn) => s \in snaps'
  <2> SUFFICES ASSUME NEW s \in snaps, \A y \in snaps : y.lsn <= s.lsn PROVE s \in snaps'
    OBVIOUS
  <2>1. {t \in snaps : t.lsn > s.lsn} = {}
    BY <1>2
  <2>2. Cardinality({}) = 0
    BY FS_EmptySet
  <2>3. 0 < Retain
    BY DurabilityAssumption
  <2> QED BY <1>1, <2>1, <2>2, <2>3
<1>5. Bases' \subseteq Bases
  <2>1. CASE snaps = {}
    BY <1>3, <2>1 DEF Bases
  <2>2. CASE snaps # {}
    <3>1. PICK m \in Bases : TRUE
      BY BaseExists
    <3>2. m \in snaps /\ \A y \in snaps : y.lsn <= m.lsn
      BY <2>2, <3>1 DEF Bases
    <3>3. m \in snaps'
      BY <1>4, <3>2
    <3>4. Bases' = {s \in snaps' : \A y \in snaps' : y.lsn <= s.lsn}
      BY <3>3 DEF Bases
    <3>5. ASSUME NEW s \in Bases' PROVE s \in Bases
      <4>1. s \in snaps /\ m.lsn <= s.lsn
        BY <1>3, <3>3, <3>4
      <4>2. \A y \in snaps : y.lsn <= s.lsn
        BY <1>2, <3>2, <4>1
      <4> QED BY <2>2, <4>1, <4>2 DEF Bases
    <3> QED BY <3>5
  <2> QED BY <2>1, <2>2
<1>6. Streams'
  BY <1>1 DEF RInv, Streams
<1>7. LiveLog' /\ LiveEvents'
  BY <1>1 DEF RInv, LiveLog, LiveEvents, Pending, Installing
<1>8. LiveVersion' = LiveVersion /\ LiveReg' = LiveReg
  BY <1>1 DEF LiveVersion, LiveReg, Installing
<1>9. BasesSound' /\ BasesLead'
  BY <1>1, <1>5, <1>8 DEF RInv, BasesSound, BasesLead
<1>10. Saving'
  BY <1>1 DEF Saving
<1> QED BY <1>1, <1>6, <1>7, <1>9, <1>10, StaysUp DEF RInv

-----------------------------------------------------------------------------
(* The end of a process. *)

(* The end of a process: a prefix of the events in the ring reaches the    *)
(* file, and of the bumps only the one in progress can be lost.            *)
LEMMA DownR ==
  ASSUME IInv, SInv, RInv, Up, Down,
         wal \subseteq wal', wal' \subseteq wal \cup ring,
         \A e \in wal \cup ring, f \in wal' : e.lsn <= f.lsn => e \in wal',
         log' \subseteq log, logSynced' = log', \A b \in log : b \in log' \/ (apc = "staged" /\ b = op),
         \A l \in kept' : l \in kept \/ \E e \in wal' : l <= e.lsn
  PROVE  RInv'
<1> DEFINE W == IF apc = "appended" THEN Applied(tables, reg, DOMAIN reg, op.lsn) ELSE tables
<1>1. /\ phase' = "load" /\ spc' = "idle" /\ requested' = 0 /\ ring' = {} /\ snaps' = snaps
      /\ want'.version = version /\ want'.reg = Instances(reg) /\ want'.tables = W
      /\ want'.bump = (IF apc \in {"staged", "fsynced", "removed"} THEN op ELSE NoOp)
      /\ want'.bumpSynced = (apc \in {"fsynced", "removed"})
  BY DEF Down
<1>2. ~ Up'
  BY <1>1 DEF Up
<1>3. Bases' = Bases /\ wal' \cup ring' = wal'
  BY <1>1 DEF Bases
<1> USE LogNumbers
<1>4. \A s \in Bases : Earlier(s)
  BY BasesEarlier
<1>5. Streams'
  BY <1>1, StreamsShrink DEF RInv
<1>6. LiveLog' /\ LiveEvents' /\ BasesLead' /\ Saving' /\ Replaying'
  BY <1>1, <1>2 DEF LiveLog, LiveEvents, BasesLead, Saving, Replaying
<1>7. Pending => /\ op \in log /\ op.ver = version + 1 /\ nextEvent < op.lsn /\ op.lsn \in Nat
                 /\ op.force \/ op.name \notin DOMAIN reg
                 /\ \A b \in log : b = op \/ b.ver <= version
                 /\ \A e \in wal \cup ring : e.lsn < op.lsn
  BY DEF RInv, LiveLog
<1>8. ~ Pending => \A b \in log : b.ver <= version
  BY DEF RInv, LiveLog
<1>9. ASSUME Pending, NEW s \in Bases PROVE op.lsn \notin DOMAIN s.tables
  <2>1. op.ver > s.version
    BY <1>4, <1>7, <1>9 DEF Earlier
  <2>2. \A i \in DOMAIN s.tables : i \in Nat /\ i < op.lsn
    BY <1>4, <1>7, <1>9, <2>1 DEF Earlier, Sound, Fresh
  <2> QED BY <1>7, <1>9, <2>2
<1>10. BasesSound'
  <2>1. ASSUME NEW s \in Bases PROVE Sound(s, log', wal')
    <3>1. \A b \in log : b \in log' \/ b.lsn <= s.lsn \/ b.lsn \notin DOMAIN s.tables
      BY <1>9, <2>1 DEF Pending
    <3>2. Sound(s, log, wal \cup ring)
      BY <1>4, <2>1 DEF Earlier
    <3> QED BY <3>1, <3>2, SoundShrink
  <2>2. ASSUME NEW s \in Bases, NEW l \in kept' PROVE l <= s.next \/ \E e \in wal' : l <= e.lsn
    BY <2>2 DEF RInv, BasesSound
  <2>3. \A s \in Bases : requested' <= s.lsn
    BY <1>1, BaseOK
  <2> QED BY <1>3, <2>1, <2>2, <2>3 DEF RInv, BasesSound
<1>11. ASSUME NEW s \in Bases PROVE Reaches(s.version, s.reg)'
  <2>1. /\ Leads(s.version, s.reg, LiveVersion, LiveReg, log)
        /\ s.version \in Nat
    BY <1>4, <1>11 DEF Earlier, Restores
  <2>2. CASE ~ Pending
    <3>1. log' = log /\ LiveVersion = version /\ LiveReg = Instances(reg)
      BY <2>2 DEF Pending, LiveVersion, LiveReg
    <3>2. ~ want'.bumpSynced
      BY <1>1, <2>2 DEF Pending, Installing
    <3> QED BY <1>1, <1>8, <2>1, <2>2, <3>1, <3>2 DEF Reaches
  <2>3. CASE apc = "staged" /\ op \notin log'
    <3>1. LiveVersion = version /\ LiveReg = Instances(reg) /\ Pending
      BY <2>3 DEF Pending, Installing, LiveVersion, LiveReg
    <3>2. Between(log, s.version, version) = Between(log', s.version, version)
      BY <1>7, <2>3, <3>1 DEF Between
    <3>3. Leads(s.version, s.reg, version, Instances(reg), log')
      BY <2>1, <3>1, <3>2, LeadsSame
    <3>4. \A b \in log' : b.ver <= version
      BY <1>7, <2>3, <3>1
    <3>5. ~ want'.bumpSynced
      BY <1>1, <2>3
    <3> QED BY <1>1, <3>3, <3>4, <3>5 DEF Reaches
  <2>4. CASE Pending /\ op \in log'
    <3>1. log' = log
      BY <2>4
    <3>2. want'.bump = op /\ op # NoOp
      <4>1. op.lsn # 0
        BY <1>7, <2>4
      <4>2. NoOp.lsn = 0
        BY DEF NoOp
      <4> QED BY <1>1, <2>4, <4>1, <4>2 DEF Pending, Installing
    <3>3. \A b \in log' : b.ver <= version + 1
      BY <1>7, <2>4, <3>1
    <3>4. Leads(s.version, s.reg, version + 1, After(Instances(reg), op), log)
      <4>1. CASE Installing
        BY <2>1, <4>1 DEF LiveVersion, LiveReg
      <4>2. CASE ~ Installing
        <5>1. Leads(s.version, s.reg, version, Instances(reg), log)
          BY <2>1, <4>2 DEF LiveVersion, LiveReg
        <5>2. op.force \/ op.name \notin DOMAIN Instances(reg)
          BY <1>7, <2>4 DEF Instances
        <5>3. /\ version \in Nat /\ \A a \in log : a.ver \in Nat
              /\ op \in log /\ op.ver = version + 1
          BY <1>7, <2>4
        <5>4. \A a \in log : a.ver = version + 1 => a = op
          BY <1>7, <2>4
        <5> QED BY <2>1, <5>1, <5>2, <5>3, <5>4, LeadsBack
      <4> QED BY <4>1, <4>2
    <3> QED BY <1>1, <3>1, <3>2, <3>3, <3>4 DEF Reaches
  <2> QED BY <1>7, <2>2, <2>3, <2>4
<1>12. \A i \in DOMAIN tables : i \in DOMAIN W
  BY DEF Applied
<1>13. ASSUME NEW s \in Bases, NEW n \in DOMAIN reg PROVE Wanted(s, reg[n].inst, want'.tables, wal')
  <2> DEFINE i == reg[n].inst
             top == IF apc = "appended" THEN op.lsn ELSE nextEvent
  <2>1. Counted(s, W, i, wal \cup ring, top)
    <3>1. Earlier(s)
      BY <1>4, <1>13
    <3>2. CASE apc = "appended"
      BY <1>13, <3>1, <3>2, AppendedCounted
    <3>3. CASE apc # "appended"
      BY <1>13, <3>1, <3>3 DEF Earlier, Restores, Carries, Instances
    <3> QED BY <3>2, <3>3
  <2>2. \A e \in wal \cup ring : e.lsn <= top
    <3>1. CASE apc = "appended"
      <4>1. nextEvent < op.lsn /\ op.lsn \in Nat
        BY <3>1, SnapshotNumbers
      <4> QED BY <3>1, <4>1 DEF RInv, LiveEvents
    <3>2. CASE apc # "appended"
      BY <3>2 DEF RInv, LiveEvents
    <3> QED BY <3>1, <3>2
  <2>3. i \in DOMAIN W
    BY <1>12, <1>13
  <2> HIDE DEF i, top, W
  <2>4. SavedEvents(s, i) \subseteq EventsOf(W[i])
    BY <2>1 DEF Counted
  <2>5. \A e \in wal' : s.next < e.lsn /\ i < e.lsn => e.lsn \in EventsOf(W[i])
    BY <2>1, <2>2 DEF Counted, Lsns
  <2>6. ASSUME NEW l \in EventsOf(W[i])
        PROVE  \/ l \in SavedEvents(s, i)
               \/ l \in Nat /\ s.next < l /\ i < l /\ (l \in Lsns(wal') \/ \A e \in wal' : e.lsn < l)
    <3>1. SUFFICES ASSUME l \notin SavedEvents(s, i)
                   PROVE  l \in Nat /\ s.next < l /\ i < l /\ (l \in Lsns(wal') \/ \A e \in wal' : e.lsn < l)
      OBVIOUS
    <3>2. l \in Lsns(wal \cup ring) /\ s.next < l /\ i < l
      BY <2>1, <2>6, <3>1 DEF Counted
    <3>3. PICK e \in wal \cup ring : e.lsn = l
      BY <3>2 DEF Lsns
    <3>4. CASE e \in wal'
      BY <3>2, <3>3, <3>4 DEF Lsns
    <3>5. CASE e \notin wal'
      <4>1. \A f \in wal' : ~ (e.lsn <= f.lsn) /\ f.lsn \in Nat
        BY <3>5
      <4>2. e.lsn \in Nat
        BY <3>3
      <4>3. \A f \in wal' : f.lsn < l
        BY <3>3, <4>1, <4>2
      <4> QED BY <3>2, <3>3, <4>2, <4>3
    <3> QED BY <3>4, <3>5
  <2>7. want'.tables = W
    BY <1>1
  <2>8. Wanted(s, i, want'.tables, wal')
    BY <2>3, <2>4, <2>5, <2>6, <2>7 DEF Wanted
  <2> QED BY <2>8 DEF i
<1>14. Target'
  <2>1. want'.version \in Nat /\ want'.reg = [n \in DOMAIN want'.reg |-> want'.reg[n]]
    BY <1>1 DEF Instances
  <2>2. \A e \in wal' : e.rv <= want'.version
    BY <1>1 DEF RInv, LiveEvents
  <2>3. \A s \in Bases, n \in DOMAIN want'.reg : Wanted(s, want'.reg[n], want'.tables, wal')
    BY <1>1, <1>13 DEF Instances
  <2>4. ASSUME want'.bump # NoOp
        PROVE  /\ \A e \in wal' : e.lsn < want'.bump.lsn
               /\ want'.bump.lsn \notin DOMAIN want'.tables
               /\ \A s \in Bases : want'.bump.lsn \notin DOMAIN s.tables
    <3>1. Pending /\ want'.bump = op /\ apc # "appended"
      BY <1>1, <2>4 DEF Pending, Installing
    <3>2. \A e \in wal' : e.lsn < op.lsn
      BY <1>7, <3>1
    <3>3. Fresh(tables, version, log)
      BY DEF RInv, LiveEvents
    <3>4. \A i \in DOMAIN tables : i \in Nat /\ i < op.lsn
      BY <1>7, <3>1, <3>3 DEF Fresh
    <3>5. op.lsn \notin DOMAIN tables
      BY <1>7, <3>1, <3>4
    <3> QED BY <1>1, <1>9, <3>1, <3>2, <3>5
  <2> QED BY <1>1, <1>2, <1>3, <1>11, <2>1, <2>2, <2>3, <2>4 DEF Target
<1> QED BY <1>5, <1>6, <1>10, <1>14 DEF RInv

(* A crash loses what follows some record, in each log by itself. *)
LEMMA CrashR ==
  ASSUME IInv, SInv, RInv, NEW k \in 0 .. MaxLsn, NEW j \in 0 .. MaxLsn, Crash(k, j) PROVE RInv'
<1>1. /\ Up /\ Down /\ wal' = wal \cup {e \in ring : e.lsn <= k}
      /\ log' = {b \in log : b \in logSynced \/ b.lsn <= j} /\ logSynced' = log' /\ kept' = kept
  BY DEF Crash
<1> USE LogNumbers
<1>2. ASSUME NEW e \in wal \cup ring, NEW f \in wal', e.lsn <= f.lsn PROVE e \in wal'
  <2>1. CASE e \in wal
    BY <1>1, <2>1
  <2>2. CASE e \in ring
    <3>1. \A g \in wal : g.lsn < e.lsn
      BY <2>2 DEF RInv, Streams
    <3>2. f \in ring /\ f.lsn <= k
      BY <1>1, <1>2, <3>1
    <3>3. e.lsn <= k
      BY <1>2, <3>2
    <3> QED BY <1>1, <2>2, <3>3
  <2> QED BY <2>1, <2>2
<1>3. \A b \in log : b \in log' \/ (apc = "staged" /\ b = op)
  BY <1>1 DEF RInv, LiveLog
<1>4. log' \subseteq log /\ wal \subseteq wal' /\ wal' \subseteq wal \cup ring
  BY <1>1
<1> QED BY <1>1, <1>2, <1>3, <1>4, DownR

(* A shutdown loses nothing. *)
LEMMA ShutdownR ==
  ASSUME IInv, SInv, RInv, Shutdown PROVE RInv'
<1>1. /\ Up /\ Down /\ wal' = wal \cup ring /\ log' = log /\ logSynced' = log'
      /\ kept' = kept \cup Lsns(ring)
  BY DEF Shutdown
<1>2. \A l \in kept' : l \in kept \/ \E e \in wal' : l <= e.lsn
  BY <1>1, LogNumbers DEF Lsns
<1> QED BY <1>1, <1>2, DownR

-----------------------------------------------------------------------------
(* Recovery. *)

(* Recovery writes nothing. *)
LEMMA RecoveryKeeps ==
  ASSUME IInv, RInv, ~ Up, ~ Up',
         UNCHANGED <<snaps, log, logSynced, wal, ring, requested, kept, want, spc>>
  PROVE  Streams' /\ LiveLog' /\ LiveEvents' /\ BasesSound' /\ Saving' /\ Target' /\ Bases' = Bases
<1>1. spc = "idle"
  BY DEF IInv, ApplyThread
<1>2. Bases' = Bases
  BY DEF Bases
<1>3. Streams'
  BY DEF RInv, Streams
<1>4. LiveLog' /\ LiveEvents'
  BY DEF LiveLog, LiveEvents
<1>5. BasesSound'
  BY <1>2 DEF RInv, BasesSound
<1>6. Saving'
  BY <1>1 DEF Saving
<1>7. Target'
  BY <1>2 DEF RInv, Target, Reaches
<1> QED BY <1>2, <1>3, <1>4, <1>5, <1>6, <1>7

(* The base is loaded. *)
LEMMA LoadSnapshotR ==
  ASSUME IInv, SInv, RInv, LoadSnapshot PROVE RInv'
<1> DEFINE s0 == IF snaps = {} THEN NoBody
                 ELSE CHOOSE x \in snaps : \A y \in snaps : y.lsn <= x.lsn
<1>1. /\ phase = "load" /\ phase' = "bumps" /\ cursor' = 0
      /\ version' = s0.version /\ tables' = s0.tables /\ nextEvent' = s0.next /\ seen' = s0.lsn
      /\ reg' = [n \in DOMAIN s0.reg |-> [inst |-> s0.reg[n], at |-> 1]]
      /\ UNCHANGED <<apc, snaps, log, logSynced, wal, ring, requested, kept, want, spc>>
  BY DEF LoadSnapshot, diskVars, taskVars, histVars
<1>2. s0 \in Bases
  <2>1. CASE snaps = {}
    BY <2>1 DEF Bases
  <2>2. CASE snaps # {}
    BY <2>2, NewestSnapshot DEF Bases, IInv
  <2> QED BY <2>1, <2>2
<1> HIDE DEF s0
<1>3. ~ Up /\ ~ Up' /\ ~ Installing'
  BY <1>1 DEF Up, Installing, IInv, ApplyThread
<1>4. /\ Streams' /\ LiveLog' /\ LiveEvents' /\ BasesSound' /\ Saving' /\ Target'
      /\ Bases' = Bases
  BY <1>1, <1>3, RecoveryKeeps
<1>5. \A s \in Bases : s = s0
  BY <1>2 DEF RInv, BasesSound
<1>6. Sound(s0, log, wal \cup ring)
  BY <1>2 DEF RInv, BasesSound
<1>7. /\ s0.lsn \in Nat /\ s0.version \in Nat /\ s0.next \in Nat
      /\ \A n \in DOMAIN s0.reg : s0.reg[n] \in DOMAIN s0.tables
  BY <1>2, BaseOK
<1>8. Instances(reg') = s0.reg
  <2>1. s0.reg = [n \in DOMAIN s0.reg |-> s0.reg[n]]
    BY <1>6 DEF Sound
  <2> QED BY <1>1, <2>1 DEF Instances
<1> USE LogNumbers
<1>9. BasesLead'
  <2>1. Leads(s0.version, s0.reg, s0.version, s0.reg, log)
    BY <1>7, LeadsNowhere
  <2>2. ASSUME NEW n \in DOMAIN s0.reg
        PROVE  /\ s0.reg[n] <= s0.lsn \/ s0.reg[n] \in Lsns(log)
               /\ Counted(s0, s0.tables, s0.reg[n], wal \cup ring, s0.next)
    <3>1. s0.reg[n] <= s0.lsn \/ s0.reg[n] \in Lsns(log)
      BY <1>6, <1>7 DEF Sound
    <3>2. {l \in Lsns(wal \cup ring) : s0.next < l /\ s0.reg[n] < l /\ l <= s0.next} = {}
      BY <1>7 DEF Lsns
    <3>3. SavedEvents(s0, s0.reg[n]) = EventsOf(s0.tables[s0.reg[n]])
      BY <1>7 DEF SavedEvents
    <3> QED BY <3>1, <3>2, <3>3 DEF Counted
  <2>3. Carries(s0, s0.reg, s0.tables, s0.next, log, wal \cup ring)
    BY <2>2 DEF Carries
  <2>4. LiveVersion' = s0.version /\ LiveReg' = s0.reg
    BY <1>1, <1>3, <1>8 DEF LiveVersion, LiveReg
  <2> QED BY <1>1, <1>4, <1>5, <1>8, <2>1, <2>3, <2>4 DEF BasesLead, Restores
<1>10. Replaying'
  <2>1. s0.next <= MaxLsn /\ Fresh(s0.tables, s0.version, log)
    BY <1>6 DEF Sound
  <2>2. version' = 0 => DOMAIN reg' = {}
    BY <1>1, <1>6 DEF Sound
  <2>3. Reaches(s0.version, s0.reg)
    BY <1>2, <1>3 DEF RInv, Target
  <2>4. Reaches(version, Instances(reg))'
    BY <1>1, <1>8, <2>3 DEF Reaches
  <2>5. \A i \in DOMAIN tables' : i <= seen' \/ i \in Lsns(log')
    BY <1>1, <1>6 DEF Sound
  <2>6. \A n \in DOMAIN reg' : reg'[n].at <= 1 /\ reg'[n].inst \in DOMAIN s0.tables
    BY <1>1, <1>7
  <2>7. \A b \in log' : ~ (b.lsn <= cursor')
    BY <1>1 DEF RInv, Streams
  <2> QED BY <1>1, <1>4, <1>5, <2>1, <2>2, <2>4, <2>5, <2>6, <2>7 DEF Replaying
<1> QED BY <1>4, <1>9, <1>10 DEF RInv

(* The next bump, if not known, is that of the next version. *)
LEMMA ReplayOne ==
  ASSUME NEW v \in Nat, NEW r, NEW hi \in Nat, NEW q, NEW L, NEW b \in L,
         \A a \in L : a.ver \in Nat /\ a.lsn \in Nat /\ a.ver <= hi,
         \A a, c \in L : (a.ver < c.ver <=> a.lsn < c.lsn) /\ (a.lsn = c.lsn => a = c),
         Leads(v, r, hi, q, L), b.ver > v, \A c \in L : c.ver > v => b.lsn <= c.lsn
  PROVE  /\ b.ver = v + 1
         /\ b.force \/ b.name \notin DOMAIN r
         /\ Leads(v + 1, After(r, b), hi, q, L)
<1>1. b.ver \in Nat /\ v + 1 \in v + 1 .. hi
  OBVIOUS
<1>2. PICK c \in L : c.ver = v + 1
  BY <1>1 DEF Leads
<1>3. b.lsn <= c.lsn
  BY <1>2
<1>4. b.ver = v + 1
  BY <1>1, <1>2, <1>3
<1>5. \A a \in L : a.ver = v + 1 => a = b
  BY <1>4
<1>6. /\ v + 1 <= hi /\ \A a \in L : a.ver \in Nat
  BY <1>1
<1>7. Leads(v + 1, After(r, b), hi, q, L) /\ (b.force \/ b.name \notin DOMAIN r)
  BY <1>4, <1>5, <1>6, LeadsFront
<1> QED BY <1>4, <1>7

(* The bump read next brings memory one version closer to the crash. *)
LEMMA ReachesNext ==
  ASSUME IInv, Streams, want.version \in Nat, NEW v \in Nat, NEW r, NEW b \in log, Reaches(v, r),
         b.ver > v, \A c \in log : c.ver > v => b.lsn <= c.lsn
  PROVE  /\ b.ver = v + 1
         /\ b.force \/ b.name \notin DOMAIN r
         /\ Reaches(v + 1, After(r, b))
<1>1. /\ \A a \in log : a.ver \in Nat /\ a.lsn \in Nat
      /\ \A a, c \in log : (a.ver < c.ver <=> a.lsn < c.lsn) /\ (a.lsn = c.lsn => a = c)
  BY LogNumbers DEF Streams
<1>2. CASE /\ ~ want.bumpSynced
           /\ Leads(v, r, want.version, want.reg, log) /\ \A a \in log : a.ver <= want.version
  <2>1. /\ b.ver = v + 1
        /\ b.force \/ b.name \notin DOMAIN r
        /\ Leads(v + 1, After(r, b), want.version, want.reg, log)
    BY <1>1, <1>2, ReplayOne
  <2> QED BY <1>2, <2>1 DEF Reaches
<1>3. CASE /\ want.bump # NoOp
           /\ Leads(v, r, want.version + 1, After(want.reg, want.bump), log)
           /\ \A a \in log : a.ver <= want.version + 1
  <2>0. want.version + 1 \in Nat
    OBVIOUS
  <2>1. /\ b.ver = v + 1
        /\ b.force \/ b.name \notin DOMAIN r
        /\ Leads(v + 1, After(r, b), want.version + 1, After(want.reg, want.bump), log)
    BY <1>1, <1>3, <2>0, ReplayOne
  <2> QED BY <1>3, <2>1 DEF Reaches
<1> QED BY <1>2, <1>3 DEF Reaches

(* A bump is skipped if its version is known, and installed otherwise. *)
LEMMA ReplayBumpR ==
  ASSUME IInv, SInv, RInv, ReplayBump PROVE RInv'
<1> DEFINE b == NextAfter(log, cursor)
<1>1. /\ phase = "bumps" /\ phase' = "bumps" /\ cursor' = b.lsn /\ seen' = Larger(seen, b.lsn)
      /\ \/ b.ver <= version /\ UNCHANGED <<version, reg, tables>>
         \/ /\ ~ (b.ver <= version) /\ version' = version + 1
            /\ reg' = Install(reg, b, version + 1) /\ tables' = Grown(tables, reg')
      /\ UNCHANGED <<apc, op, nextEvent, snaps, log, logSynced, wal, ring, requested, kept, want, spc>>
  BY DEF ReplayBump, KnownBump, diskVars, taskVars, histVars
<1> USE LogNumbers
<1>2. b \in log /\ b.lsn > cursor /\ \A c \in log : c.lsn > cursor => b.lsn <= c.lsn
  <2>1. \E c \in log : c.lsn > cursor
    BY DEF ReplayBump
  <2> QED BY <2>1, NextAfterExists
<1> HIDE DEF b
<1>3. ~ Up /\ ~ Up' /\ ~ Installing /\ ~ Installing'
  BY <1>1 DEF Up, Installing, IInv, ApplyThread
<1>4. /\ Streams' /\ LiveLog' /\ LiveEvents' /\ BasesSound' /\ Saving' /\ Target'
      /\ Bases' = Bases
  BY <1>1, <1>3, RecoveryKeeps
<1>5. /\ LiveVersion = version /\ LiveReg = Instances(reg)
      /\ LiveVersion' = version' /\ LiveReg' = Instances(reg')
  BY <1>3 DEF LiveVersion, LiveReg
<1>6. /\ nextEvent <= MaxLsn /\ (version = 0 => DOMAIN reg = {})
      /\ Reaches(version, Instances(reg)) /\ Fresh(tables, version, log)
      /\ \A i \in DOMAIN tables : i <= seen \/ i \in Lsns(log)
      /\ \A s \in Bases :
           /\ nextEvent = s.next
           /\ \A n \in DOMAIN reg :
                \/ reg[n].at <= 1 /\ reg[n].inst \in DOMAIN s.tables
                \/ \E c \in log : c.lsn = reg[n].inst /\ c.ver = reg[n].at
      /\ \A c \in log : c.lsn <= cursor => c.ver <= version /\ c.lsn <= seen
  BY <1>1 DEF RInv, Replaying
<1>7. \A s \in Bases : Restores(s, version, Instances(reg), Instances(reg), tables, nextEvent, log, wal \cup ring)
  BY <1>1, <1>5 DEF RInv, BasesLead
<1>8. /\ \A c \in log : c.lsn <= b.lsn => c.lsn <= cursor \/ c = b
      /\ \A x, y \in log : (x.ver < y.ver <=> x.lsn < y.lsn) /\ (x.lsn = y.lsn => x = y)
  <2>1. \A x, y \in log : (x.ver < y.ver <=> x.lsn < y.lsn) /\ (x.lsn = y.lsn => x = y)
    BY DEF RInv, Streams
  <2>2. ASSUME NEW c \in log, c.lsn <= b.lsn, ~ (c.lsn <= cursor) PROVE c = b
    <3>1. c.lsn > cursor
      BY <2>2
    <3>2. b.lsn <= c.lsn
      BY <1>2, <3>1
    <3>3. b.lsn = c.lsn
      BY <1>2, <2>2, <3>2
    <3> QED BY <1>2, <2>1, <3>3
  <2> QED BY <2>1, <2>2
<1>9. seen' \in Nat /\ seen <= seen' /\ b.lsn <= seen'
  BY <1>1, <1>2 DEF Larger
<1>10. CASE b.ver <= version /\ UNCHANGED <<version, reg, tables>>
  <2>1. BasesLead'
    BY <1>1, <1>4, <1>5, <1>7, <1>10 DEF BasesLead
  <2>2. \A i \in DOMAIN tables : i <= seen' \/ i \in Lsns(log)
    <3>1. DOMAIN tables \subseteq Nat
      BY <1>6 DEF Fresh
    <3> QED BY <1>6, <1>9, <3>1
  <2>3. \A c \in log : c.lsn <= b.lsn => c.ver <= version /\ c.lsn <= seen'
    BY <1>6, <1>8, <1>9, <1>10
  <2>4. Reaches(version, Instances(reg))'
    BY <1>1, <1>6, <1>10 DEF Reaches
  <2>5. Replaying'
    BY <1>1, <1>4, <1>6, <1>10, <2>2, <2>3, <2>4 DEF Replaying
  <2> QED BY <1>4, <2>1, <2>5 DEF RInv
<1>11. CASE /\ ~ (b.ver <= version) /\ version' = version + 1
            /\ reg' = Install(reg, b, version + 1) /\ tables' = Grown(tables, reg')
  <2> DEFINE R == Put(reg, b, version + 1)
  <2>1. b.ver > version
    BY <1>2, <1>11
  <2>2. ASSUME NEW c \in log, c.ver > version PROVE b.lsn <= c.lsn
    <3>1. ~ (c.lsn <= cursor)
      BY <1>6, <2>2
    <3>2. c.lsn > cursor
      BY <3>1
    <3> QED BY <1>2, <3>2
  <2>3. /\ b.ver = version + 1
        /\ b.force \/ b.name \notin DOMAIN Instances(reg)
        /\ Reaches(version + 1, After(Instances(reg), b))
    <3>1. Streams /\ want.version \in Nat /\ version \in Nat
      BY DEF RInv, Target
    <3> QED BY <1>2, <1>6, <2>1, <2>2, <3>1, ReachesNext
  <2>4. reg' = R /\ tables' = Grown(tables, R)
    <3>1. b.force \/ b.name \notin DOMAIN reg
      BY <2>3 DEF Instances
    <3> QED BY <1>11, <3>1 DEF Install, Put
  <2>5. R[b.name].inst = b.lsn /\ R[b.name].at = version + 1
    BY DEF Put
  <2>6. /\ DOMAIN R = DOMAIN reg \cup {b.name}
        /\ \A n \in DOMAIN reg : n # b.name => R[n] = reg[n]
    BY DEF Put
  <2>7. Instances(R) = After(Instances(reg), b)
    BY PutInstances
  <2>8. Housed(reg, tables)
    BY DEF Housed
  <2>9. Grew(Grown(tables, R), tables, b.lsn)
    BY <2>8, GrownDomain
  <2>10. DOMAIN tables' = DOMAIN tables \cup {b.lsn}
    BY <2>4, <2>9 DEF Grew
  <2>11. \A i \in DOMAIN tables : i \in Nat /\ i < b.lsn
    BY <1>2, <1>6, <2>1 DEF Fresh
  <2>12. b.lsn \notin DOMAIN tables
    BY <1>2, <2>11
  <2>13. ASSUME NEW s \in Bases PROVE s.version \in Nat /\ s.version <= version /\ s.next \in Nat /\ b.lsn \notin DOMAIN s.tables
    <3>1. s.version \in Nat /\ s.version <= version /\ s.next \in Nat
      BY <1>1, <2>13, BasePast, BaseOK DEF NotPast
    <3>2. Fresh(s.tables, s.version, log)
      BY <2>13 DEF RInv, BasesSound, Sound
    <3>3. \A i \in DOMAIN s.tables : i \in Nat /\ i < b.lsn
      BY <1>2, <2>1, <3>1, <3>2 DEF Fresh
    <3> QED BY <1>2, <3>1, <3>3
  <2>14. ASSUME NEW s \in Bases
         PROVE  Restores(s, version + 1, Instances(R), Instances(R), Grown(tables, R), nextEvent, log, wal \cup ring)
    <3>1. s.version \in Nat /\ b.lsn \notin DOMAIN s.tables /\ s.next = nextEvent
      BY <1>6, <2>13, <2>14
    <3>2. Leads(s.version, s.reg, version, Instances(reg), log)
      BY <1>7, <2>14 DEF Restores
    <3>3. version \in Nat /\ \A a \in log : a.ver \in Nat
      OBVIOUS
    <3>4. \A a \in log : a.ver = version + 1 => a = b
      BY <1>2, <1>8, <2>3
    <3>5. Leads(s.version, s.reg, version + 1, After(Instances(reg), b), log)
      BY <1>2, <2>3, <3>1, <3>2, <3>3, <3>4, LeadsBack
    <3>6. Carries(s, Instances(reg), tables, nextEvent, log, wal \cup ring)
      BY <1>7, <2>14 DEF Restores
    <3>7. \A l \in Lsns(wal \cup ring) : ~ (s.next < l /\ b.lsn < l /\ l <= nextEvent)
      BY <3>1 DEF Lsns
    <3>8. /\ \A n \in DOMAIN reg : reg[n].inst \in DOMAIN tables
          /\ b.lsn \in Nat /\ nextEvent \in Nat /\ \A e \in wal \cup ring : e.lsn \in Nat
      BY <1>2
    <3>9. Carries(s, Instances(R), Grown(tables, R), nextEvent, log, wal \cup ring)
      BY <1>2, <2>12, <3>1, <3>6, <3>7, <3>8, CarriesBump
    <3> QED BY <2>7, <3>5, <3>9 DEF Restores
  <2> HIDE DEF R
  <2>15. BasesLead'
    BY <1>1, <1>4, <1>5, <1>11, <2>4, <2>14 DEF BasesLead
  <2>16. Fresh(tables, version, log)'
    <3>1. ASSUME NEW c \in log, c.ver > version + 1 PROVE b.lsn < c.lsn
      BY <1>2, <1>8, <2>3, <3>1
    <3>2. ASSUME NEW c \in log, c.ver > version + 1, NEW i \in DOMAIN tables PROVE i < c.lsn
      BY <1>6, <3>2 DEF Fresh
    <3> QED BY <1>1, <1>2, <1>11, <2>10, <2>11, <3>1, <3>2 DEF Fresh
  <2>17. \A i \in DOMAIN tables' : i <= seen' \/ i \in Lsns(log)
    <3>1. b.lsn \in Lsns(log)
      BY <1>2 DEF Lsns
    <3> QED BY <1>6, <1>9, <2>10, <2>11, <3>1
  <2>18. ASSUME NEW s \in Bases, NEW n \in DOMAIN reg'
         PROVE  \/ reg'[n].at <= 1 /\ reg'[n].inst \in DOMAIN s.tables
                \/ \E c \in log : c.lsn = reg'[n].inst /\ c.ver = reg'[n].at
    <3>1. CASE n = b.name
      BY <1>2, <2>3, <2>4, <2>5, <3>1
    <3>2. CASE n # b.name
      <4>1. n \in DOMAIN reg /\ reg'[n] = reg[n]
        BY <2>4, <2>5, <2>6, <2>18, <3>2
      <4> QED BY <1>6, <2>18, <4>1
    <3> QED BY <3>1, <3>2
  <2>19. \A c \in log : c.lsn <= b.lsn => c.ver <= version + 1 /\ c.lsn <= seen'
    BY <1>6, <1>8, <1>9, <2>3
  <2>20. Reaches(version, Instances(reg))'
    BY <1>1, <1>11, <2>3, <2>4, <2>7 DEF Reaches
  <2>21. version' # 0
    BY <1>11
  <2>22. Replaying'
    BY <1>1, <1>4, <1>6, <1>11, <2>16, <2>17, <2>18, <2>19, <2>20, <2>21 DEF Replaying
  <2> QED BY <1>4, <2>15, <2>22 DEF RInv
<1> QED BY <1>1, <1>10, <1>11

(* The end of each replay loop. *)
LEMMA BumpsDoneR ==
  ASSUME IInv, SInv, RInv, BumpsDone PROVE RInv'
<1>1. /\ phase = "bumps" /\ phase' = "events" /\ cursor' = nextEvent
      /\ \A b \in log : ~ (b.lsn > cursor)
      /\ UNCHANGED <<apc, op, version, reg, tables, nextEvent, seen,
                     snaps, log, logSynced, wal, ring, requested, kept, want, spc>>
  BY DEF BumpsDone, ReplayFloor, memVars, diskVars, taskVars, histVars
<1>2. ~ Up /\ ~ Up'
  BY <1>1 DEF Up
<1>3. /\ Streams' /\ LiveLog' /\ LiveEvents' /\ BasesSound' /\ Saving' /\ Target'
      /\ Bases' = Bases
  BY <1>1, <1>2, RecoveryKeeps
<1>4. BasesLead'
  BY <1>1, <1>3 DEF RInv, BasesLead, LiveVersion, LiveReg, Installing
<1>5. \A b \in log : b.lsn <= cursor
  BY <1>1, LogNumbers
<1>6. Reaches(version, Instances(reg))'
  BY <1>1 DEF RInv, Replaying, Reaches
<1>7. Replaying'
  BY <1>1, <1>3, <1>5, <1>6 DEF RInv, Replaying
<1> QED BY <1>3, <1>4, <1>7 DEF RInv

(* The events are read to the end. *)
LEMMA EventsDoneR ==
  ASSUME IInv, SInv, RInv, EventsDone PROVE RInv'
<1>1. /\ phase = "events" /\ phase' = "ready"
      /\ \A e \in wal : ~ (e.lsn > cursor)
      /\ UNCHANGED <<apc, op, version, reg, tables, nextEvent, seen, cursor,
                     snaps, log, logSynced, wal, ring, requested, kept, want, spc>>
  BY DEF EventsDone, memVars, diskVars, taskVars, bootVars, histVars
<1>2. ~ Up /\ ~ Up'
  BY <1>1 DEF Up
<1>3. /\ Streams' /\ LiveLog' /\ LiveEvents' /\ BasesSound' /\ Saving' /\ Target'
      /\ Bases' = Bases
  BY <1>1, <1>2, RecoveryKeeps
<1>4. BasesLead'
  BY <1>1, <1>3 DEF RInv, BasesLead, LiveVersion, LiveReg, Installing
<1>5. \A e \in wal : e.lsn <= nextEvent
  BY <1>1, LogNumbers DEF RInv, Replaying
<1>6. Reaches(version, Instances(reg))'
  BY <1>1 DEF RInv, Replaying, Reaches
<1>7. Replaying'
  BY <1>1, <1>3, <1>5, <1>6 DEF RInv, Replaying
<1> QED BY <1>3, <1>4, <1>7 DEF RInv

(* An event is replayed into the aggregations whose bump it is past. *)
LEMMA ReplayEventR ==
  ASSUME IInv, SInv, RInv, ReplayEvent PROVE RInv'
<1> DEFINE e == NextAfter(wal, cursor)
           l == e.lsn
<1>1. /\ phase = "events" /\ phase' = "events" /\ cursor' = l /\ seen' = Larger(seen, l)
      /\ tables' = Applied(tables, reg, RegisteredAt(e.rv), l) /\ nextEvent' = Larger(nextEvent, l)
      /\ UNCHANGED <<apc, op, version, reg,
                     snaps, log, logSynced, wal, ring, requested, kept, want, spc>>
  BY DEF ReplayEvent, diskVars, taskVars, histVars
<1> USE LogNumbers
<1>2. e \in wal /\ l > cursor /\ \A f \in wal : f.lsn > cursor => l <= f.lsn
  <2>1. \E f \in wal : f.lsn > cursor
    BY DEF ReplayEvent
  <2> QED BY <2>1, NextAfterExists
<1> HIDE DEF e
<1>3. ~ Up /\ ~ Up' /\ ring = {}
  BY <1>1 DEF Up, RInv, Target
<1>4. /\ Streams' /\ LiveLog' /\ LiveEvents' /\ BasesSound' /\ Saving' /\ Target'
      /\ Bases' = Bases
  BY <1>1, <1>3, RecoveryKeeps
<1>5. /\ cursor = nextEvent /\ (version = 0 => DOMAIN reg = {})
      /\ Reaches(version, Instances(reg)) /\ Fresh(tables, version, log)
      /\ \A i \in DOMAIN tables : i <= seen \/ i \in Lsns(log)
      /\ \A s \in Bases : \A n \in DOMAIN reg :
           \/ reg[n].at <= 1 /\ reg[n].inst \in DOMAIN s.tables
           \/ \E c \in log : c.lsn = reg[n].inst /\ c.ver = reg[n].at
      /\ \A c \in log : c.ver <= version /\ c.lsn <= seen
  BY <1>1 DEF RInv, Replaying
<1>6. l \in Nat /\ nextEvent < l /\ nextEvent' = l /\ seen <= seen' /\ seen' \in Nat /\ l <= MaxLsn
  BY <1>1, <1>2, <1>5 DEF Larger, RInv, Streams
<1>7. DOMAIN tables' = DOMAIN tables
  BY <1>1 DEF Applied
<1>8. e.rv >= 1 /\ \A b \in log : e.rv >= b.ver <=> l > b.lsn
  BY <1>2 DEF RInv, Streams
<1>9. ASSUME NEW s \in Bases PROVE s.next \in Nat /\ s.next <= nextEvent
  BY <1>1, <1>9, BasePast, BaseOK DEF NotPast
<1>10. ASSUME NEW s \in Bases, NEW n \in DOMAIN reg
       PROVE  n \in RegisteredAt(e.rv) <=> reg[n].inst < l
  <2>1. CASE reg[n].at <= 1 /\ reg[n].inst \in DOMAIN s.tables
    <3>1. s.next < l
      BY <1>6, <1>9, <1>10
    <3>2. reg[n].inst < l
      BY <1>2, <1>10, <2>1, <3>1 DEF RInv, BasesSound, Sound
    <3> QED BY <1>2, <1>8, <1>10, <2>1, <3>2 DEF RegisteredAt
  <2>2. CASE \E c \in log : c.lsn = reg[n].inst /\ c.ver = reg[n].at
    BY <1>2, <1>6, <1>8, <1>10, <2>2 DEF RegisteredAt
  <2> QED BY <1>5, <1>10, <2>1, <2>2
<1>11. \A k \in Lsns(wal \cup ring) : k \in Nat /\ (k <= l <=> k <= nextEvent \/ k = l)
  BY <1>2, <1>3, <1>5, <1>6 DEF Lsns
<1>12. l \in Lsns(wal) /\ l \in Lsns(wal \cup ring)
  BY <1>2 DEF Lsns
<1> HIDE DEF l
<1>13. BasesLead'
  <2>1. /\ LiveVersion = version /\ LiveReg = Instances(reg)
        /\ LiveVersion' = version /\ LiveReg' = Instances(reg)
    BY <1>1, <1>3 DEF LiveVersion, LiveReg, Installing, IInv, ApplyThread
  <2>2. ASSUME NEW s \in Bases, NEW n \in DOMAIN reg
        PROVE  Counted(s, tables', reg[n].inst, wal \cup ring, l)
    <3> DEFINE i == reg[n].inst
    <3>1. Counted(s, tables, i, wal \cup ring, nextEvent)
      BY <1>1, <2>2 DEF RInv, BasesLead, Restores, Carries, Instances
    <3>2. InOrder(tables, nextEvent) /\ i \in DOMAIN tables /\ i \in Nat
      BY <2>2 DEF IInv
    <3>3. (\E m \in RegisteredAt(e.rv) : reg[m].inst = i) <=> i < l
      BY <1>10, <2>2 DEF RegisteredAt
    <3>4. /\ (\E m \in RegisteredAt(e.rv) : reg[m].inst = i) =>
               EventsOf(tables'[i]) = EventsOf(tables[i]) \cup {l}
          /\ ~ (\E m \in RegisteredAt(e.rv) : reg[m].inst = i) =>
               EventsOf(tables'[i]) = EventsOf(tables[i])
      BY <1>1, <1>6, <3>2, AppliedEvents
    <3>5. s.next < l
      BY <1>6, <1>9, <2>2
    <3> HIDE DEF i
    <3>6. CASE i < l
      <4>1. EventsOf(tables'[i]) = EventsOf(tables[i]) \cup {l}
        BY <3>3, <3>4, <3>6
      <4>2. Counted(s, tables', i, wal \cup ring, l)
        BY <1>11, <1>12, <3>1, <3>5, <3>6, <4>1 DEF Counted
      <4> QED BY <4>2 DEF i
    <3>7. CASE ~ (i < l)
      <4>1. EventsOf(tables'[i]) = EventsOf(tables[i])
        BY <3>3, <3>4, <3>7
      <4>2. {k \in Lsns(wal \cup ring) : s.next < k /\ i < k /\ k <= l}
              = {k \in Lsns(wal \cup ring) : s.next < k /\ i < k /\ k <= nextEvent}
        BY <1>6, <1>11, <3>2, <3>7
      <4>3. Counted(s, tables', i, wal \cup ring, l)
        BY <3>1, <4>1, <4>2 DEF Counted
      <4> QED BY <4>3 DEF i
    <3> QED BY <3>6, <3>7
  <2>3. ASSUME NEW s \in Bases
        PROVE  Restores(s, version, Instances(reg), Instances(reg), tables', l, log, wal \cup ring)
    <3>1. Restores(s, version, Instances(reg), Instances(reg), tables, nextEvent, log, wal \cup ring)
      BY <1>1, <2>1, <2>3 DEF RInv, BasesLead
    <3>2. Carries(s, Instances(reg), tables', l, log, wal \cup ring)
      BY <2>2, <2>3, <3>1 DEF Restores, Carries, Instances
    <3> QED BY <3>1, <3>2 DEF Restores
  <2> QED BY <1>1, <1>4, <1>6, <2>1, <2>3 DEF BasesLead
<1>14. Replaying'
  <2>1. Reaches(version, Instances(reg))'
    BY <1>1, <1>5 DEF Reaches
  <2>2. Fresh(tables, version, log)'
    BY <1>1, <1>5, <1>7 DEF Fresh
  <2>3. \A i \in DOMAIN tables' : i <= seen' \/ i \in Lsns(log)
    <3>1. DOMAIN tables \subseteq Nat
      BY <1>5 DEF Fresh
    <3> QED BY <1>5, <1>6, <1>7, <3>1
  <2>4. \A c \in log : c.ver <= version /\ c.lsn <= seen'
    BY <1>5, <1>6
  <2> QED BY <1>1, <1>4, <1>5, <1>6, <1>12, <2>1, <2>2, <2>3, <2>4 DEF Replaying
<1> QED BY <1>4, <1>13, <1>14 DEF RInv

(* The version recovery ends with. *)
LEMMA Recovered ==
  ASSUME IInv, RInv, phase = "ready"
  PROVE  \/ /\ ~ want.bumpSynced /\ version = want.version
            /\ DOMAIN want.reg = DOMAIN reg /\ \A n \in DOMAIN reg : reg[n].inst = want.reg[n]
         \/ /\ want.bump # NoOp /\ version = want.version + 1
            /\ DOMAIN reg = DOMAIN want.reg \cup {want.bump.name}
            /\ \A n \in DOMAIN reg : reg[n].inst = After(want.reg, want.bump)[n]
<1>1. /\ Reaches(version, Instances(reg)) /\ want.version \in Nat /\ version \in Nat
      /\ \A b \in log : b.ver \in Nat /\ b.ver <= version
  BY LogNumbers DEF RInv, Replaying, Target
<1>2. DOMAIN Instances(reg) = DOMAIN reg /\ \A n \in DOMAIN reg : Instances(reg)[n] = reg[n].inst
  BY DEF Instances
<1>3. CASE ~ want.bumpSynced /\ Leads(version, Instances(reg), want.version, want.reg, log)
  <2>1. /\ version = want.version /\ DOMAIN want.reg = DOMAIN Instances(reg)
        /\ \A n \in DOMAIN Instances(reg) : want.reg[n] = Instances(reg)[n]
    BY <1>1, <1>3, LeadsDone
  <2> QED BY <1>2, <1>3, <2>1
<1>4. CASE want.bump # NoOp /\ Leads(version, Instances(reg), want.version + 1, After(want.reg, want.bump), log)
  <2> DEFINE q == After(want.reg, want.bump)
             w == want.version + 1
  <2>0. w \in Nat /\ Leads(version, Instances(reg), w, q, log)
    BY <1>1, <1>4
  <2>1. DOMAIN q = DOMAIN want.reg \cup {want.bump.name}
    BY AfterIs
  <2> HIDE DEF q, w
  <2>2. /\ version = w /\ DOMAIN q = DOMAIN Instances(reg)
        /\ \A n \in DOMAIN Instances(reg) : q[n] = Instances(reg)[n]
    BY <1>1, <2>0, LeadsDone
  <2> QED BY <1>2, <1>4, <2>1, <2>2 DEF q, w
<1> QED BY <1>1, <1>3, <1>4 DEF Reaches

(* The server goes on from what recovery restored. *)
LEMMA StartR ==
  ASSUME IInv, SInv, RInv, Start PROVE RInv'
<1>1. /\ phase = "ready" /\ phase' = "up" /\ durable' = LastRecovered /\ sinkNext' = LastRecovered + 1
      /\ kept' = {l \in 1 .. MaxLsn : \E i \in DOMAIN tables : \E j \in DOMAIN tables[i] : tables[i][j] = l}
      /\ want' = [version |-> 0, reg |-> <<>>, tables |-> <<>>, bump |-> NoOp, bumpSynced |-> FALSE]
      /\ UNCHANGED <<apc, op, version, reg, tables, nextEvent,
                     snaps, log, logSynced, wal, ring, requested, spc>>
  BY DEF Start, diskVars, taskVars
<1> USE LogNumbers
<1>2. Bases' = Bases
  BY <1>1 DEF Bases
<1>3. ~ Up /\ Up' /\ apc = "idle" /\ spc = "idle"
  BY <1>1 DEF Up, IInv, ApplyThread
<1>4. ~ Pending' /\ ~ Installing' /\ ~ Installing
  BY <1>1, <1>3 DEF Pending, Installing
<1>5. ring = {} /\ logSynced = log /\ requested = 0 /\ \A e \in wal : e.rv <= want.version
  BY <1>3 DEF RInv, Target
<1>6. /\ nextEvent <= MaxLsn /\ (version = 0 => DOMAIN reg = {}) /\ Fresh(tables, version, log)
      /\ \A i \in DOMAIN tables : i <= seen \/ i \in Lsns(log)
      /\ \A s \in Bases : nextEvent = s.next \/ nextEvent \in Lsns(wal)
      /\ \A b \in log : b.ver <= version /\ b.lsn <= seen
      /\ \A e \in wal : e.lsn <= nextEvent
  BY <1>1 DEF RInv, Replaying
<1>7. LastRecovered \in Nat /\ seen <= LastRecovered /\ nextEvent <= LastRecovered
  BY DEF LastRecovered, Larger
<1>8. want.version \in Nat /\ want.version <= version
  BY <1>1, Recovered DEF RInv, Target
<1>9. Streams'
  BY <1>1 DEF RInv, Streams
<1>10. LiveLog'
  BY <1>1, <1>3, <1>4, <1>5, <1>6, <1>7 DEF LiveLog
<1>11. LiveEvents'
  <2>1. \A i \in DOMAIN tables : i <= durable'
    <3>1. DOMAIN tables \subseteq Nat
      BY <1>6 DEF Fresh
    <3> QED BY <1>1, <1>6, <1>7, <3>1 DEF Lsns
  <2>2. \A e \in wal \cup ring : e.rv <= version /\ e.lsn <= nextEvent
    BY <1>5, <1>6, <1>8
  <2>3. Fresh(tables, version, log)'
    BY <1>1, <1>6 DEF Fresh
  <2> QED BY <1>1, <1>3, <1>6, <2>1, <2>2, <2>3 DEF LiveEvents
<1>12. BasesSound'
  <2>1. ASSUME NEW s \in Bases, NEW l \in kept' PROVE l <= s.next \/ \E e \in wal' : l <= e.lsn
    <3>1. PICK i \in DOMAIN tables : \E j \in DOMAIN tables[i] : tables[i][j] = l
      BY <1>1, <2>1
    <3>2. l <= nextEvent
      BY <3>1 DEF IInv, InOrder
    <3> QED BY <1>1, <1>6, <2>1, <3>2 DEF Lsns
  <2>2. \A s \in Bases : Sound(s, log', wal' \cup ring') /\ requested' <= s.lsn
    BY <1>1 DEF RInv, BasesSound
  <2> QED BY <1>2, <2>1, <2>2 DEF RInv, BasesSound
<1>13. BasesLead'
  BY <1>1, <1>2, <1>4 DEF RInv, BasesLead, LiveVersion, LiveReg
<1>14. Saving'
  BY <1>1, <1>3 DEF Saving
<1>15. Target'
  <2>1. want'.version = 0 /\ want'.reg = <<>>
    BY <1>1
  <2>2. <<>> = [n \in DOMAIN <<>> |-> <<>>[n]]
    OBVIOUS
  <2> QED BY <1>3, <2>1, <2>2 DEF Target
<1>16. Replaying'
  BY <1>1 DEF Replaying
<1> QED BY <1>9, <1>10, <1>11, <1>12, <1>13, <1>14, <1>15, <1>16 DEF RInv

-----------------------------------------------------------------------------
(* The invariant is inductive. *)

(* Every step that meets the two conditions keeps the invariant. *)
LEMMA NextRInv ==
  IInv /\ SInv /\ RInv /\ [Next]_vars /\ [FsyncsSucceed]_vars /\ [CaptureUndisturbed]_vars => RInv'
<1> SUFFICES ASSUME IInv, SInv, RInv, [Next]_vars, [FsyncsSucceed]_vars, [CaptureUndisturbed]_vars
             PROVE  RInv'
  OBVIOUS
<1>1. CASE UNCHANGED vars
  <2>1. UNCHANGED <<phase, apc, op, version, reg, tables, nextEvent, sinkNext, durable,
                    ring, wal, log, logSynced, requested, snaps, kept, want, cursor, seen, spc, body>>
    BY <1>1 DEF vars, memVars, diskVars, taskVars, bootVars, histVars
  <2>2. Settled'
    BY <2>1, Undisturbed
  <2>3. Bases' = Bases
    BY <2>1 DEF Bases
  <2>4. Saving'
    BY <2>1, <2>3 DEF RInv, Saving, LiveVersion, LiveReg, Installing
  <2> QED BY <2>2, <2>4 DEF Settled, RInv
<1>2. CASE Next /\ FsyncsSucceed /\ CaptureUndisturbed
  <2>1. CASE RegisterRemove \/ RegisterApply
    <3>1. ForkSnapshot /\ spc = "lock" => UNCHANGED <<version, reg>>
      BY <1>2, <2>1 DEF CaptureUndisturbed, RegisterRemove, RegisterApply, Up
    <3> QED BY <2>1, <3>1, RegisterRemoveR, RegisterApplyR
  <2>2. CASE PushAppend \/ PushApply \/ RegisterFsync \/ Compact
    BY <2>2, PushAppendR, PushApplyR, RegisterFsyncR, CompactR
  <2>3. CASE \E n \in Names : RegisterStage(n)
    BY <2>3, RegisterStageR
  <2>4. CASE \E k \in 1 .. MaxLsn : Flush(k)
    BY <2>4, FlushR
  <2>5. CASE \/ SnapStart \/ SnapCaptureRegistry \/ SnapCapture \/ SnapWrite \/ SnapFail
             \/ SnapRequestReclaim \/ SnapPrune
    BY <2>5, SnapIdleR, SnapCaptureR, SnapWriteR, SnapReclaimR, SnapPruneR
  <2>6. CASE \E x \in 0 .. MaxLsn : SnapTruncate(x)
    BY <2>6, SnapTruncateR
  <2>7. CASE \E k, j \in 0 .. MaxLsn : Crash(k, j)
    BY <2>7, CrashR
  <2>8. CASE Shutdown
    BY <2>8, ShutdownR
  <2>9. CASE LoadSnapshot \/ ReplayBump \/ BumpsDone \/ ReplayEvent \/ EventsDone \/ Start
    BY <2>9, LoadSnapshotR, ReplayBumpR, BumpsDoneR, ReplayEventR, EventsDoneR, StartR
  <2>10. CASE Quiet
    BY <1>1, <2>10 DEF Quiet
  <2> QED BY <1>2, <2>1, <2>2, <2>3, <2>4, <2>5, <2>6, <2>7, <2>8, <2>9, <2>10 DEF Next, FsyncsSucceed
<1> QED BY <1>1, <1>2

-----------------------------------------------------------------------------
(* What recovery ends with. *)

(* The registry restored is that of the crash. *)
LEMMA RegistryIs == IInv /\ RInv => RegistryRecovered
<1> SUFFICES ASSUME IInv, RInv, phase = "ready"
             PROVE  \/ ~ want.bumpSynced /\ version = want.version /\ Instances(reg) = want.reg
                    \/ /\ want.bump # NoOp
                       /\ version = want.version + 1
                       /\ DOMAIN reg = DOMAIN want.reg \cup {want.bump.name}
                       /\ \A n \in DOMAIN reg :
                            reg[n].inst = IF n = want.bump.name THEN want.bump.lsn ELSE want.reg[n]
  BY DEF RegistryRecovered
<1>1. CASE /\ ~ want.bumpSynced /\ version = want.version
           /\ DOMAIN want.reg = DOMAIN reg /\ \A n \in DOMAIN reg : reg[n].inst = want.reg[n]
  <2>1. want.reg = [n \in DOMAIN want.reg |-> want.reg[n]]
    BY DEF RInv, Target
  <2>2. Instances(reg) = want.reg
    BY <1>1, <2>1 DEF Instances
  <2> QED BY <1>1, <2>2
<1>2. CASE /\ want.bump # NoOp /\ version = want.version + 1
           /\ DOMAIN reg = DOMAIN want.reg \cup {want.bump.name}
           /\ \A n \in DOMAIN reg : reg[n].inst = After(want.reg, want.bump)[n]
  <2>1. \A n \in DOMAIN reg :
          reg[n].inst = IF n = want.bump.name THEN want.bump.lsn ELSE want.reg[n]
    BY <1>2 DEF After
  <2> QED BY <1>2, <2>1
<1> QED BY <1>1, <1>2, Recovered

(* The events of one table, if its instance was there at the crash. *)
LEMMA TableIs ==
  ASSUME IInv, SInv, RInv, phase = "ready", NEW n \in DOMAIN reg, NEW m \in DOMAIN want.reg,
         reg[n].inst = want.reg[m]
  PROVE  /\ reg[n].inst \in DOMAIN want.tables
         /\ EventsOf(tables[reg[n].inst]) = {l \in EventsOf(want.tables[reg[n].inst]) : l <= nextEvent}
<1> DEFINE i == reg[n].inst
<1> USE LogNumbers
<1>1. PICK s \in Bases : TRUE
  BY BaseExists
<1>2. ~ Up /\ ring = {} /\ Wanted(s, i, want.tables, wal)
  BY DEF Up, RInv, Target
<1>3. Counted(s, tables, i, wal \cup ring, nextEvent)
  BY DEF RInv, BasesLead, Restores, Carries, Instances
<1>4. /\ nextEvent = s.next \/ nextEvent \in Lsns(wal)
      /\ \A e \in wal : e.lsn <= nextEvent
  BY DEF RInv, Replaying
<1>5. s.next \in Nat /\ s.next <= nextEvent /\ InOrder(s.tables, s.next)
  BY BasePast, BaseOK DEF NotPast
<1>a. wal \cup ring = wal
  BY <1>2
<1> HIDE DEF i
<1>6. \A l \in SavedEvents(s, i) : l \in Nat /\ l <= s.next
  <2>1. CASE i \in DOMAIN s.tables
    <3> DEFINE t == s.tables[i]
    <3>1. t \in Seq(Nat) /\ \A j \in DOMAIN t : t[j] <= s.next
      BY <1>5, <2>1 DEF InOrder
    <3> HIDE DEF t
    <3>2. \A j \in DOMAIN t : t[j] \in Nat
      BY <3>1
    <3>3. SavedEvents(s, i) = EventsOf(t)
      BY <2>1 DEF SavedEvents, t
    <3> QED BY <3>1, <3>2, <3>3 DEF EventsOf
  <2>2. CASE i \notin DOMAIN s.tables
    BY <2>2 DEF SavedEvents
  <2> QED BY <2>1, <2>2
<1>8. ASSUME NEW l \in EventsOf(tables[i]) PROVE l \in EventsOf(want.tables[i]) /\ l <= nextEvent
  <2>1. CASE l \in SavedEvents(s, i)
    BY <1>2, <1>5, <1>6, <2>1 DEF Wanted
  <2>2. CASE l \in Lsns(wal) /\ s.next < l /\ i < l /\ l <= nextEvent
    BY <1>2, <2>2 DEF Wanted, Lsns
  <2> QED BY <1>3, <1>a, <1>8, <2>1, <2>2 DEF Counted
<1>9. ASSUME NEW l \in EventsOf(want.tables[i]), l <= nextEvent PROVE l \in EventsOf(tables[i])
  <2>1. CASE l \in SavedEvents(s, i)
    BY <1>3, <2>1 DEF Counted
  <2>2. CASE l \in Nat /\ s.next < l /\ i < l /\ l \in Lsns(wal)
    BY <1>3, <1>a, <1>9, <2>2 DEF Counted
  <2>3. CASE l \in Nat /\ s.next < l /\ i < l /\ \A e \in wal : e.lsn < l
    BY <1>4, <1>5, <1>9, <2>3 DEF Lsns
  <2> QED BY <1>2, <1>9, <2>1, <2>2, <2>3 DEF Wanted
<1>10. i \in DOMAIN want.tables
  BY <1>2 DEF Wanted
<1>11. EventsOf(tables[i]) = {l \in EventsOf(want.tables[i]) : l <= nextEvent}
  BY <1>8, <1>9
<1> QED BY <1>10, <1>11 DEF i

(* The table of a registration that was in progress is empty. *)
LEMMA TableIsNew ==
  ASSUME IInv, SInv, RInv, phase = "ready", NEW n \in DOMAIN reg, want.bump # NoOp,
         reg[n].inst = want.bump.lsn
  PROVE  reg[n].inst \notin DOMAIN want.tables /\ EventsOf(tables[reg[n].inst]) = {}
<1> DEFINE i == reg[n].inst
<1> USE LogNumbers
<1>1. PICK s \in Bases : TRUE
  BY BaseExists
<1>2. /\ ring = {} /\ i \notin DOMAIN want.tables /\ i \notin DOMAIN s.tables
      /\ \A e \in wal : e.lsn < i
  BY DEF Up, RInv, Target
<1>3. Counted(s, tables, i, wal \cup ring, nextEvent)
  BY DEF RInv, BasesLead, Restores, Carries, Instances
<1>4. {l \in Lsns(wal \cup ring) : s.next < l /\ i < l /\ l <= nextEvent} = {}
  BY <1>2 DEF Lsns
<1>5. SavedEvents(s, i) = {}
  BY <1>2 DEF SavedEvents
<1> HIDE DEF i
<1>6. EventsOf(tables[i]) = {}
  BY <1>3, <1>4, <1>5 DEF Counted
<1> QED BY <1>2, <1>6 DEF i

(* Each table restored is that of the crash up to next_event_id. *)
LEMMA TablesAre == IInv /\ SInv /\ RInv => TablesRecovered
<1> DEFINE Held(i) == IF i \in DOMAIN want.tables THEN EventsOf(want.tables[i]) ELSE {}
           Same(i) == /\ \A j, k \in DOMAIN tables[i] : j < k => tables[i][j] < tables[i][k]
                      /\ EventsOf(tables[i]) = {l \in Held(i) : l <= nextEvent}
<1> SUFFICES ASSUME IInv, SInv, RInv, phase = "ready"
             PROVE  /\ nextEvent \in 0 .. MaxLsn
                    /\ \A l \in kept : l <= nextEvent
                    /\ \A n \in DOMAIN reg : Same(reg[n].inst)
  BY DEF TablesRecovered
<1> USE LogNumbers
<1>1. nextEvent \in 0 .. MaxLsn
  BY DEF RInv, Replaying
<1>2. ASSUME NEW l \in kept PROVE l <= nextEvent
  <2>1. PICK s \in Bases : TRUE
    BY BaseExists
  <2>2. s.next \in Nat /\ s.next <= nextEvent
    BY BasePast, BaseOK DEF NotPast
  <2>3. l <= s.next \/ \E e \in wal : l <= e.lsn
    BY <1>2 DEF RInv, BasesSound
  <2>4. \A e \in wal : e.lsn <= nextEvent
    BY DEF RInv, Replaying
  <2> QED BY <1>2, <2>2, <2>3, <2>4
<1>3. ASSUME NEW n \in DOMAIN reg PROVE Same(reg[n].inst)
  <2> DEFINE i == reg[n].inst
  <2>1. \A j, k \in DOMAIN tables[i] : j < k => tables[i][j] < tables[i][k]
    BY <1>3 DEF IInv, InOrder
  <2>2. CASE \E m \in DOMAIN want.reg : i = want.reg[m]
    <3>1. i \in DOMAIN want.tables /\ EventsOf(tables[i]) = {l \in EventsOf(want.tables[i]) : l <= nextEvent}
      BY <1>3, <2>2, TableIs
    <3> QED BY <2>1, <3>1
  <2>3. CASE want.bump # NoOp /\ i = want.bump.lsn
    <3>1. i \notin DOMAIN want.tables /\ EventsOf(tables[i]) = {}
      BY <1>3, <2>3, TableIsNew
    <3> QED BY <2>1, <3>1
  <2>4. \/ \E m \in DOMAIN want.reg : i = want.reg[m]
        \/ want.bump # NoOp /\ i = want.bump.lsn
    <3>1. RegistryRecovered
      BY RegistryIs
    <3> QED BY <1>3, <3>1 DEF RegistryRecovered, Instances
  <2> QED BY <2>2, <2>3, <2>4
<1> QED BY <1>1, <1>2, <1>3

-----------------------------------------------------------------------------
(* The theorems. *)

(* The two logs share one LSN order through pushes, registrations,         *)
(* truncation, compaction, crashes and restarts: an event's registry       *)
(* version is at least a bump's exactly if its LSN is past the bump's. It  *)
(* holds as long as no fsync of the registry log fails (a failed one       *)
(* leaves its bump in the segment, with a version the next registration    *)
(* takes again and an LSN an event may take) and no registration is        *)
(* installed between a fork snapshot's capture of the registry and its     *)
(* table lock; in-process snapshots meet the second condition by           *)
(* themselves.                                                             *)
THEOREM StreamsAreOrdered ==
  Spec /\ [][FsyncsSucceed]_vars /\ [][CaptureUndisturbed]_vars => []StreamsOrdered
<1>1. IInv /\ RInv => StreamsOrdered
  BY DEF IInv, TypeOK, RInv, Streams, StreamsOrdered
<1> QED BY <1>1, InitIInv, NextIInv, InitSInv, NextSInv, InitRInv, NextRInv, PTL DEF Spec

(* Under the same conditions, recovery from the newest snapshot and the    *)
(* bumps replayed by version (replay_wal_from_lsn) ends with the registry  *)
(* of the crash: every acknowledged registration and replacement, at its   *)
(* version, and besides at most the one in progress, which is there if it  *)
(* was fsynced.                                                            *)
THEOREM RegistryIsRecovered ==
  Spec /\ [][FsyncsSucceed]_vars /\ [][CaptureUndisturbed]_vars => []RegistryRecovered
<1> QED BY RegistryIs, InitIInv, NextIInv, InitSInv, NextSInv, InitRInv, NextRInv, PTL DEF Spec

(* Under the same conditions, recovery ends with every aggregation holding *)
(* the events it held at the crash up to one LSN, in order and once, and   *)
(* that LSN is past every fsynced event: the snapshot's tables match its   *)
(* next_event_id and its registry, truncation and compaction at its LSN    *)
(* drop only what it holds, and the replay credits an event to the         *)
(* aggregations whose bump it is past                                      *)
(* (compiled_aggregations_for_source_at_rv).                               *)
THEOREM TablesAreRecovered ==
  Spec /\ [][FsyncsSucceed]_vars /\ [][CaptureUndisturbed]_vars => []TablesRecovered
<1> QED BY TablesAre, InitIInv, NextIInv, InitSInv, NextSInv, InitRInv, NextRInv, PTL DEF Spec

=============================================================================
