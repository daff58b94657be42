--------------------------- MODULE WalRingProofs ---------------------------
(***************************************************************************)
(* Proofs about WalRing for every ring size, buffer capacity, set of       *)
(* record lengths and bound.  In every schedule: the type invariant and    *)
(* the order of the watermarks.  As long as no seal_active has met an      *)
(* append: which thread owns which buffer.                                 *)
(***************************************************************************)
EXTENDS WalRing, NaturalLemmas

(* find_free_buffer returns a buffer of the ring unless none is free.      *)
LEMMA FindFreeType ==
  /\ FreeBuffers # {} => FindFree \in Buffers
  /\ FindFree \in Buffers \cup {NoBuf}
<1>1. FreeBuffers \in SUBSET Nat
  BY NBufAssumption DEF FreeBuffers, Buffers
<1>2. FreeBuffers # {} => FindFree \in FreeBuffers
  BY <1>1, LeastNatural DEF FindFree
<1> QED BY <1>2 DEF FreeBuffers, FindFree

(* What the threads' locals mean: a record's LSN is not smaller than its   *)
(* length; the LSN the writer read in seal_active was committed then; the  *)
(* LSN it carries from write to fsync is one it marked as written.         *)
Locals ==
  /\ areq.len <= areq.lsn
  /\ wpc \in {"activate", "swap"} => wfree \in Buffers
  /\ wpc = "sealstore" => wlsn <= committed
  /\ wpc = "sync" => wlsn <= written

IInv == TypeOK /\ WatermarkOrder /\ Locals

LEMMA InitInv == Init => IInv
<1> SUFFICES ASSUME Init PROVE IInv
  OBVIOUS
<1>1. 0 \in Buffers
  BY NBufAssumption DEF Buffers
<1>2. TypeOK
  <2>1. /\ bstate \in [Buffers -> {"ACTIVE", "SEALED", "FLUSHING", "FREE"}]
        /\ pos \in [Buffers -> Nat] /\ hi \in [Buffers -> Nat]
        /\ bytes \in [Buffers -> [1 .. Cap -> Nat]]
    BY DEF Init
  <2>2. areq \in Records /\ recs \in SUBSET Records
    BY DEF Init, Records
  <2>3. apc \in ApplyPcs /\ wpc \in WriterPcs
    BY DEF Init, ApplyPcs, WriterPcs
  <2>4. /\ activeIdx \in Buffers /\ queue \in Seq(Buffers)
        /\ aidx \in Buffers /\ afree \in Buffers /\ wbuf \in Buffers
        /\ wfree \in Buffers
    BY <1>1 DEF Init
  <2> QED BY <2>1, <2>2, <2>3, <2>4 DEF Init, TypeOK
<1>3. WatermarkOrder /\ Locals
  BY DEF Init, WatermarkOrder, Locals
<1> QED BY <1>2, <1>3 DEF IInv

(* A step that changes numbers and flags only, to values of their types,   *)
(* preserves the type invariant.                                           *)
LEMMA TypeKept ==
  ASSUME TypeOK, UNCHANGED <<ringVars, lsnVars, applyVars, wbuf, wfree, wlsn, wend,
                             sinkLsn, shutdown, final, overlap, reclaimed>>,
         fails' \in Nat, requested' \in Nat, wpc' \in WriterPcs
  PROVE  TypeOK'
<1>1. /\ bstate' = bstate /\ pos' = pos /\ bytes' = bytes /\ hi' = hi
      /\ activeIdx' = activeIdx /\ queue' = queue
  BY DEF ringVars
<1>2. /\ apc' = apc /\ areq' = areq /\ aidx' = aidx /\ aold' = aold
      /\ afree' = afree /\ recs' = recs
  BY DEF applyVars
<1>3. committed' = committed /\ written' = written /\ synced' = synced
  BY DEF lsnVars
<1> QED BY <1>1, <1>2, <1>3 DEF TypeOK

(* Every step of either thread and of the server around them preserves it. *)
LEMMA NextInv == IInv /\ [Next]_vars => IInv'
<1> SUFFICES ASSUME IInv, [Next]_vars PROVE IInv'
  OBVIOUS
<1> USE DEF IInv, TypeOK, WatermarkOrder, Locals, ApplyPcs, WriterPcs,
            Records, ringVars, lsnVars, fileVars, ctlVars, applyVars, writerVars
<1>1. ASSUME NEW n \in Lens, Push(n) PROVE IInv'
  <2>1. /\ committed' \in Nat /\ committed <= committed'
        /\ areq' \in [lsn : Nat, len : Nat] /\ areq'.len <= areq'.lsn
    BY <1>1, LensAssumption DEF Push, Larger
  <2>0. overlap' \subseteq {"blocked", "inside"}
    BY <1>1 DEF Push, Meeting
  <2>2. TypeOK'
    BY <1>1, <2>0, <2>1 DEF Push
  <2>3. \A b \in Buffers : hi[b] <= committed'
    BY <2>1
  <2>4. WatermarkOrder'
    BY <1>1, <2>1, <2>3 DEF Push
  <2>5. Locals'
    BY <1>1, <2>1 DEF Push
  <2> QED BY <2>2, <2>4, <2>5
<1>2. ASSUME NEW l \in SinkLsns, Register(l) PROVE IInv'
  BY <1>2, SinkAssumption DEF Register, Larger
<1>3. CASE AppendLoad
  <2>1. TypeOK'
    BY <1>3 DEF AppendLoad
  <2>2. WatermarkOrder'
    BY <1>3 DEF AppendLoad
  <2>3. Locals'
    BY <1>3 DEF AppendLoad
  <2> QED BY <2>1, <2>2, <2>3
<1>4. CASE AppendCheck
  <2>1. TypeOK'
    BY <1>4 DEF AppendCheck
  <2>2. WatermarkOrder'
    BY <1>4 DEF AppendCheck
  <2>3. Locals'
    BY <1>4 DEF AppendCheck
  <2> QED BY <2>1, <2>2, <2>3
<1>5. CASE TryAppendReserve
  <2>1. pos' \in [Buffers -> Nat] /\ aold' \in Nat
    BY <1>5 DEF TryAppendReserve
  <2>2. apc' \in ApplyPcs
    BY <1>5 DEF TryAppendReserve
  <2> QED BY <1>5, <2>1, <2>2 DEF TryAppendReserve
<1>6. CASE TryAppendUndo
  <2>1. TypeOK'
    BY <1>6 DEF TryAppendUndo
  <2>2. WatermarkOrder'
    BY <1>6 DEF TryAppendUndo
  <2>3. Locals'
    BY <1>6 DEF TryAppendUndo
  <2> QED BY <2>1, <2>2, <2>3
<1>7. CASE TryAppendCopy
  <2> DEFINE new == [i \in 1 .. Cap |-> IF i \in aold + 1 .. aold + areq.len
                       THEN areq.lsn - areq.len + (i - aold) ELSE bytes[aidx][i]]
  <2>1. bytes' = [bytes EXCEPT ![aidx] = new]
    BY <1>7 DEF TryAppendCopy
  <2>2. ASSUME NEW i \in 1 .. Cap, i \in aold + 1 .. aold + areq.len
        PROVE  areq.lsn - areq.len + (i - aold) \in Nat
    <3>1. /\ areq.lsn \in Nat /\ areq.len \in Nat /\ aold \in Nat
          /\ areq.len <= areq.lsn
      OBVIOUS
    <3>2. i \in Nat /\ aold <= i
      BY <2>2, <3>1, CapAssumption
    <3>3. \A x, y, a, k \in Nat : y <= x /\ a <= k => x - y + (k - a) \in Nat
      OBVIOUS
    <3> QED BY <3>1, <3>2, <3>3
  <2>3. bytes[aidx] \in [1 .. Cap -> Nat]
    OBVIOUS
  <2>4. new \in [1 .. Cap -> Nat]
    BY <2>2, <2>3
  <2>5. bytes' \in [Buffers -> [1 .. Cap -> Nat]]
    BY <2>1, <2>4
  <2> QED BY <1>7, <2>5 DEF TryAppendCopy
<1>8. CASE AppendRecord
  <2>1. committed' \in Nat /\ committed <= committed'
    BY <1>8 DEF AppendRecord
  <2>2. recs' \in SUBSET [lsn : Nat, len : Nat]
    BY <1>8 DEF AppendRecord
  <2>3. TypeOK'
    BY <1>8, <2>1, <2>2 DEF AppendRecord
  <2>4. \A b \in Buffers : hi[b] <= committed'
    BY <2>1
  <2>5. WatermarkOrder'
    BY <1>8, <2>1, <2>4 DEF AppendRecord
  <2>6. Locals'
    BY <1>8, <2>1 DEF AppendRecord
  <2> QED BY <2>3, <2>5, <2>6
<1>9. CASE SealFull
  <2>1. hi' \in [Buffers -> Nat] /\ \A b \in Buffers : hi'[b] <= committed
    BY <1>9 DEF SealFull, SealLsn
  <2>2. bstate' \in [Buffers -> {"ACTIVE", "SEALED", "FLUSHING", "FREE"}]
    BY <1>9 DEF SealFull
  <2>3. TypeOK'
    BY <1>9, <2>1, <2>2 DEF SealFull
  <2>4. WatermarkOrder'
    BY <1>9, <2>1, <2>2 DEF SealFull
  <2>5. Locals'
    BY <1>9, <2>1, <2>2 DEF SealFull
  <2> QED BY <2>3, <2>4, <2>5
<1>10. CASE EnqueueFull
  <2>1. queue' \in Seq(Buffers)
    BY <1>10 DEF EnqueueFull
  <2>2. TypeOK'
    BY <1>10, <2>1 DEF EnqueueFull
  <2>3. WatermarkOrder'
    BY <1>10, <2>1 DEF EnqueueFull
  <2>4. Locals'
    BY <1>10, <2>1 DEF EnqueueFull
  <2> QED BY <2>2, <2>3, <2>4
<1>11. CASE FindOrBlock
  <2>1. afree' \in Buffers
    BY <1>11, FindFreeType DEF FindOrBlock
  <2>2. apc' \in ApplyPcs
    BY <1>11 DEF FindOrBlock
  <2>3. overlap' \subseteq {"blocked", "inside"}
    BY <1>11 DEF FindOrBlock, Meeting
  <2>4. TypeOK'
    BY <1>11, <2>1, <2>2, <2>3 DEF FindOrBlock
  <2>5. WatermarkOrder' /\ Locals'
    BY <1>11 DEF FindOrBlock
  <2> QED BY <2>4, <2>5
<1>12. CASE ActivateNew
  <2>1. hi' \in [Buffers -> Nat] /\ \A b \in Buffers : hi'[b] <= committed
    BY <1>12 DEF ActivateNew
  <2>2. bstate' \in [Buffers -> {"ACTIVE", "SEALED", "FLUSHING", "FREE"}] /\ pos' \in [Buffers -> Nat]
    BY <1>12 DEF ActivateNew
  <2>3. TypeOK'
    BY <1>12, <2>1, <2>2 DEF ActivateNew
  <2>4. WatermarkOrder'
    BY <1>12, <2>1, <2>2 DEF ActivateNew
  <2>5. Locals'
    BY <1>12, <2>1, <2>2 DEF ActivateNew
  <2> QED BY <2>3, <2>4, <2>5
<1>13. CASE SwapNew
  <2>1. TypeOK'
    BY <1>13 DEF SwapNew
  <2>2. WatermarkOrder'
    BY <1>13 DEF SwapNew
  <2>3. Locals'
    BY <1>13 DEF SwapNew
  <2> QED BY <2>1, <2>2, <2>3
<1>14. CASE Wake
  <2>0. overlap' \subseteq {"blocked", "inside"}
    <3>1. Phase \in {"idle", "blocked", "inside"}
      BY DEF Phase
    <3> QED BY <1>14, <3>1 DEF Wake, Meeting
  <2>1. TypeOK'
    BY <1>14, <2>0 DEF Wake
  <2>2. WatermarkOrder'
    BY <1>14 DEF Wake
  <2>3. Locals'
    BY <1>14 DEF Wake
  <2> QED BY <2>1, <2>2, <2>3
<1>15. CASE SealCheck
  BY <1>15, FindFreeType DEF SealCheck
<1>16. CASE SealRead
  <2>1. TypeOK'
    BY <1>16 DEF SealRead, SealLsn
  <2>2. WatermarkOrder'
    BY <1>16 DEF SealRead, SealLsn
  <2>3. Locals'
    BY <1>16 DEF SealRead, SealLsn
  <2> QED BY <2>1, <2>2, <2>3
<1>17. CASE SealStore
  <2>1. hi' \in [Buffers -> Nat] /\ \A b \in Buffers : hi'[b] <= committed
    BY <1>17 DEF SealStore
  <2>2. bstate' \in [Buffers -> {"ACTIVE", "SEALED", "FLUSHING", "FREE"}]
    BY <1>17 DEF SealStore
  <2>3. TypeOK'
    BY <1>17, <2>1, <2>2 DEF SealStore
  <2>4. WatermarkOrder'
    BY <1>17, <2>1, <2>2 DEF SealStore
  <2>5. Locals'
    BY <1>17, <2>1, <2>2 DEF SealStore
  <2> QED BY <2>3, <2>4, <2>5
<1>18. CASE SealEnqueue
  <2>1. queue' \in Seq(Buffers)
    BY <1>18 DEF SealEnqueue
  <2>2. TypeOK'
    BY <1>18, <2>1 DEF SealEnqueue
  <2>3. WatermarkOrder'
    BY <1>18, <2>1 DEF SealEnqueue
  <2>4. Locals'
    BY <1>18, <2>1 DEF SealEnqueue
  <2> QED BY <2>2, <2>3, <2>4
<1>19. CASE SealActivate
  <2>1. hi' \in [Buffers -> Nat] /\ \A b \in Buffers : hi'[b] <= committed
    BY <1>19 DEF SealActivate
  <2>2. bstate' \in [Buffers -> {"ACTIVE", "SEALED", "FLUSHING", "FREE"}] /\ pos' \in [Buffers -> Nat]
    BY <1>19 DEF SealActivate
  <2>3. TypeOK'
    BY <1>19, <2>1, <2>2 DEF SealActivate
  <2>4. WatermarkOrder'
    BY <1>19, <2>1, <2>2 DEF SealActivate
  <2>5. Locals'
    BY <1>19, <2>1, <2>2 DEF SealActivate
  <2> QED BY <2>3, <2>4, <2>5
<1>20. CASE SealSwap
  <2>1. TypeOK'
    BY <1>20 DEF SealSwap
  <2>2. WatermarkOrder'
    BY <1>20 DEF SealSwap
  <2>3. Locals'
    BY <1>20 DEF SealSwap
  <2> QED BY <2>1, <2>2, <2>3
<1>21. CASE PopSealed
  <2>1. Head(queue) \in Buffers /\ queue' \in Seq(Buffers)
    BY <1>21 DEF PopSealed
  <2>2. bstate' \in [Buffers -> {"ACTIVE", "SEALED", "FLUSHING", "FREE"}]
    BY <1>21, <2>1 DEF PopSealed
  <2> QED BY <1>21, <2>1, <2>2 DEF PopSealed
<1>22. CASE ReadWritten
  <2>1. TypeOK'
    BY <1>22 DEF ReadWritten
  <2>2. WatermarkOrder'
    BY <1>22 DEF ReadWritten
  <2>3. Locals'
    BY <1>22 DEF ReadWritten
  <2> QED BY <2>1, <2>2, <2>3
<1>23. CASE WriteOk
  <2>1. hi[wbuf] \in Nat /\ hi[wbuf] <= committed
    OBVIOUS
  <2>2. /\ written' \in Nat /\ written <= written' /\ written' <= committed
        /\ wlsn' \in Nat /\ wlsn' <= written'
    BY <1>23, <2>1 DEF WriteOk, Larger
  <2>3. TypeOK'
    BY <1>23, <2>2 DEF WriteOk
  <2>4. WatermarkOrder'
    BY <1>23, <2>2 DEF WriteOk
  <2>5. Locals'
    BY <1>23, <2>2 DEF WriteOk
  <2> QED BY <2>3, <2>4, <2>5
<1>24. CASE WriteErr
  <2>1. wpc' = "free" /\ fails' \in Nat
    BY <1>24 DEF WriteErr
  <2>2. UNCHANGED <<ringVars, lsnVars, reclaimed, ctlVars, applyVars, wbuf,
                    wfree, wlsn, wend>>
    BY <1>24 DEF WriteErr
  <2> QED BY <2>1, <2>2
<1>25. CASE SyncOk
  <2>1. synced' \in Nat /\ synced' <= written
    BY <1>25 DEF SyncOk, Larger
  <2>2. TypeOK'
    BY <1>25, <2>1 DEF SyncOk
  <2>3. WatermarkOrder'
    BY <1>25, <2>1 DEF SyncOk
  <2>4. Locals'
    BY <1>25, <2>1 DEF SyncOk
  <2> QED BY <2>2, <2>3, <2>4
<1>26. CASE SyncErr
  <2>1. TypeOK'
    <3>1. UNCHANGED <<ringVars, lsnVars, applyVars, wbuf, wfree, wlsn, wend,
                      sinkLsn, shutdown, final, overlap, reclaimed>>
      BY <1>26 DEF SyncErr
    <3>2. fails' \in Nat /\ requested' \in Nat /\ wpc' \in WriterPcs
      BY <1>26 DEF SyncErr
    <3>3. TypeOK
      OBVIOUS
    <3> HIDE DEF IInv, TypeOK, WatermarkOrder, Locals, ringVars, lsnVars, applyVars
    <3> QED BY <3>1, <3>2, <3>3, TypeKept
  <2>2. WatermarkOrder'
    BY <1>26 DEF SyncErr
  <2>3. Locals'
    BY <1>26 DEF SyncErr
  <2> QED BY <2>1, <2>2, <2>3
<1>27. CASE MarkFree
  <2>1. bstate' \in [Buffers -> {"ACTIVE", "SEALED", "FLUSHING", "FREE"}] /\ pos' \in [Buffers -> Nat]
    BY <1>27 DEF MarkFree
  <2>2. TypeOK'
    BY <1>27, <2>1 DEF MarkFree
  <2>3. WatermarkOrder'
    BY <1>27, <2>1 DEF MarkFree
  <2>4. Locals'
    BY <1>27, <2>1 DEF MarkFree
  <2> QED BY <2>2, <2>3, <2>4
<1>28. CASE NotifyFree
  <2>1. TypeOK'
    BY <1>28 DEF NotifyFree, Woken
  <2>2. WatermarkOrder'
    BY <1>28 DEF NotifyFree, Woken
  <2>3. Locals'
    BY <1>28 DEF NotifyFree, Woken
  <2> QED BY <2>1, <2>2, <2>3
<1>29. CASE PopEmpty
  <2>1. TypeOK'
    BY <1>29 DEF PopEmpty
  <2>2. WatermarkOrder'
    BY <1>29 DEF PopEmpty
  <2>3. Locals'
    BY <1>29 DEF PopEmpty
  <2> QED BY <2>1, <2>2, <2>3
<1>30. CASE ReclaimSkip
  <2>1. /\ wpc' \in {"done", "sealcheck", "sleep"} /\ wbuf' \in Buffers
        /\ final' \in BOOLEAN
    BY <1>30 DEF ReclaimSkip, NextRound
  <2>2. TypeOK'
    BY <1>30, <2>1 DEF ReclaimSkip
  <2>3. WatermarkOrder'
    BY <1>30, <2>1 DEF ReclaimSkip
  <2>4. Locals'
    BY <1>30, <2>1 DEF ReclaimSkip
  <2> QED BY <2>2, <2>3, <2>4
<1>31. CASE ReclaimOk
  <2>1. /\ wpc' \in {"done", "sealcheck", "sleep"} /\ wbuf' \in Buffers
        /\ final' \in BOOLEAN
    BY <1>31 DEF ReclaimOk, NextRound
  <2>2. TypeOK'
    BY <1>31, <2>1 DEF ReclaimOk
  <2>3. WatermarkOrder'
    BY <1>31, <2>1 DEF ReclaimOk
  <2>4. Locals'
    BY <1>31, <2>1 DEF ReclaimOk
  <2> QED BY <2>2, <2>3, <2>4
<1>32. CASE ReclaimErr
  <2>1. /\ wpc' \in {"done", "sealcheck", "sleep"} /\ wbuf' \in Buffers
        /\ final' \in BOOLEAN
    BY <1>32 DEF ReclaimErr, NextRound
  <2>2. fails' \in Nat
    BY <1>32 DEF ReclaimErr
  <2>3. UNCHANGED <<ringVars, lsnVars, reclaimed, sinkLsn, requested, shutdown,
                    overlap, applyVars, wfree, wlsn, wend>>
    BY <1>32 DEF ReclaimErr
  <2> QED BY <2>1, <2>2, <2>3
<1>33. ASSUME NEW c \in SnapLsns, RequestReclaim(c) PROVE IInv'
  <2>1. requested' \in Nat
    BY <1>33, SinkAssumption DEF RequestReclaim
  <2>2. TypeOK'
    BY <1>33, <2>1, TypeKept DEF RequestReclaim
  <2>3. WatermarkOrder' /\ Locals'
    BY <1>33 DEF RequestReclaim
  <2> QED BY <2>2, <2>3
<1>34. CASE Shutdown
  <2>1. TypeOK'
    BY <1>34 DEF Shutdown
  <2>2. WatermarkOrder'
    BY <1>34 DEF Shutdown
  <2>3. Locals'
    BY <1>34 DEF Shutdown
  <2> QED BY <2>1, <2>2, <2>3
<1>35. CASE UNCHANGED vars
  <2>1. /\ UNCHANGED <<ringVars, lsnVars, fileVars>>
        /\ UNCHANGED <<ctlVars, applyVars, writerVars>>
    BY <1>35 DEF vars
  <2>2. TypeOK'
    BY <2>1, TypeKept
  <2>3. WatermarkOrder' /\ Locals'
    BY <2>1
  <2> QED BY <2>2, <2>3
<1>36. CASE Stopped
  BY <1>35, <1>36 DEF Stopped
<1> QED BY <1>1, <1>2, <1>3, <1>4, <1>5, <1>6, <1>7, <1>8, <1>9, <1>10,
  <1>11, <1>12, <1>13, <1>14, <1>15, <1>16, <1>17, <1>18, <1>19, <1>20, <1>21,
  <1>22, <1>23, <1>24, <1>25, <1>26, <1>27, <1>28, <1>29, <1>30, <1>31, <1>32,
  <1>33, <1>34, <1>35, <1>36
  DEF Next, ApplyStep, WriterStep

(* The type invariant holds in every state of every instance.              *)
THEOREM TypeCorrect == Spec => []TypeOK
<1>1. Spec => []IInv
  BY InitInv, NextInv, PTL DEF Spec
<1>2. IInv => TypeOK
  BY DEF IInv
<1> QED BY <1>1, <1>2, PTL

(* In every schedule of the two threads, with any write, fsync or          *)
(* compaction failing, synced never passes written, written never passes   *)
(* committed, and no buffer carries an LSN past what append accepted.      *)
THEOREM WatermarksOrdered == Spec => []WatermarkOrder
<1>1. Spec => []IInv
  BY InitInv, NextInv, PTL DEF Spec
<1>2. IInv => WatermarkOrder
  BY DEF IInv
<1> QED BY <1>1, <1>2, PTL

-----------------------------------------------------------------------------
(* Ownership of the buffers, as long as no seal_active has met an append;  *)
(* flush_sealed_buffers and the compaction overlap both.                   *)

(* Once a seal_active has met an append the history says so for ever.      *)
LEMMA ApartBefore == ASSUME KeptApart', [Next]_vars PROVE KeptApart
<1> USE DEF KeptApart, ctlVars
<1>1. ASSUME NEW n \in Lens, Push(n) PROVE KeptApart
  BY <1>1 DEF Push, Meeting
<1>2. ASSUME NEW l \in SinkLsns, Register(l) PROVE KeptApart
  BY <1>2 DEF Register
<1>3. ASSUME NEW c \in SnapLsns, RequestReclaim(c) PROVE KeptApart
  BY <1>3 DEF RequestReclaim
<1>4. CASE ApplyStep
  BY <1>4 DEF ApplyStep, AppendLoad, AppendCheck, TryAppendReserve, TryAppendUndo,
    TryAppendCopy, AppendRecord, SealFull, EnqueueFull, FindOrBlock, ActivateNew,
    SwapNew, Meeting
<1>5. CASE WriterStep
  BY <1>5 DEF WriterStep, Wake, SealCheck, SealRead, SealStore, SealEnqueue,
    SealActivate, SealSwap, PopSealed, ReadWritten, WriteOk, WriteErr, SyncOk,
    SyncErr, MarkFree, NotifyFree, PopEmpty, ReclaimSkip, ReclaimOk, ReclaimErr, Meeting
<1>6. CASE Shutdown
  BY <1>6 DEF Shutdown
<1>7. CASE UNCHANGED vars \/ Stopped
  BY <1>7 DEF vars, Stopped
<1> QED BY <1>1, <1>2, <1>3, <1>4, <1>5, <1>6, <1>7 DEF Next

(* An append that begins met no seal_active ...                            *)
LEMMA ApartPush == ASSUME KeptApart', NEW n, Push(n) PROVE ~Sealing
BY DEF KeptApart, Push, Meeting

(* ... and a seal_active that begins met no append.                        *)
LEMMA ApartWake == ASSUME KeptApart', Wake PROVE apc \in {"idle", "exited"}
<1>1. Phase = "idle"
  BY DEF KeptApart, Wake, Meeting
<1> QED BY <1>1 DEF Phase

(* The steps of the writer thread between taking a buffer off the queue    *)
(* and freeing it.                                                         *)
Flushing == {"read", "write", "sync", "free"}

(* Buffer b is in sealed_queue.                                            *)
IsQueued(b) == \E i \in 1 .. Len(queue) : queue[i] = b

(* seal_active runs only while the apply thread is outside append, and     *)
(* after shutdown the apply thread is gone.                                *)
Exclusive ==
  /\ Sealing => apc \in {"idle", "exited"}
  /\ shutdown => apc = "exited"

(* The queue holds each SEALED buffer once, except the one a thread has    *)
(* sealed and is about to enqueue.                                         *)
QueueHolds ==
  /\ QueuedOnce
  /\ \A i \in 1 .. Len(queue) : bstate[queue[i]] = "SEALED"
  /\ \A b \in Buffers : bstate[b] = "SEALED" =>
       \/ IsQueued(b)
       \/ apc = "enqueue" /\ b = aidx
       \/ wpc = "enqueue" /\ b = wbuf
  /\ apc = "enqueue" => bstate[aidx] = "SEALED" /\ ~IsQueued(aidx)
  /\ wpc = "enqueue" => bstate[wbuf] = "SEALED" /\ ~IsQueued(wbuf)

(* The FLUSHING buffer is the writer's; a FREE buffer is empty; no         *)
(* position passes the capacity except while try_append undoes its         *)
(* reservation, so the writer's slice never panics.                        *)
FlushHolds ==
  /\ wpc \in Flushing => bstate[wbuf] = "FLUSHING"
  /\ \A b \in Buffers : bstate[b] = "FLUSHING" => wpc \in Flushing /\ b = wbuf
  /\ \A b \in Buffers : bstate[b] = "FREE" => pos[b] = 0
  /\ \A b \in Buffers : pos[b] <= Cap \/ (apc = "undo" /\ b = aidx)
  /\ apc = "undo" => aold <= Cap
  /\ wpc # "panicked"

(* At most one buffer is ACTIVE: the one active_idx names, or the one a    *)
(* thread activated and is about to publish.  From its check of the state  *)
(* to its return, append works on that buffer.                             *)
ActiveHolds ==
  /\ \A b \in Buffers : bstate[b] = "ACTIVE" =>
       \/ b = activeIdx
       \/ apc = "swap" /\ b = afree
       \/ wpc = "swap" /\ b = wfree
  /\ \A b, c \in Buffers : bstate[b] = "ACTIVE" /\ bstate[c] = "ACTIVE" => b = c
  /\ apc \in {"enqueue", "find", "recheck", "waiting", "activate"} =>
       \A b \in Buffers : bstate[b] # "ACTIVE"
  /\ wpc \in {"enqueue", "activate"} => \A b \in Buffers : bstate[b] # "ACTIVE"
  /\ apc = "check" => aidx = activeIdx
  /\ apc \in {"reserve", "undo", "copy", "record", "seal"} =>
       aidx = activeIdx /\ bstate[aidx] = "ACTIVE"
  /\ apc = "activate" => bstate[afree] = "FREE"
  /\ apc = "swap" => bstate[afree] = "ACTIVE"

(* seal_active works on the active buffer, and the free buffer it found    *)
(* stays free until it activates it.  An active_idx left at a sealed       *)
(* buffer is repaired before the round ends.                               *)
SealHolds ==
  /\ wpc \in {"sealcheck", "sealread", "sealstore", "enqueue"} => wbuf = activeIdx
  /\ wpc \in {"sealread", "sealstore"} => bstate[wbuf] = "ACTIVE"
  /\ wpc \in {"sealread", "sealstore", "enqueue", "activate"} /\ wfree # NoBuf =>
       bstate[wfree] = "FREE"
  /\ wpc = "swap" => bstate[wfree] = "ACTIVE"
  /\ apc \in {"idle", "exited", "load", "check"} /\ bstate[activeIdx] \in {"SEALED", "FLUSHING"}
       => wpc \in {"enqueue", "activate", "swap", "pop", "notify"} \cup Flushing

(* The ownership invariant.                                                *)
Ownership == Exclusive /\ QueueHolds /\ FlushHolds /\ ActiveHolds /\ SealHolds

(* The types the proof of Ownership needs.                                 *)
OwnTypes ==
  /\ bstate \in [Buffers -> {"ACTIVE", "SEALED", "FLUSHING", "FREE"}]
  /\ pos \in [Buffers -> Nat]
  /\ activeIdx \in Buffers /\ queue \in Seq(Buffers)
  /\ shutdown \in BOOLEAN
  /\ aold \in Nat /\ areq.len \in Nat
  /\ apc \in ApplyPcs /\ aidx \in Buffers /\ afree \in Buffers
  /\ wpc \in WriterPcs /\ wbuf \in Buffers /\ wfree \in Buffers \cup {NoBuf}
  /\ wpc \in {"activate", "swap"} => wfree \in Buffers

(* They follow from the type invariant.                                    *)
LEMMA IInvOwnTypes ==
  /\ IInv => OwnTypes
  /\ IInv' => OwnTypes'
BY DEF IInv, TypeOK, Locals, OwnTypes, Records

(* find_free_buffer finds a free buffer if there is one.                   *)
LEMMA FindFreeFree == FreeBuffers # {} => FindFree \in FreeBuffers
<1>1. FreeBuffers \in SUBSET Nat
  BY NBufAssumption DEF FreeBuffers, Buffers
<1> QED BY <1>1, LeastNatural DEF FindFree

(* The ring starts with buffer 0 active and the others free.               *)
LEMMA InitOwned == Init => Ownership
<1> SUFFICES ASSUME Init PROVE Ownership
  OBVIOUS
<1>0. 0 \in Buffers /\ Len(queue) = 0 /\ 1 .. 0 = {} /\ Cap \in Nat
  BY NBufAssumption, CapAssumption DEF Buffers, Init
<1>1. /\ \A b \in Buffers : bstate[b] = IF b = 0 THEN "ACTIVE" ELSE "FREE"
      /\ \A b \in Buffers : pos[b] = 0
      /\ activeIdx = 0 /\ apc = "idle" /\ wpc = "sleep" /\ shutdown = FALSE
  BY DEF Init
<1>2. Exclusive
  BY <1>1 DEF Exclusive, Sealing
<1>3. QueueHolds
  BY <1>0, <1>1 DEF QueueHolds, QueuedOnce, IsQueued
<1>4. FlushHolds
  BY <1>0, <1>1 DEF FlushHolds, Flushing
<1>5. ActiveHolds
  BY <1>0, <1>1 DEF ActiveHolds
<1>6. SealHolds
  BY <1>0, <1>1 DEF SealHolds
<1> QED BY <1>2, <1>3, <1>4, <1>5, <1>6 DEF Ownership

(* Every step preserves the ownership, unless a seal_active meets an       *)
(* append in it.                                                           *)
LEMMA OwnStep ==
  ASSUME KeptApart', OwnTypes, OwnTypes', Ownership, [Next]_vars
  PROVE  Ownership'
<1>0. /\ Len(queue) \in Nat /\ \A i \in 1 .. Len(queue) : queue[i] \in Buffers
      /\ QueueHolds
  <2>1. queue \in Seq(Buffers) /\ QueueHolds
    BY DEF OwnTypes, Ownership
  <2> QED BY <2>1
<1> USE CapAssumption DEF OwnTypes, Ownership, ringVars, lsnVars, fileVars, ctlVars,
    applyVars, writerVars
<1>1. ASSUME NEW l \in Lens, Push(l) PROVE Ownership'
  <2>1. Exclusive'
    BY <1>1, ApartPush DEF Push, Exclusive, Sealing
  <2>2. QueueHolds'
    BY <1>1, ApartPush DEF Push, QueueHolds, QueuedOnce, IsQueued
  <2>3. FlushHolds'
    BY <1>1, ApartPush DEF Push, FlushHolds, Flushing, QueueHolds
  <2>4. ActiveHolds'
    BY <1>1, ApartPush DEF Push, ActiveHolds, Exclusive, Sealing
  <2>5. SealHolds'
    BY <1>1, ApartPush DEF Push, SealHolds, ActiveHolds, Exclusive, Sealing, Flushing
  <2> QED BY <2>1, <2>2, <2>3, <2>4, <2>5
<1>2. ASSUME NEW l \in SinkLsns, Register(l) PROVE Ownership'
  <2>1. Exclusive'
    BY <1>2 DEF Register, Exclusive, Sealing
  <2>2. QueueHolds'
    BY <1>2 DEF Register, QueueHolds, QueuedOnce, IsQueued
  <2>3. FlushHolds'
    BY <1>2 DEF Register, FlushHolds, Flushing, QueueHolds
  <2>4. ActiveHolds'
    BY <1>2 DEF Register, ActiveHolds, Exclusive, Sealing
  <2>5. SealHolds'
    BY <1>2 DEF Register, SealHolds, ActiveHolds, Exclusive, Sealing, Flushing
  <2> QED BY <2>1, <2>2, <2>3, <2>4, <2>5
<1>3. CASE AppendLoad
  <2>1. Exclusive'
    BY <1>3 DEF AppendLoad, Exclusive, Sealing
  <2>2. QueueHolds'
    BY <1>3 DEF AppendLoad, QueueHolds, QueuedOnce, IsQueued
  <2>3. FlushHolds'
    BY <1>3 DEF AppendLoad, FlushHolds, Flushing, QueueHolds
  <2>4. ActiveHolds'
    BY <1>3 DEF AppendLoad, ActiveHolds, Exclusive, Sealing
  <2>5. SealHolds'
    BY <1>3 DEF AppendLoad, SealHolds, ActiveHolds, Exclusive, Sealing, Flushing
  <2> QED BY <2>1, <2>2, <2>3, <2>4, <2>5
<1>4. CASE AppendCheck
  <2>1. Exclusive'
    BY <1>4 DEF AppendCheck, Exclusive, Sealing
  <2>2. QueueHolds'
    BY <1>4 DEF AppendCheck, QueueHolds, QueuedOnce, IsQueued
  <2>3. FlushHolds'
    BY <1>4 DEF AppendCheck, FlushHolds, Flushing, QueueHolds
  <2>4. ActiveHolds'
    BY <1>4 DEF AppendCheck, ActiveHolds, Exclusive, Sealing
  <2>5. SealHolds'
    BY <1>4 DEF AppendCheck, SealHolds, ActiveHolds, Exclusive, Sealing, Flushing
  <2> QED BY <2>1, <2>2, <2>3, <2>4, <2>5
<1>5. CASE TryAppendReserve
  <2>1. Exclusive'
    BY <1>5 DEF TryAppendReserve, Exclusive, Sealing
  <2>2. QueueHolds'
    BY <1>5 DEF TryAppendReserve, QueueHolds, QueuedOnce, IsQueued
  <2>3. FlushHolds'
    BY <1>5 DEF TryAppendReserve, FlushHolds, Flushing, ActiveHolds
  <2>4. ActiveHolds'
    BY <1>5 DEF TryAppendReserve, ActiveHolds, Exclusive, Sealing
  <2>5. SealHolds'
    BY <1>5 DEF TryAppendReserve, SealHolds, ActiveHolds, Exclusive, Sealing, Flushing
  <2> QED BY <2>1, <2>2, <2>3, <2>4, <2>5
<1>6. CASE TryAppendUndo
  <2>1. Exclusive'
    BY <1>6 DEF TryAppendUndo, Exclusive, Sealing
  <2>2. QueueHolds'
    BY <1>6 DEF TryAppendUndo, QueueHolds, QueuedOnce, IsQueued
  <2>3. FlushHolds'
    BY <1>6 DEF TryAppendUndo, FlushHolds, Flushing, ActiveHolds
  <2>4. ActiveHolds'
    BY <1>6 DEF TryAppendUndo, ActiveHolds, Exclusive, Sealing
  <2>5. SealHolds'
    BY <1>6 DEF TryAppendUndo, SealHolds, ActiveHolds, Exclusive, Sealing, Flushing
  <2> QED BY <2>1, <2>2, <2>3, <2>4, <2>5
<1>7. CASE TryAppendCopy
  <2>1. Exclusive'
    BY <1>7 DEF TryAppendCopy, Exclusive, Sealing
  <2>2. QueueHolds'
    BY <1>7 DEF TryAppendCopy, QueueHolds, QueuedOnce, IsQueued
  <2>3. FlushHolds'
    BY <1>7 DEF TryAppendCopy, FlushHolds, Flushing, QueueHolds
  <2>4. ActiveHolds'
    BY <1>7 DEF TryAppendCopy, ActiveHolds, Exclusive, Sealing
  <2>5. SealHolds'
    BY <1>7 DEF TryAppendCopy, SealHolds, ActiveHolds, Exclusive, Sealing, Flushing
  <2> QED BY <2>1, <2>2, <2>3, <2>4, <2>5
<1>8. CASE AppendRecord
  <2>1. Exclusive'
    BY <1>8 DEF AppendRecord, Exclusive, Sealing
  <2>2. QueueHolds'
    BY <1>8 DEF AppendRecord, QueueHolds, QueuedOnce, IsQueued
  <2>3. FlushHolds'
    BY <1>8 DEF AppendRecord, FlushHolds, Flushing, QueueHolds
  <2>4. ActiveHolds'
    BY <1>8 DEF AppendRecord, ActiveHolds, Exclusive, Sealing
  <2>5. SealHolds'
    BY <1>8 DEF AppendRecord, SealHolds, ActiveHolds, Exclusive, Sealing, Flushing
  <2> QED BY <2>1, <2>2, <2>3, <2>4, <2>5
<1>9. CASE SealFull
  <2>0. /\ bstate'[aidx] = "SEALED" /\ \A b \in Buffers : b # aidx => bstate'[b] = bstate[b]
    BY <1>9 DEF SealFull
  <2>1. Exclusive'
    BY <2>0, <1>9 DEF SealFull, SealLsn, Exclusive, Sealing
  <2>2. QueueHolds'
    <3>1. bstate[aidx] = "ACTIVE" /\ wpc # "enqueue"
      BY <1>9 DEF SealFull, ActiveHolds, Exclusive, Sealing
    <3>2. ~IsQueued(aidx) /\ UNCHANGED queue
      BY <1>9, <3>1 DEF SealFull, QueueHolds, IsQueued
    <3>3. \A i \in 1 .. Len(queue) : queue[i] \in Buffers /\ queue[i] # aidx
      BY <1>0, <3>2 DEF IsQueued
    <3> QED BY <1>9, <2>0, <3>1, <3>2, <3>3 DEF SealFull, QueueHolds, QueuedOnce, IsQueued
  <2>3. FlushHolds'
    BY <1>9, <2>0 DEF SealFull, FlushHolds, Flushing, ActiveHolds
  <2>4. ActiveHolds'
    BY <2>0, <1>9 DEF SealFull, SealLsn, ActiveHolds, Exclusive, Sealing
  <2>5. SealHolds'
    BY <2>0, <1>9 DEF SealFull, SealLsn, SealHolds, ActiveHolds, Exclusive, Sealing,
        Flushing
  <2> QED BY <2>1, <2>2, <2>3, <2>4, <2>5
<1>10. CASE EnqueueFull
  <2>1. Exclusive'
    BY <1>10 DEF EnqueueFull, Exclusive, Sealing
  <2>2. QueueHolds'
    <3>0. /\ bstate' = bstate /\ bstate[aidx] = "SEALED" /\ ~IsQueued(aidx)
          /\ apc' # "enqueue" /\ wpc' # "enqueue" /\ wpc # "enqueue"
      BY <1>10 DEF EnqueueFull, QueueHolds, Exclusive, Sealing
    <3>1. /\ Len(queue') = Len(queue) + 1 /\ Len(queue) \in Nat
          /\ \A i \in 1 .. Len(queue) : queue'[i] = queue[i]
          /\ queue'[Len(queue) + 1] = aidx
      BY <1>10 DEF EnqueueFull
    <3> HIDE DEF OwnTypes, Ownership
    <3>2. \A i \in 1 .. Len(queue) : queue[i] # aidx
      BY <3>0 DEF IsQueued
    <3>3. \A i \in 1 .. Len(queue') : i \in 1 .. Len(queue) \/ i = Len(queue) + 1
      BY <3>1
    <3>4. QueuedOnce'
      BY <1>0, <3>1, <3>2, <3>3 DEF QueueHolds, QueuedOnce
    <3>5. \A i \in 1 .. Len(queue') : bstate'[queue'[i]] = "SEALED"
      BY <1>0, <3>0, <3>1, <3>3 DEF QueueHolds
    <3>6. \A b \in Buffers : IsQueued(b) \/ b = aidx => IsQueued(b)'
      BY <3>1 DEF IsQueued
    <3> QED BY <1>0, <3>0, <3>4, <3>5, <3>6 DEF QueueHolds
  <2>3. FlushHolds'
    BY <1>10 DEF EnqueueFull, FlushHolds, Flushing, QueueHolds
  <2>4. ActiveHolds'
    BY <1>10 DEF EnqueueFull, ActiveHolds, Exclusive, Sealing
  <2>5. SealHolds'
    BY <1>10 DEF EnqueueFull, SealHolds, ActiveHolds, Exclusive, Sealing, Flushing
  <2> QED BY <2>1, <2>2, <2>3, <2>4, <2>5
<1>11. CASE FindOrBlock
  <2>1. Exclusive'
    BY <1>11 DEF FindOrBlock, Exclusive, Sealing
  <2>2. QueueHolds'
    BY <1>11 DEF FindOrBlock, QueueHolds, QueuedOnce, IsQueued
  <2>3. FlushHolds'
    BY <1>11 DEF FindOrBlock, FlushHolds, Flushing, QueueHolds
  <2>4. ActiveHolds'
    <3>1. (afree' = FindFree /\ FreeBuffers # {}) \/ apc' # "activate"
      BY <1>11 DEF FindOrBlock
    <3>2. apc' = "activate" => bstate[afree'] = "FREE"
      BY <3>1, FindFreeFree DEF FreeBuffers
    <3> QED BY <1>11, <3>2 DEF FindOrBlock, ActiveHolds, Exclusive, Sealing
  <2>5. SealHolds'
    BY <1>11 DEF FindOrBlock, SealHolds, ActiveHolds, Exclusive, Sealing, Flushing
  <2> QED BY <2>1, <2>2, <2>3, <2>4, <2>5
<1>12. CASE ActivateNew
  <2>0. /\ bstate'[afree] = "ACTIVE" /\ \A b \in Buffers : b # afree => bstate'[b] = bstate[b]
        /\ pos'[afree] = 0 /\ \A b \in Buffers : b # afree => pos'[b] = pos[b]
    BY <1>12 DEF ActivateNew
  <2>1. Exclusive'
    BY <2>0, <1>12 DEF ActivateNew, Exclusive, Sealing
  <2>2. QueueHolds'
    <3>1. bstate[afree] = "FREE" /\ UNCHANGED queue
      BY <1>12 DEF ActivateNew, ActiveHolds, SealHolds, FlushHolds, Flushing
    <3>2. \A i \in 1 .. Len(queue) : queue[i] \in Buffers /\ queue[i] # afree
      BY <1>0, <3>1 DEF QueueHolds
    <3> QED BY <1>12, <2>0, <3>1, <3>2 DEF ActivateNew, QueueHolds, QueuedOnce, IsQueued
  <2>3. FlushHolds'
    BY <1>12, <2>0 DEF ActivateNew, FlushHolds, Flushing, ActiveHolds
  <2>4. ActiveHolds'
    BY <2>0, <1>12 DEF ActivateNew, ActiveHolds, Exclusive, Sealing
  <2>5. SealHolds'
    BY <2>0, <1>12 DEF ActivateNew, SealHolds, ActiveHolds, Exclusive, Sealing, Flushing
  <2> QED BY <2>1, <2>2, <2>3, <2>4, <2>5
<1>13. CASE SwapNew
  <2>1. Exclusive'
    BY <1>13 DEF SwapNew, Exclusive, Sealing
  <2>2. QueueHolds'
    BY <1>13 DEF SwapNew, QueueHolds, QueuedOnce, IsQueued
  <2>3. FlushHolds'
    BY <1>13 DEF SwapNew, FlushHolds, Flushing, QueueHolds
  <2>4. ActiveHolds'
    BY <1>13 DEF SwapNew, ActiveHolds, Exclusive, Sealing
  <2>5. SealHolds'
    BY <1>13 DEF SwapNew, SealHolds, ActiveHolds, Exclusive, Sealing, Flushing
  <2> QED BY <2>1, <2>2, <2>3, <2>4, <2>5
<1>14. CASE Wake
  <2>1. Exclusive'
    BY <1>14, ApartWake DEF Wake, Exclusive, Sealing
  <2>2. QueueHolds'
    BY <1>14, ApartWake DEF Wake, QueueHolds, QueuedOnce, IsQueued
  <2>3. FlushHolds'
    BY <1>14, ApartWake DEF Wake, FlushHolds, Flushing, QueueHolds
  <2>4. ActiveHolds'
    BY <1>14, ApartWake DEF Wake, ActiveHolds, Exclusive, Sealing
  <2>5. SealHolds'
    BY <1>14, ApartWake DEF Wake, SealHolds, ActiveHolds, Exclusive, Sealing,
        Flushing
  <2> QED BY <2>1, <2>2, <2>3, <2>4, <2>5
<1>15. CASE SealCheck
  <2>1. Exclusive'
    BY <1>15 DEF SealCheck, Exclusive, Sealing
  <2>2. QueueHolds'
    BY <1>15 DEF SealCheck, QueueHolds, QueuedOnce, IsQueued
  <2>3. FlushHolds'
    BY <1>15 DEF SealCheck, FlushHolds, Flushing, QueueHolds
  <2>4. ActiveHolds'
    BY <1>15 DEF SealCheck, ActiveHolds, Exclusive, Sealing
  <2>5. SealHolds'
    <3>1. CASE wpc' = "pop"
      BY <1>15, <3>1 DEF SealCheck, SealHolds, Flushing
    <3>2. CASE pos[wbuf] # 0 /\ wpc' = "sealread" /\ wfree' = FindFree
      <4>1. bstate[wbuf] = "ACTIVE"
        BY <1>15, <3>2 DEF SealCheck, SealHolds, FlushHolds, Flushing, Exclusive, Sealing
      <4>2. wfree' # NoBuf => bstate[wfree'] = "FREE"
        BY <3>2, FindFreeFree DEF FreeBuffers, FindFree
      <4> QED BY <1>15, <3>2, <4>1, <4>2 DEF SealCheck, SealHolds, Flushing
    <3> QED BY <1>15, <3>1, <3>2 DEF SealCheck
  <2> QED BY <2>1, <2>2, <2>3, <2>4, <2>5
<1>16. CASE SealRead
  <2>1. Exclusive'
    BY <1>16 DEF SealRead, Exclusive, Sealing
  <2>2. QueueHolds'
    BY <1>16 DEF SealRead, QueueHolds, QueuedOnce, IsQueued
  <2>3. FlushHolds'
    BY <1>16 DEF SealRead, FlushHolds, Flushing, QueueHolds
  <2>4. ActiveHolds'
    BY <1>16 DEF SealRead, ActiveHolds, Exclusive, Sealing
  <2>5. SealHolds'
    BY <1>16 DEF SealRead, SealHolds, ActiveHolds, Exclusive, Sealing, Flushing
  <2> QED BY <2>1, <2>2, <2>3, <2>4, <2>5
<1>17. CASE SealStore
  <2>0. /\ bstate'[wbuf] = "SEALED" /\ \A b \in Buffers : b # wbuf => bstate'[b] = bstate[b]
    BY <1>17 DEF SealStore
  <2>1. Exclusive'
    BY <2>0, <1>17 DEF SealStore, Exclusive, Sealing
  <2>2. QueueHolds'
    <3>1. bstate[wbuf] = "ACTIVE" /\ apc # "enqueue"
      BY <1>17 DEF SealStore, SealHolds, Exclusive, Sealing
    <3>2. ~IsQueued(wbuf) /\ UNCHANGED queue
      BY <1>17, <3>1 DEF SealStore, QueueHolds, IsQueued
    <3>3. \A i \in 1 .. Len(queue) : queue[i] \in Buffers /\ queue[i] # wbuf
      BY <1>0, <3>2 DEF IsQueued
    <3> QED BY <1>17, <2>0, <3>1, <3>2, <3>3 DEF SealStore, QueueHolds, QueuedOnce, IsQueued
  <2>3. FlushHolds'
    BY <2>0, <1>17 DEF SealStore, FlushHolds, Flushing, QueueHolds
  <2>4. ActiveHolds'
    BY <1>17, <2>0 DEF SealStore, ActiveHolds, SealHolds, Exclusive, Sealing
  <2>5. SealHolds'
    BY <2>0, <1>17 DEF SealStore, SealHolds, ActiveHolds, Exclusive, Sealing, Flushing
  <2> QED BY <2>1, <2>2, <2>3, <2>4, <2>5
<1>18. CASE SealEnqueue
  <2>1. Exclusive'
    BY <1>18 DEF SealEnqueue, Exclusive, Sealing
  <2>2. QueueHolds'
    <3>0. /\ bstate' = bstate /\ bstate[wbuf] = "SEALED" /\ ~IsQueued(wbuf)
          /\ apc' # "enqueue" /\ wpc' # "enqueue" /\ apc # "enqueue"
      BY <1>18 DEF SealEnqueue, QueueHolds, Exclusive, Sealing
    <3>1. /\ Len(queue') = Len(queue) + 1 /\ Len(queue) \in Nat
          /\ \A i \in 1 .. Len(queue) : queue'[i] = queue[i]
          /\ queue'[Len(queue) + 1] = wbuf
      BY <1>18 DEF SealEnqueue
    <3> HIDE DEF OwnTypes, Ownership
    <3>2. \A i \in 1 .. Len(queue) : queue[i] # wbuf
      BY <3>0 DEF IsQueued
    <3>3. \A i \in 1 .. Len(queue') : i \in 1 .. Len(queue) \/ i = Len(queue) + 1
      BY <3>1
    <3>4. QueuedOnce'
      BY <1>0, <3>1, <3>2, <3>3 DEF QueueHolds, QueuedOnce
    <3>5. \A i \in 1 .. Len(queue') : bstate'[queue'[i]] = "SEALED"
      BY <1>0, <3>0, <3>1, <3>3 DEF QueueHolds
    <3>6. \A b \in Buffers : IsQueued(b) \/ b = wbuf => IsQueued(b)'
      BY <3>1 DEF IsQueued
    <3> QED BY <1>0, <3>0, <3>4, <3>5, <3>6 DEF QueueHolds
  <2>3. FlushHolds'
    BY <1>18 DEF SealEnqueue, FlushHolds, Flushing, QueueHolds
  <2>4. ActiveHolds'
    BY <1>18 DEF SealEnqueue, ActiveHolds, Exclusive, Sealing
  <2>5. SealHolds'
    BY <1>18 DEF SealEnqueue, SealHolds, ActiveHolds, Exclusive, Sealing, Flushing
  <2> QED BY <2>1, <2>2, <2>3, <2>4, <2>5
<1>19. CASE SealActivate
  <2>0. /\ bstate'[wfree] = "ACTIVE" /\ \A b \in Buffers : b # wfree => bstate'[b] = bstate[b]
        /\ pos'[wfree] = 0 /\ \A b \in Buffers : b # wfree => pos'[b] = pos[b]
    BY <1>19 DEF SealActivate
  <2>1. Exclusive'
    BY <2>0, <1>19 DEF SealActivate, Exclusive, Sealing
  <2>2. QueueHolds'
    <3>1. bstate[wfree] = "FREE" /\ UNCHANGED queue
      BY <1>19, NBufAssumption DEF SealActivate, NoBuf, Buffers, ActiveHolds, SealHolds,
          FlushHolds, Flushing
    <3>2. \A i \in 1 .. Len(queue) : queue[i] \in Buffers /\ queue[i] # wfree
      BY <1>0, <3>1 DEF QueueHolds
    <3> QED BY <1>19, <2>0, <3>1, <3>2 DEF SealActivate, QueueHolds, QueuedOnce, IsQueued
  <2>3. FlushHolds'
    BY <2>0, <1>19 DEF SealActivate, FlushHolds, Flushing, QueueHolds
  <2>4. ActiveHolds'
    BY <2>0, <1>19 DEF SealActivate, ActiveHolds, Exclusive, Sealing
  <2>5. SealHolds'
    BY <2>0, <1>19 DEF SealActivate, SealHolds, ActiveHolds, Exclusive, Sealing, Flushing
  <2> QED BY <2>1, <2>2, <2>3, <2>4, <2>5
<1>20. CASE SealSwap
  <2>1. Exclusive'
    BY <1>20 DEF SealSwap, Exclusive, Sealing
  <2>2. QueueHolds'
    BY <1>20 DEF SealSwap, QueueHolds, QueuedOnce, IsQueued
  <2>3. FlushHolds'
    BY <1>20 DEF SealSwap, FlushHolds, Flushing, QueueHolds
  <2>4. ActiveHolds'
    BY <1>20 DEF SealSwap, ActiveHolds, SealHolds, Exclusive, Sealing
  <2>5. SealHolds'
    BY <1>20 DEF SealSwap, SealHolds, ActiveHolds, Exclusive, Sealing, Flushing
  <2> QED BY <2>1, <2>2, <2>3, <2>4, <2>5
<1>21. CASE PopSealed
  <2>1. Exclusive'
    BY <1>21 DEF PopSealed, Exclusive, Sealing
  <2>2. QueueHolds'
    <3>1. /\ Len(queue') = Len(queue) - 1 /\ Len(queue) >= 1
          /\ \A i \in 1 .. Len(queue) - 1 : queue'[i] = queue[i + 1]
      BY <1>21 DEF PopSealed
    <3>2. /\ apc' = apc /\ aidx' = aidx /\ wpc # "enqueue" /\ wpc' # "enqueue"
      BY <1>21 DEF PopSealed
    <3>3. queue[1] \in Buffers /\ bstate[queue[1]] = "SEALED" /\ Head(queue) = queue[1]
      BY <1>0, <1>21, <3>1 DEF QueueHolds, PopSealed
    <3>4. /\ bstate'[queue[1]] = "FLUSHING"
          /\ \A b \in Buffers : b # queue[1] => bstate'[b] = bstate[b]
      BY <1>21, <3>3 DEF PopSealed
    <3> HIDE DEF OwnTypes, Ownership
    <3>5. \A i \in 1 .. Len(queue') : i + 1 \in 1 .. Len(queue) /\ queue'[i] = queue[i + 1]
      BY <1>0, <3>1
    <3>6. \A i \in 1 .. Len(queue') : queue'[i] # queue[1] /\ queue'[i] \in Buffers
      BY <1>0, <3>1, <3>5 DEF QueueHolds, QueuedOnce
    <3>7. QueuedOnce'
      BY <1>0, <3>1, <3>5 DEF QueueHolds, QueuedOnce
    <3>8. \A i \in 1 .. Len(queue') : bstate'[queue'[i]] = "SEALED"
      <4>1. \A i \in 1 .. Len(queue) : bstate[queue[i]] = "SEALED"
        BY <1>0 DEF QueueHolds
      <4> QED BY <3>4, <3>5, <3>6, <4>1
    <3>9. \A b \in Buffers : IsQueued(b) /\ b # queue[1] => IsQueued(b)'
      <4> SUFFICES ASSUME NEW i \in 1 .. Len(queue), i # 1
                   PROVE  \E j \in 1 .. Len(queue') : queue'[j] = queue[i]
        BY DEF IsQueued
      <4>1. i - 1 \in 1 .. Len(queue) - 1 /\ (i - 1) + 1 = i
        BY <1>0
      <4> QED BY <3>1, <4>1
    <3>10. \A b : IsQueued(b)' => IsQueued(b)
      BY <3>5 DEF IsQueued
    <3>11. IsQueued(queue[1])
      BY <1>0, <3>1 DEF IsQueued
    <3>12. ASSUME apc = "enqueue"
           PROVE  bstate'[aidx] = "SEALED" /\ \A i \in 1 .. Len(queue') : queue'[i] # aidx
      <4>1. bstate[aidx] = "SEALED" /\ ~IsQueued(aidx) /\ aidx \in Buffers
        BY <1>0, <3>12 DEF QueueHolds, OwnTypes
      <4>2. aidx # queue[1]
        BY <3>11, <4>1
      <4> QED BY <3>4, <3>5, <4>1, <4>2 DEF IsQueued
    <3>13. \A b \in Buffers : bstate'[b] = "SEALED" => IsQueued(b)' \/ (apc = "enqueue" /\ b = aidx)
      BY <1>0, <3>2, <3>4, <3>9 DEF QueueHolds
    <3> QED BY <3>2, <3>7, <3>8, <3>12, <3>13 DEF QueueHolds, IsQueued
  <2>3. FlushHolds'
    BY <1>21 DEF PopSealed, FlushHolds, Flushing, QueueHolds
  <2>4. ActiveHolds'
    <3>1. queue[1] \in Buffers /\ bstate[queue[1]] = "SEALED" /\ Head(queue) = queue[1]
      BY <1>0, <1>21 DEF PopSealed, QueueHolds
    <3>2. bstate' = [bstate EXCEPT ![queue[1]] = "FLUSHING"]
      BY <1>21, <3>1 DEF PopSealed
    <3>3. \A b \in Buffers : bstate'[b] = bstate[b] \/ (b = queue[1] /\ bstate'[b] = "FLUSHING")
      BY <3>1, <3>2
    <3> QED BY <1>21, <3>1, <3>3 DEF PopSealed, ActiveHolds, Exclusive, Sealing
  <2>5. SealHolds'
    BY <1>21 DEF PopSealed, SealHolds, ActiveHolds, Exclusive, Sealing, Flushing
  <2> QED BY <2>1, <2>2, <2>3, <2>4, <2>5
<1>22. CASE ReadWritten
  <2>1. Exclusive'
    BY <1>22 DEF ReadWritten, Exclusive, Sealing
  <2>2. QueueHolds'
    BY <1>22 DEF ReadWritten, QueueHolds, QueuedOnce, IsQueued
  <2>3. FlushHolds'
    <3>1. wpc' \in {"free", "write"}
      <4>1. pos[wbuf] <= Cap
        BY <1>22 DEF ReadWritten, FlushHolds, ActiveHolds, Flushing
      <4> QED BY <1>22, <4>1 DEF ReadWritten
    <3> QED BY <1>22, <3>1 DEF ReadWritten, FlushHolds, Flushing
  <2>4. ActiveHolds'
    BY <1>22 DEF ReadWritten, ActiveHolds, Exclusive, Sealing
  <2>5. SealHolds'
    <3>1. wpc' \in {"free", "write"}
      BY <1>22, <2>3 DEF ReadWritten, FlushHolds
    <3> QED BY <1>22, <3>1 DEF ReadWritten, SealHolds, Flushing
  <2> QED BY <2>1, <2>2, <2>3, <2>4, <2>5
<1>23. CASE WriteOk
  <2>1. Exclusive'
    BY <1>23 DEF WriteOk, Exclusive, Sealing
  <2>2. QueueHolds'
    BY <1>23 DEF WriteOk, QueueHolds, QueuedOnce, IsQueued
  <2>3. FlushHolds'
    BY <1>23 DEF WriteOk, FlushHolds, Flushing, QueueHolds
  <2>4. ActiveHolds'
    BY <1>23 DEF WriteOk, ActiveHolds, Exclusive, Sealing
  <2>5. SealHolds'
    BY <1>23 DEF WriteOk, SealHolds, ActiveHolds, Exclusive, Sealing, Flushing
  <2> QED BY <2>1, <2>2, <2>3, <2>4, <2>5
<1>24. CASE WriteErr
  <2>1. Exclusive'
    BY <1>24 DEF WriteErr, Exclusive, Sealing
  <2>2. QueueHolds'
    BY <1>24 DEF WriteErr, QueueHolds, QueuedOnce, IsQueued
  <2>3. FlushHolds'
    BY <1>24 DEF WriteErr, FlushHolds, Flushing, QueueHolds
  <2>4. ActiveHolds'
    BY <1>24 DEF WriteErr, ActiveHolds, Exclusive, Sealing
  <2>5. SealHolds'
    BY <1>24 DEF WriteErr, SealHolds, ActiveHolds, Exclusive, Sealing, Flushing
  <2> QED BY <2>1, <2>2, <2>3, <2>4, <2>5
<1>25. CASE SyncOk
  <2>1. Exclusive'
    BY <1>25 DEF SyncOk, Exclusive, Sealing
  <2>2. QueueHolds'
    BY <1>25 DEF SyncOk, QueueHolds, QueuedOnce, IsQueued
  <2>3. FlushHolds'
    BY <1>25 DEF SyncOk, FlushHolds, Flushing, QueueHolds
  <2>4. ActiveHolds'
    BY <1>25 DEF SyncOk, ActiveHolds, Exclusive, Sealing
  <2>5. SealHolds'
    BY <1>25 DEF SyncOk, SealHolds, ActiveHolds, Exclusive, Sealing, Flushing
  <2> QED BY <2>1, <2>2, <2>3, <2>4, <2>5
<1>26. CASE SyncErr
  <2>1. Exclusive'
    BY <1>26 DEF SyncErr, Exclusive, Sealing
  <2>2. QueueHolds'
    BY <1>26 DEF SyncErr, QueueHolds, QueuedOnce, IsQueued
  <2>3. FlushHolds'
    BY <1>26 DEF SyncErr, FlushHolds, Flushing, QueueHolds
  <2>4. ActiveHolds'
    BY <1>26 DEF SyncErr, ActiveHolds, Exclusive, Sealing
  <2>5. SealHolds'
    BY <1>26 DEF SyncErr, SealHolds, ActiveHolds, Exclusive, Sealing, Flushing
  <2> QED BY <2>1, <2>2, <2>3, <2>4, <2>5
<1>27. CASE MarkFree
  <2>0. /\ bstate'[wbuf] = "FREE" /\ \A b \in Buffers : b # wbuf => bstate'[b] = bstate[b]
        /\ pos'[wbuf] = 0 /\ \A b \in Buffers : b # wbuf => pos'[b] = pos[b]
    BY <1>27 DEF MarkFree
  <2>1. Exclusive'
    BY <2>0, <1>27 DEF MarkFree, Exclusive, Sealing
  <2>2. QueueHolds'
    <3>1. bstate[wbuf] = "FLUSHING" /\ UNCHANGED queue
      BY <1>27 DEF MarkFree, ActiveHolds, SealHolds, FlushHolds, Flushing
    <3>2. \A i \in 1 .. Len(queue) : queue[i] \in Buffers /\ queue[i] # wbuf
      BY <1>0, <3>1 DEF QueueHolds
    <3> QED BY <1>27, <2>0, <3>1, <3>2 DEF MarkFree, QueueHolds, QueuedOnce, IsQueued
  <2>3. FlushHolds'
    BY <2>0, <1>27 DEF MarkFree, FlushHolds, Flushing, QueueHolds
  <2>4. ActiveHolds'
    BY <1>27, <2>0 DEF MarkFree, ActiveHolds, FlushHolds, Flushing, Exclusive, Sealing
  <2>5. SealHolds'
    BY <2>0, <1>27 DEF MarkFree, SealHolds, ActiveHolds, Exclusive, Sealing, Flushing
  <2> QED BY <2>1, <2>2, <2>3, <2>4, <2>5
<1>28. CASE NotifyFree
  <2>1. Exclusive'
    BY <1>28 DEF NotifyFree, Woken, Exclusive, Sealing
  <2>2. QueueHolds'
    BY <1>28 DEF NotifyFree, Woken, QueueHolds, QueuedOnce, IsQueued
  <2>3. FlushHolds'
    BY <1>28 DEF NotifyFree, Woken, FlushHolds, Flushing, QueueHolds
  <2>4. ActiveHolds'
    BY <1>28 DEF NotifyFree, Woken, ActiveHolds, Exclusive, Sealing
  <2>5. SealHolds'
    BY <1>28 DEF NotifyFree, Woken, SealHolds, ActiveHolds, Exclusive, Sealing, Flushing
  <2> QED BY <2>1, <2>2, <2>3, <2>4, <2>5
<1>29. CASE PopEmpty
  <2>1. Exclusive'
    BY <1>29 DEF PopEmpty, Exclusive, Sealing
  <2>2. QueueHolds'
    BY <1>29 DEF PopEmpty, QueueHolds, QueuedOnce, IsQueued
  <2>3. FlushHolds'
    BY <1>29 DEF PopEmpty, FlushHolds, Flushing, QueueHolds
  <2>4. ActiveHolds'
    BY <1>29 DEF PopEmpty, ActiveHolds, Exclusive, Sealing
  <2>5. SealHolds'
    <3>1. \A b \in Buffers : bstate[b] = "FLUSHING" => FALSE
      BY <1>29 DEF PopEmpty, FlushHolds, Flushing
    <3>2. \A b \in Buffers : bstate[b] = "SEALED" => apc = "enqueue"
      BY <1>29 DEF PopEmpty, QueueHolds, IsQueued
    <3> QED BY <1>29, <3>1, <3>2 DEF PopEmpty, SealHolds, Flushing
  <2> QED BY <2>1, <2>2, <2>3, <2>4, <2>5
<1>30. CASE ReclaimSkip
  <2>1. Exclusive'
    BY <1>30 DEF ReclaimSkip, NextRound, Exclusive, Sealing
  <2>2. QueueHolds'
    BY <1>30 DEF ReclaimSkip, NextRound, QueueHolds, QueuedOnce, IsQueued
  <2>3. FlushHolds'
    BY <1>30 DEF ReclaimSkip, NextRound, FlushHolds, Flushing, QueueHolds
  <2>4. ActiveHolds'
    BY <1>30 DEF ReclaimSkip, NextRound, ActiveHolds, Exclusive, Sealing
  <2>5. SealHolds'
    BY <1>30 DEF ReclaimSkip, NextRound, SealHolds, ActiveHolds, Exclusive, Sealing,
        Flushing
  <2> QED BY <2>1, <2>2, <2>3, <2>4, <2>5
<1>31. CASE ReclaimOk
  <2>1. Exclusive'
    BY <1>31 DEF ReclaimOk, NextRound, Exclusive, Sealing
  <2>2. QueueHolds'
    BY <1>31 DEF ReclaimOk, NextRound, QueueHolds, QueuedOnce, IsQueued
  <2>3. FlushHolds'
    BY <1>31 DEF ReclaimOk, NextRound, FlushHolds, Flushing, QueueHolds
  <2>4. ActiveHolds'
    BY <1>31 DEF ReclaimOk, NextRound, ActiveHolds, Exclusive, Sealing
  <2>5. SealHolds'
    BY <1>31 DEF ReclaimOk, NextRound, SealHolds, ActiveHolds, Exclusive, Sealing, Flushing
  <2> QED BY <2>1, <2>2, <2>3, <2>4, <2>5
<1>32. CASE ReclaimErr
  <2>1. Exclusive'
    BY <1>32 DEF ReclaimErr, NextRound, Exclusive, Sealing
  <2>2. QueueHolds'
    BY <1>32 DEF ReclaimErr, NextRound, QueueHolds, QueuedOnce, IsQueued
  <2>3. FlushHolds'
    BY <1>32 DEF ReclaimErr, NextRound, FlushHolds, Flushing, QueueHolds
  <2>4. ActiveHolds'
    BY <1>32 DEF ReclaimErr, NextRound, ActiveHolds, Exclusive, Sealing
  <2>5. SealHolds'
    BY <1>32 DEF ReclaimErr, NextRound, SealHolds, ActiveHolds, Exclusive, Sealing, Flushing
  <2> QED BY <2>1, <2>2, <2>3, <2>4, <2>5
<1>33. CASE Shutdown
  <2>1. Exclusive'
    BY <1>33 DEF Shutdown, Exclusive, Sealing
  <2>2. QueueHolds'
    BY <1>33 DEF Shutdown, QueueHolds, QueuedOnce, IsQueued
  <2>3. FlushHolds'
    BY <1>33 DEF Shutdown, FlushHolds, Flushing, QueueHolds
  <2>4. ActiveHolds'
    BY <1>33 DEF Shutdown, ActiveHolds, Exclusive, Sealing
  <2>5. SealHolds'
    BY <1>33 DEF Shutdown, SealHolds, ActiveHolds, Exclusive, Sealing, Flushing
  <2> QED BY <2>1, <2>2, <2>3, <2>4, <2>5
<1>34. ASSUME NEW c, RequestReclaim(c) PROVE Ownership'
  <2>1. Exclusive'
    BY <1>34 DEF RequestReclaim, Exclusive, Sealing
  <2>2. QueueHolds'
    BY <1>34 DEF RequestReclaim, QueueHolds, QueuedOnce, IsQueued
  <2>3. FlushHolds'
    BY <1>34 DEF RequestReclaim, FlushHolds, Flushing, QueueHolds
  <2>4. ActiveHolds'
    BY <1>34 DEF RequestReclaim, ActiveHolds, Exclusive, Sealing
  <2>5. SealHolds'
    BY <1>34 DEF RequestReclaim, SealHolds, ActiveHolds, Exclusive, Sealing, Flushing
  <2> QED BY <2>1, <2>2, <2>3, <2>4, <2>5
<1>35. CASE UNCHANGED vars
  <2>1. Exclusive'
    BY <1>35 DEF vars, Exclusive, Sealing
  <2>2. QueueHolds'
    BY <1>35 DEF vars, QueueHolds, QueuedOnce, IsQueued
  <2>3. FlushHolds'
    BY <1>35 DEF vars, FlushHolds, Flushing, QueueHolds
  <2>4. ActiveHolds'
    BY <1>35 DEF vars, ActiveHolds, Exclusive, Sealing
  <2>5. SealHolds'
    BY <1>35 DEF vars, SealHolds, ActiveHolds, Exclusive, Sealing, Flushing
  <2> QED BY <2>1, <2>2, <2>3, <2>4, <2>5
<1>36. CASE Stopped
  BY <1>36, <1>35 DEF Stopped
<1> QED BY <1>1, <1>2, <1>3, <1>4, <1>5, <1>6, <1>7, <1>8, <1>9, <1>10, <1>11, <1>12,
    <1>13, <1>14, <1>15, <1>16, <1>17, <1>18, <1>19, <1>20, <1>21, <1>22, <1>23, <1>24,
    <1>25, <1>26, <1>27, <1>28, <1>29, <1>30, <1>31, <1>32, <1>33, <1>34, <1>35, <1>36
  DEF Next, ApplyStep, WriterStep

(* As long as no seal_active has met an append, the apply thread copies    *)
(* only into an ACTIVE buffer and the writer thread is handed each sealed  *)
(* buffer once, for every ring size and capacity and with any system call  *)
(* failing (wal_buffer.rs: append, seal_active, return_to_free).           *)
LEMMA OwnedWhileApart == Spec => [](KeptApart => BuffersOwned)
<1> DEFINE Inv == IInv /\ (KeptApart => Ownership)
<1>1. Init => Inv
  BY InitInv, InitOwned
<1>2. Inv /\ [Next]_vars => Inv'
  <2> SUFFICES ASSUME Inv, [Next]_vars PROVE Inv'
    OBVIOUS
  <2>1. IInv'
    BY NextInv
  <2>2. OwnTypes /\ OwnTypes'
    BY <2>1, IInvOwnTypes
  <2>3. KeptApart' => Ownership'
    BY <2>2, ApartBefore, OwnStep
  <2> QED BY <2>1, <2>3
<1>3. Inv => (KeptApart => BuffersOwned)
  BY DEF Ownership, ActiveHolds, QueueHolds, BuffersOwned, CopiesIntoActive
<1> QED BY <1>1, <1>2, <1>3, PTL DEF Spec

=============================================================================
