----------------------------- MODULE WalRingLog -----------------------------
(***************************************************************************)
(* What the data-plane log keeps, proved for every instance of WalRing, as *)
(* long as no seal_active has met an append: the bytes of the file are in  *)
(* LSN order, the synced watermark is honest and a clean shutdown loses    *)
(* nothing.  WalRingProofs supplies the types and the ownership of the     *)
(* buffers.                                                                *)
(*                                                                         *)
(* The order follows from where a byte can be: a buffer holds the bytes    *)
(* below Used in LSN order, a buffer that is flushed earlier holds smaller *)
(* bytes (Ahead), the file holds smaller bytes than every buffer still to  *)
(* be written.  Storage is a tiling: whole records side by side, which     *)
(* copying, flushing and compacting preserve.                              *)
(***************************************************************************)
EXTENDS WalRingProofs, FiniteSetTheorems

-----------------------------------------------------------------------------
(* Positions in a set of numbers: what Nth, and with it compact_wal_file,  *)
(* selects.                                                                *)

(* The members of K up to p.                                               *)
UpTo(K, p) == {k \in K : k <= p}

(* How many members of K are at most p.                                    *)
Rank(K, p) == Cardinality(UpTo(K, p))

(* Rank counts: it is bounded by the size of K, monotonic, and goes up by  *)
(* one exactly at a member of K.                                           *)
LEMMA RankFacts ==
  ASSUME NEW n \in Nat, NEW K \in SUBSET (1 .. n)
  PROVE  /\ IsFiniteSet(K) /\ Cardinality(K) \in Nat
         /\ \A p \in Int : IsFiniteSet(UpTo(K, p)) /\ Rank(K, p) \in Nat /\ Rank(K, p) <= Cardinality(K)
         /\ \A p, q \in Int : p <= q => Rank(K, p) <= Rank(K, q)
         /\ \A p \in Int : Rank(K, p + 1) = Rank(K, p) + (IF p + 1 \in K THEN 1 ELSE 0)
         /\ Rank(K, 0) = 0 /\ Rank(K, n) = Cardinality(K)
<1>0. \A k \in K : k \in Int /\ 1 <= k /\ k <= n
  OBVIOUS
<1>1. IsFiniteSet(1 .. n)
  BY FS_Interval
<1>2. IsFiniteSet(K) /\ Cardinality(K) \in Nat
  BY <1>1, FS_Subset, FS_CardinalityType
<1>3. ASSUME NEW p \in Int
      PROVE  IsFiniteSet(UpTo(K, p)) /\ Rank(K, p) \in Nat /\ Rank(K, p) <= Cardinality(K)
  <2>1. UpTo(K, p) \in SUBSET K
    BY DEF UpTo
  <2> QED BY <1>2, <2>1, FS_Subset, FS_CardinalityType DEF Rank
<1>4. ASSUME NEW p \in Int, NEW q \in Int, p <= q PROVE Rank(K, p) <= Rank(K, q)
  <2>1. ASSUME NEW k \in UpTo(K, p) PROVE k \in UpTo(K, q)
    BY <1>0, <1>4 DEF UpTo
  <2>2. UpTo(K, p) \in SUBSET UpTo(K, q)
    BY <2>1
  <2> QED BY <1>3, <2>2, FS_Subset DEF Rank
<1>5. ASSUME NEW p \in Int
      PROVE  Rank(K, p + 1) = Rank(K, p) + (IF p + 1 \in K THEN 1 ELSE 0)
  <2>1. \A k \in K : k <= p + 1 <=> k <= p \/ k = p + 1
    BY <1>0
  <2>2. CASE p + 1 \in K
    <3>1. UpTo(K, p + 1) = UpTo(K, p) \cup {p + 1}
      BY <2>1, <2>2, Zenon DEF UpTo
    <3>2. p + 1 \notin UpTo(K, p)
      BY DEF UpTo
    <3> QED BY <1>3, <2>2, <3>1, <3>2, FS_AddElement DEF Rank
  <2>3. CASE p + 1 \notin K
    <3>1. UpTo(K, p + 1) = UpTo(K, p)
      BY <2>1, <2>3, Zenon DEF UpTo
    <3> QED BY <1>3, <2>3, <3>1 DEF Rank
  <2> QED BY <2>2, <2>3
<1>6. Rank(K, 0) = 0
  <2>1. \A k \in K : ~(k <= 0)
    BY <1>0
  <2>2. UpTo(K, 0) = {}
    BY <2>1, Zenon DEF UpTo
  <2> QED BY <2>2, FS_EmptySet DEF Rank
<1>7. Rank(K, n) = Cardinality(K)
  <2>1. UpTo(K, n) = K
    BY <1>0, Zenon DEF UpTo
  <2> QED BY <2>1 DEF Rank
<1> QED BY <1>2, <1>3, <1>4, <1>5, <1>6, <1>7

(* Nth(K, j) is the member of rank j.                                      *)
LEMMA NthIs ==
  ASSUME NEW n \in Nat, NEW K \in SUBSET (1 .. n), NEW j \in 1 .. Cardinality(K)
  PROVE  Nth(K, j) \in K /\ Rank(K, Nth(K, j)) = j
<1>1. Cardinality(K) \in Nat /\ j \in Nat /\ j >= 1
  BY RankFacts
<1> DEFINE Enough == {m \in Nat : Rank(K, m) >= j}
<1>2. PICK m \in Enough : \A l \in Enough : m <= l
  <2>1. n \in Enough
    BY <1>1, RankFacts
  <2>2. Enough \in SUBSET Nat /\ Enough # {}
    BY <2>1
  <2> HIDE DEF Enough
  <2> QED BY <2>2, LeastNatural
<1>3. m # 0
  BY <1>1, <1>2, RankFacts
<1>4. m - 1 \in Nat /\ m - 1 \in Int /\ (m - 1) + 1 = m /\ ~(Rank(K, m - 1) >= j)
  BY <1>2, <1>3
<1>5. Rank(K, m - 1) \in Nat /\ Rank(K, (m - 1) + 1) = Rank(K, m - 1) + (IF (m - 1) + 1 \in K THEN 1 ELSE 0)
  BY <1>4, RankFacts
<1>6. m \in K /\ Rank(K, m) = j
  BY <1>1, <1>2, <1>4, <1>5
<1> HIDE DEF Enough
<1>7. \E i \in K : Cardinality({k \in K : k <= i}) = j
  BY <1>6 DEF Rank, UpTo
<1> QED BY <1>7 DEF Nth, Rank, UpTo

(* Nth is increasing: a selection keeps the order.                         *)
LEMMA NthGrows ==
  ASSUME NEW n \in Nat, NEW K \in SUBSET (1 .. n),
         NEW i \in 1 .. Cardinality(K), NEW j \in 1 .. Cardinality(K), i < j
  PROVE  Nth(K, i) < Nth(K, j)
<1>1. Nth(K, i) \in Int /\ Nth(K, j) \in Int /\ i \in Int /\ j \in Int
  <2>1. Nth(K, i) \in K /\ Nth(K, j) \in K
    BY NthIs
  <2>2. \A k \in K : k \in Int
    OBVIOUS
  <2>3. Cardinality(K) \in Nat
    BY RankFacts
  <2>4. i \in Int /\ j \in Int
    BY <2>3
  <2> QED BY <2>1, <2>2, <2>4
<1>2. Nth(K, j) <= Nth(K, i) => Rank(K, Nth(K, j)) <= Rank(K, Nth(K, i))
  BY <1>1, RankFacts
<1>3. Rank(K, Nth(K, j)) = j /\ Rank(K, Nth(K, i)) = i
  BY NthIs
<1> QED BY <1>1, <1>2, <1>3

(* Nth and Rank are inverse on K.                                          *)
LEMMA NthOfRank ==
  ASSUME NEW n \in Nat, NEW K \in SUBSET (1 .. n), NEW p \in K
  PROVE  Rank(K, p) \in 1 .. Cardinality(K) /\ Nth(K, Rank(K, p)) = p
<1>1. p \in Int /\ p - 1 \in Int /\ (p - 1) + 1 = p
  OBVIOUS
<1>2. Rank(K, p - 1) \in Nat /\ Rank(K, p) \in Nat /\ Rank(K, p) <= Cardinality(K)
      /\ Cardinality(K) \in Nat
  BY <1>1, RankFacts
<1>3. \A q \in K : Rank(K, q - 1) \in Nat /\ Rank(K, q) = Rank(K, q - 1) + 1
  <2> SUFFICES ASSUME NEW q \in K PROVE Rank(K, q - 1) \in Nat /\ Rank(K, q) = Rank(K, q - 1) + 1
    OBVIOUS
  <2>1. q \in Int /\ q - 1 \in Int /\ (q - 1) + 1 = q
    OBVIOUS
  <2>2. Rank(K, q - 1) \in Nat /\ Rank(K, (q - 1) + 1) = Rank(K, q - 1) + (IF (q - 1) + 1 \in K THEN 1 ELSE 0)
    BY <2>1, RankFacts
  <2> QED BY <2>1, <2>2
<1>4. Rank(K, p) \in 1 .. Cardinality(K)
  BY <1>2, <1>3
<1> DEFINE q == Nth(K, Rank(K, p))
<1>5. q \in K /\ Rank(K, q) = Rank(K, p)
  BY <1>4, NthIs
<1> HIDE DEF q
<1>6. q \in Int /\ q - 1 \in Int
  <2>1. \A k \in K : k \in Int
    OBVIOUS
  <2> QED BY <1>5, <2>1
<1>7. ~(p < q)
  <2> SUFFICES ASSUME p < q PROVE FALSE
    OBVIOUS
  <2>1. p <= q - 1
    BY <1>1, <1>6
  <2>2. Rank(K, p) <= Rank(K, q - 1)
    BY <1>1, <1>6, <2>1, RankFacts
  <2> QED BY <1>2, <1>3, <1>5, <2>2
<1>8. ~(q < p)
  <2> SUFFICES ASSUME q < p PROVE FALSE
    OBVIOUS
  <2>1. q <= p - 1
    BY <1>1, <1>6
  <2>2. Rank(K, q) <= Rank(K, p - 1)
    BY <1>1, <1>6, <2>1, RankFacts
  <2> QED BY <1>2, <1>3, <1>5, <2>2
<1>9. q = p
  BY <1>1, <1>6, <1>7, <1>8
<1> QED BY <1>4, <1>9 DEF q

(* Over a run of l consecutive members of K the rank grows by one at a     *)
(* time: a selection keeps a run together.                                 *)
LEMMA RankRuns ==
  ASSUME NEW n \in Nat, NEW K \in SUBSET (1 .. n), NEW p \in Nat, NEW l \in Nat,
         \A j \in 1 .. l : p + j \in K
  PROVE  \A j \in 0 .. l : Rank(K, p + j) = Rank(K, p) + j
<1> DEFINE Bad == {j \in 0 .. l : Rank(K, p + j) # Rank(K, p) + j}
<1> SUFFICES ASSUME Bad # {} PROVE FALSE
  OBVIOUS
<1>1. PICK j \in Bad : \A i \in Bad : j <= i
  <2>1. Bad \in SUBSET Nat
    OBVIOUS
  <2> HIDE DEF Bad
  <2> QED BY <2>1, LeastNatural
<1>2. j \in Nat /\ j <= l /\ Rank(K, p + j) # Rank(K, p) + j
  BY <1>1
<1>3. Rank(K, p) \in Nat
  <2>1. p \in Int
    OBVIOUS
  <2> QED BY <2>1, RankFacts
<1>4. j # 0
  BY <1>2, <1>3
<1>5. j - 1 \in 0 .. l /\ ~(j <= j - 1) /\ p + (j - 1) \in Int /\ (p + (j - 1)) + 1 = p + j
  BY <1>2, <1>4
<1>6. Rank(K, p + (j - 1)) = Rank(K, p) + (j - 1)
  BY <1>1, <1>5
<1>7. Rank(K, (p + (j - 1)) + 1) = Rank(K, p + (j - 1)) + (IF (p + (j - 1)) + 1 \in K THEN 1 ELSE 0)
  BY <1>5, RankFacts
<1>8. p + j \in K
  BY <1>2, <1>4
<1> HIDE DEF Bad
<1>9. Rank(K, p + j) = (Rank(K, p) + (j - 1)) + 1
  BY <1>5, <1>6, <1>7, <1>8
<1> QED BY <1>2, <1>3, <1>9

-----------------------------------------------------------------------------
(* Where bytes are, and how a step moves them.                             *)

(* The bytes of buffer b that were copied in full: pos, except while       *)
(* try_append has reserved and not yet copied or undone.                   *)
Used(b) == IF apc \in {"undo", "copy"} /\ b = aidx THEN aold ELSE pos[b]

(* The apply thread has a record in hand.                                  *)
Inside == apc \notin {"idle", "exited"}

(* What the threads hold: the reservation of try_append, the record whose  *)
(* LSN follows committed, the LSN seal_active read, the length the writer  *)
(* read.                                                                   *)
Hand ==
  /\ apc \in {"undo", "copy"} => pos[aidx] = aold + areq.len
  /\ Inside => areq.lsn = committed + areq.len /\ areq.len > 0
  /\ wpc = "sealstore" => wlsn = committed
  /\ wpc = "write" => wend = pos[wbuf]

(* The bytes of buffer b are still to be written to the file.              *)
Unwritten(b) ==
  \/ bstate[b] \in {"ACTIVE", "SEALED"}
  \/ bstate[b] = "FLUSHING" /\ wpc \in {"read", "write"}

(* Buffer b is flushed before buffer c.                                    *)
Ahead(b, c) ==
  \/ bstate[b] = "FLUSHING" /\ bstate[c] \in {"SEALED", "ACTIVE"}
  \/ bstate[b] = "SEALED" /\ bstate[c] = "ACTIVE"
  \/ \E i, j \in 1 .. Len(queue) : queue[i] = b /\ queue[j] = c /\ i < j
  \/ IsQueued(b) /\ bstate[c] = "SEALED" /\ ~IsQueued(c)

(* The largest LSN copied into a buffer.                                   *)
Top == IF apc = "record" THEN areq.lsn ELSE committed

(* A step that copies nothing leaves the used bytes of a buffer alone or   *)
(* empties it.                                                             *)
UsedKept == bytes' = bytes /\ \A b \in Buffers : Used(b)' = Used(b) \/ Used(b)' = 0

(* No such step brings a buffer with bytes into the line of another, or    *)
(* back to be written.                                                     *)
AheadKept ==
  /\ \A b, c \in Buffers : Ahead(b, c)' => Ahead(b, c) \/ Used(c)' = 0
  /\ \A b \in Buffers : Unwritten(b)' => Unwritten(b) \/ Used(b)' = 0

(* The steps that may change the file.                                     *)
FileStep == WriteOk \/ WriteErr \/ ReclaimOk \/ ReclaimErr

(* The watermarks only grow, and which step may change the file, its       *)
(* durable length and what counts as written.                              *)
Forward ==
  /\ committed' >= committed /\ Top' >= Top
  /\ FileStep \/ UNCHANGED file
  /\ WriteOk \/ UNCHANGED written
  /\ FileStep \/ SyncOk \/ UNCHANGED <<durLen, synced>>

(* A buffer keeps its lsn_hi while it is sealed, and is sealed with the    *)
(* committed watermark.                                                    *)
HiKept ==
  \A b \in Buffers :
    \/ /\ hi'[b] = hi[b]
       /\ bstate'[b] \in {"SEALED", "FLUSHING"} => bstate[b] \in {"SEALED", "FLUSHING"}
    \/ /\ bstate[b] = "ACTIVE" /\ bstate'[b] = "SEALED"
       /\ hi'[b] = committed /\ Top = committed
    \/ bstate'[b] = "ACTIVE"

(* Every step preserves Hand.                                              *)
LEMMA HandStep ==
  ASSUME KeptApart', IInv, Ownership, Hand, [Next]_vars
  PROVE  Hand'
<1> USE LensAssumption DEF IInv, TypeOK, Records, ApplyPcs, ringVars, lsnVars, fileVars,
    ctlVars, applyVars, writerVars
<1>1. ASSUME NEW l \in Lens, Push(l) PROVE Hand'
  <2>1. wpc # "sealstore"
    BY <1>1, ApartPush DEF Sealing
  <2>2. l \in Nat /\ l > 0
    BY <1>1
  <2> QED BY <1>1, <2>1, <2>2 DEF Push, Larger, Hand, Inside
<1>2. ASSUME NEW l \in SinkLsns, Register(l) PROVE Hand'
  BY <1>2 DEF Register, Hand, Inside
<1>3. CASE AppendLoad
  BY <1>3 DEF AppendLoad, Hand, Inside
<1>4. CASE AppendCheck
  BY <1>4 DEF AppendCheck, Hand, Inside
<1>5. CASE TryAppendReserve
  <2>1. wpc = "write" => wbuf # aidx
    BY <1>5 DEF TryAppendReserve, Ownership, ActiveHolds, FlushHolds, Flushing
  <2> QED BY <1>5, <2>1 DEF TryAppendReserve, Hand, Inside
<1>6. CASE TryAppendUndo
  <2>1. wpc = "write" => wbuf # aidx
    BY <1>6 DEF TryAppendUndo, Ownership, ActiveHolds, FlushHolds, Flushing
  <2> QED BY <1>6, <2>1 DEF TryAppendUndo, Hand, Inside
<1>7. CASE TryAppendCopy
  BY <1>7 DEF TryAppendCopy, Hand, Inside
<1>8. CASE AppendRecord
  <2>1. wpc # "sealstore"
    BY <1>8 DEF AppendRecord, Ownership, Exclusive, Sealing
  <2> QED BY <1>8, <2>1 DEF AppendRecord, Hand, Inside
<1>9. CASE SealFull
  BY <1>9 DEF SealFull, SealLsn, Hand, Inside
<1>10. CASE EnqueueFull
  BY <1>10 DEF EnqueueFull, Hand, Inside
<1>11. CASE FindOrBlock
  BY <1>11 DEF FindOrBlock, Hand, Inside
<1>12. CASE ActivateNew
  <2>1. wpc = "write" => wbuf # afree
    BY <1>12 DEF ActivateNew, Ownership, ActiveHolds, FlushHolds, Flushing
  <2> QED BY <1>12, <2>1 DEF ActivateNew, Hand, Inside
<1>13. CASE SwapNew
  BY <1>13 DEF SwapNew, Hand, Inside
<1>14. CASE Wake
  BY <1>14, ApartWake DEF Wake, Hand, Inside
<1>15. CASE SealCheck
  BY <1>15 DEF SealCheck, Hand, Inside
<1>16. CASE SealRead
  BY <1>16 DEF SealRead, SealLsn, Hand, Inside
<1>17. CASE SealStore
  BY <1>17 DEF SealStore, Hand, Inside
<1>18. CASE SealEnqueue
  BY <1>18 DEF SealEnqueue, Hand, Inside
<1>19. CASE SealActivate
  <2>1. apc \in {"idle", "exited"}
    BY <1>19 DEF SealActivate, Ownership, Exclusive, Sealing
  <2> QED BY <1>19, <2>1 DEF SealActivate, Hand, Inside
<1>20. CASE SealSwap
  BY <1>20 DEF SealSwap, Hand, Inside
<1>21. CASE PopSealed
  BY <1>21 DEF PopSealed, Hand, Inside
<1>22. CASE ReadWritten
  BY <1>22 DEF ReadWritten, Hand, Inside
<1>23. CASE WriteOk
  BY <1>23 DEF WriteOk, Hand, Inside
<1>24. CASE WriteErr
  BY <1>24 DEF WriteErr, Hand, Inside
<1>25. CASE SyncOk
  BY <1>25 DEF SyncOk, Hand, Inside
<1>26. CASE SyncErr
  BY <1>26 DEF SyncErr, Hand, Inside
<1>27. CASE MarkFree
  <2>1. apc \in {"undo", "copy"} => wbuf # aidx
    BY <1>27 DEF MarkFree, Ownership, ActiveHolds, FlushHolds, Flushing
  <2> QED BY <1>27, <2>1 DEF MarkFree, Hand, Inside
<1>28. CASE NotifyFree
  BY <1>28 DEF NotifyFree, Woken, Hand, Inside
<1>29. CASE PopEmpty
  BY <1>29 DEF PopEmpty, Hand, Inside
<1>30. CASE ReclaimSkip
  BY <1>30 DEF ReclaimSkip, NextRound, Hand, Inside
<1>31. CASE ReclaimOk
  BY <1>31 DEF ReclaimOk, NextRound, Hand, Inside
<1>32. CASE ReclaimErr
  BY <1>32 DEF ReclaimErr, NextRound, Hand, Inside
<1>33. CASE Shutdown
  BY <1>33 DEF Shutdown, Hand, Inside
<1>34. ASSUME NEW c \in SnapLsns, RequestReclaim(c)
       PROVE  Hand'
  BY <1>34 DEF RequestReclaim, Hand, Inside
<1>35. CASE UNCHANGED vars
  BY <1>35 DEF vars, Hand, Inside
<1>36. CASE Stopped
  BY <1>36, <1>35 DEF Stopped
<1> QED BY <1>1, <1>2, <1>3, <1>4, <1>5, <1>6, <1>7, <1>8, <1>9, <1>10, <1>11, <1>12,
    <1>13, <1>14, <1>15, <1>16, <1>17, <1>18, <1>19, <1>20, <1>21, <1>22, <1>23, <1>24,
    <1>25, <1>26, <1>27, <1>28, <1>29, <1>30, <1>31, <1>32, <1>33, <1>34, <1>35, <1>36
  DEF Next, ApplyStep, WriterStep

(* Every step but the copy of try_append satisfies UsedKept.               *)
LEMMA UsedMoves ==
  ASSUME IInv, Ownership, Hand, [Next]_vars, ~TryAppendCopy
  PROVE  UsedKept
<1> USE DEF IInv, TypeOK, Hand, ringVars, lsnVars, fileVars, ctlVars, applyVars, writerVars
<1>1. ASSUME NEW l \in Lens, Push(l) PROVE UsedKept
  BY <1>1 DEF Push, Larger, UsedKept, Used
<1>2. ASSUME NEW l \in SinkLsns, Register(l) PROVE UsedKept
  BY <1>2 DEF Register, UsedKept, Used
<1>3. CASE AppendLoad
  BY <1>3 DEF AppendLoad, UsedKept, Used
<1>4. CASE AppendCheck
  BY <1>4 DEF AppendCheck, UsedKept, Used
<1>5. CASE TryAppendReserve
  BY <1>5 DEF TryAppendReserve, UsedKept, Used
<1>6. CASE TryAppendUndo
  BY <1>6 DEF TryAppendUndo, UsedKept, Used
<1>7. CASE TryAppendCopy
  BY <1>7 DEF TryAppendCopy, UsedKept, Used
<1>8. CASE AppendRecord
  BY <1>8 DEF AppendRecord, UsedKept, Used
<1>9. CASE SealFull
  BY <1>9 DEF SealFull, SealLsn, UsedKept, Used
<1>10. CASE EnqueueFull
  BY <1>10 DEF EnqueueFull, UsedKept, Used
<1>11. CASE FindOrBlock
  BY <1>11 DEF FindOrBlock, UsedKept, Used
<1>12. CASE ActivateNew
  BY <1>12 DEF ActivateNew, UsedKept, Used
<1>13. CASE SwapNew
  BY <1>13 DEF SwapNew, UsedKept, Used
<1>14. CASE Wake
  BY <1>14 DEF Wake, UsedKept, Used
<1>15. CASE SealCheck
  BY <1>15 DEF SealCheck, UsedKept, Used
<1>16. CASE SealRead
  BY <1>16 DEF SealRead, SealLsn, UsedKept, Used
<1>17. CASE SealStore
  BY <1>17 DEF SealStore, UsedKept, Used
<1>18. CASE SealEnqueue
  BY <1>18 DEF SealEnqueue, UsedKept, Used
<1>19. CASE SealActivate
  BY <1>19 DEF SealActivate, UsedKept, Used
<1>20. CASE SealSwap
  BY <1>20 DEF SealSwap, UsedKept, Used
<1>21. CASE PopSealed
  BY <1>21 DEF PopSealed, UsedKept, Used
<1>22. CASE ReadWritten
  BY <1>22 DEF ReadWritten, UsedKept, Used
<1>23. CASE WriteOk
  BY <1>23 DEF WriteOk, UsedKept, Used
<1>24. CASE WriteErr
  BY <1>24 DEF WriteErr, UsedKept, Used
<1>25. CASE SyncOk
  BY <1>25 DEF SyncOk, UsedKept, Used
<1>26. CASE SyncErr
  BY <1>26 DEF SyncErr, UsedKept, Used
<1>27. CASE MarkFree
  BY <1>27 DEF MarkFree, UsedKept, Used
<1>28. CASE NotifyFree
  BY <1>28 DEF NotifyFree, Woken, UsedKept, Used
<1>29. CASE PopEmpty
  BY <1>29 DEF PopEmpty, UsedKept, Used
<1>30. CASE ReclaimSkip
  BY <1>30 DEF ReclaimSkip, NextRound, UsedKept, Used
<1>31. CASE ReclaimOk
  BY <1>31 DEF ReclaimOk, NextRound, UsedKept, Used
<1>32. CASE ReclaimErr
  BY <1>32 DEF ReclaimErr, NextRound, UsedKept, Used
<1>33. CASE Shutdown
  BY <1>33 DEF Shutdown, UsedKept, Used
<1>34. ASSUME NEW c \in SnapLsns, RequestReclaim(c)
       PROVE  UsedKept
  BY <1>34 DEF RequestReclaim, UsedKept, Used
<1>35. CASE UNCHANGED vars
  BY <1>35 DEF vars, UsedKept, Used
<1>36. CASE Stopped
  BY <1>36, <1>35 DEF Stopped
<1> QED BY <1>1, <1>2, <1>3, <1>4, <1>5, <1>6, <1>7, <1>8, <1>9, <1>10, <1>11, <1>12,
    <1>13, <1>14, <1>15, <1>16, <1>17, <1>18, <1>19, <1>20, <1>21, <1>22, <1>23, <1>24,
    <1>25, <1>26, <1>27, <1>28, <1>29, <1>30, <1>31, <1>32, <1>33, <1>34, <1>35, <1>36
  DEF Next, ApplyStep, WriterStep

(* Every step satisfies AheadKept.                                         *)
LEMMA AheadMoves ==
  ASSUME OwnTypes, OwnTypes', Ownership, Ownership', [Next]_vars, UsedKept \/ TryAppendCopy
  PROVE  AheadKept
<1> USE DEF OwnTypes, ringVars, lsnVars, fileVars, ctlVars, applyVars, writerVars
<1>1. ASSUME NEW l \in Lens, Push(l) PROVE AheadKept
  BY <1>1 DEF Push, Larger, AheadKept, Ahead, Unwritten, IsQueued
<1>2. ASSUME NEW l \in SinkLsns, Register(l) PROVE AheadKept
  BY <1>2 DEF Register, AheadKept, Ahead, Unwritten, IsQueued
<1>3. CASE AppendLoad
  BY <1>3 DEF AppendLoad, AheadKept, Ahead, Unwritten, IsQueued
<1>4. CASE AppendCheck
  BY <1>4 DEF AppendCheck, AheadKept, Ahead, Unwritten, IsQueued
<1>5. CASE TryAppendReserve
  BY <1>5 DEF TryAppendReserve, AheadKept, Ahead, Unwritten, IsQueued
<1>6. CASE TryAppendUndo
  BY <1>6 DEF TryAppendUndo, AheadKept, Ahead, Unwritten, IsQueued
<1>7. CASE TryAppendCopy
  BY <1>7 DEF TryAppendCopy, AheadKept, Ahead, Unwritten, IsQueued
<1>8. CASE AppendRecord
  BY <1>8 DEF AppendRecord, AheadKept, Ahead, Unwritten, IsQueued
<1>9. CASE SealFull
  <2>0. \A b \in Buffers : b # aidx => bstate'[b] = bstate[b]
    BY <1>9 DEF SealFull

  <2>1. bstate[aidx] = "ACTIVE" /\ bstate'[aidx] = "SEALED" /\ queue' = queue
    BY <1>9 DEF SealFull, Ownership, ActiveHolds, SealHolds
  <2>2. \A b : IsQueued(b)' <=> IsQueued(b)
    BY <2>1 DEF IsQueued
  <2>3. \A b \in Buffers : IsQueued(b) => bstate[b] = "SEALED"
    BY DEF IsQueued, Ownership, QueueHolds
  <2>4. \A b \in Buffers : bstate[b] = "ACTIVE" => b = aidx
    BY <2>1 DEF Ownership, ActiveHolds
  <2>5. ASSUME NEW b \in Buffers, NEW c \in Buffers, Ahead(b, c)' PROVE Ahead(b, c)
    <3>1. c # aidx => Ahead(b, c)
      BY <2>0, <2>1, <2>2, <2>4, <2>5 DEF Ahead
    <3>2. c = aidx => Ahead(b, c)
      BY <2>0, <2>1, <2>2, <2>3, <2>4, <2>5 DEF Ahead
    <3> QED BY <3>1, <3>2
  <2>6. \A b \in Buffers : Unwritten(b)' => Unwritten(b)
    BY <1>9, <2>0, <2>1 DEF SealFull, Unwritten
  <2> QED BY <2>5, <2>6 DEF AheadKept
<1>10. CASE EnqueueFull
  <2>1. /\ bstate' = bstate /\ bstate[aidx] = "SEALED" /\ ~IsQueued(aidx)
        /\ \A b \in Buffers : bstate[b] = "SEALED" => IsQueued(b) \/ b = aidx
    BY <1>10 DEF EnqueueFull, Ownership, QueueHolds, Exclusive, Sealing
  <2>2. /\ Len(queue') = Len(queue) + 1 /\ Len(queue) \in Nat
        /\ \A i \in 1 .. Len(queue) : queue'[i] = queue[i]
        /\ queue'[Len(queue) + 1] = aidx
    BY <1>10 DEF EnqueueFull
  <2> HIDE DEF OwnTypes
  <2>3. \A i \in 1 .. Len(queue') : i \in 1 .. Len(queue) \/ i = Len(queue) + 1
    BY <2>2
  <2>4. \A b : IsQueued(b)' <=> IsQueued(b) \/ b = aidx
    BY <2>2, <2>3 DEF IsQueued
  <2>5. ASSUME NEW b \in Buffers, NEW c \in Buffers,
               NEW i \in 1 .. Len(queue'), NEW j \in 1 .. Len(queue'),
               queue'[i] = b, queue'[j] = c, i < j
        PROVE  Ahead(b, c)
    <3>1. i \in 1 .. Len(queue) /\ queue[i] = b
      BY <2>2, <2>3, <2>5
    <3>2. CASE j \in 1 .. Len(queue)
      BY <2>2, <2>5, <3>1, <3>2 DEF Ahead
    <3>3. CASE j = Len(queue) + 1
      BY <2>1, <2>2, <2>5, <3>1, <3>3 DEF Ahead, IsQueued
    <3> QED BY <2>3, <3>2, <3>3
  <2>6. \A b, c \in Buffers : Ahead(b, c)' => Ahead(b, c)
    BY <2>1, <2>4, <2>5 DEF Ahead
  <2>7. \A b \in Buffers : Unwritten(b)' => Unwritten(b)
    BY <1>10, <2>1 DEF EnqueueFull, Unwritten
  <2> QED BY <2>6, <2>7 DEF AheadKept
<1>11. CASE FindOrBlock
  BY <1>11 DEF FindOrBlock, AheadKept, Ahead, Unwritten, IsQueued
<1>12. CASE ActivateNew
  <2>0. \A b \in Buffers : b # afree => bstate'[b] = bstate[b]
    BY <1>12 DEF ActivateNew

  <2>1. /\ bstate[afree] = "FREE" /\ bstate'[afree] = "ACTIVE" /\ queue' = queue
        /\ pos'[afree] = 0 /\ apc' \notin {"undo", "copy"}
    BY <1>12, NBufAssumption DEF ActivateNew, Ownership, ActiveHolds, SealHolds,
        Exclusive, Sealing,
                               NoBuf, Buffers
  <2>2. \A b : IsQueued(b)' <=> IsQueued(b)
    BY <2>1 DEF IsQueued
  <2>3. \A b, c \in Buffers : c # afree /\ Ahead(b, c)' => Ahead(b, c)
    BY <2>0, <2>1, <2>2 DEF Ahead
  <2>4. \A b \in Buffers : b # afree /\ Unwritten(b)' => Unwritten(b)
    BY <1>12, <2>0 DEF ActivateNew, Unwritten
  <2>5. \A b \in Buffers : b = afree => Used(b)' = 0
    BY <2>1 DEF Used
  <2> QED BY <2>3, <2>4, <2>5 DEF AheadKept
<1>13. CASE SwapNew
  BY <1>13 DEF SwapNew, AheadKept, Ahead, Unwritten, IsQueued
<1>14. CASE Wake
  BY <1>14 DEF Wake, AheadKept, Ahead, Unwritten, IsQueued
<1>15. CASE SealCheck
  BY <1>15 DEF SealCheck, AheadKept, Ahead, Unwritten, IsQueued
<1>16. CASE SealRead
  BY <1>16 DEF SealRead, SealLsn, AheadKept, Ahead, Unwritten, IsQueued
<1>17. CASE SealStore
  <2>0. \A b \in Buffers : b # wbuf => bstate'[b] = bstate[b]
    BY <1>17 DEF SealStore

  <2>1. bstate[wbuf] = "ACTIVE" /\ bstate'[wbuf] = "SEALED" /\ queue' = queue
    BY <1>17 DEF SealStore, Ownership, ActiveHolds, SealHolds
  <2>2. \A b : IsQueued(b)' <=> IsQueued(b)
    BY <2>1 DEF IsQueued
  <2>3. \A b \in Buffers : IsQueued(b) => bstate[b] = "SEALED"
    BY DEF IsQueued, Ownership, QueueHolds
  <2>4. \A b \in Buffers : bstate[b] = "ACTIVE" => b = wbuf
    BY <2>1 DEF Ownership, ActiveHolds
  <2>5. ASSUME NEW b \in Buffers, NEW c \in Buffers, Ahead(b, c)' PROVE Ahead(b, c)
    <3>1. c # wbuf => Ahead(b, c)
      BY <2>0, <2>1, <2>2, <2>4, <2>5 DEF Ahead
    <3>2. c = wbuf => Ahead(b, c)
      BY <2>0, <2>1, <2>2, <2>3, <2>4, <2>5 DEF Ahead
    <3> QED BY <3>1, <3>2
  <2>6. \A b \in Buffers : Unwritten(b)' => Unwritten(b)
    BY <1>17, <2>0, <2>1 DEF SealStore, Unwritten
  <2> QED BY <2>5, <2>6 DEF AheadKept
<1>18. CASE SealEnqueue
  <2>1. /\ bstate' = bstate /\ bstate[wbuf] = "SEALED" /\ ~IsQueued(wbuf)
        /\ \A b \in Buffers : bstate[b] = "SEALED" => IsQueued(b) \/ b = wbuf
    BY <1>18 DEF SealEnqueue, Ownership, QueueHolds, Exclusive, Sealing
  <2>2. /\ Len(queue') = Len(queue) + 1 /\ Len(queue) \in Nat
        /\ \A i \in 1 .. Len(queue) : queue'[i] = queue[i]
        /\ queue'[Len(queue) + 1] = wbuf
    BY <1>18 DEF SealEnqueue
  <2> HIDE DEF OwnTypes
  <2>3. \A i \in 1 .. Len(queue') : i \in 1 .. Len(queue) \/ i = Len(queue) + 1
    BY <2>2
  <2>4. \A b : IsQueued(b)' <=> IsQueued(b) \/ b = wbuf
    BY <2>2, <2>3 DEF IsQueued
  <2>5. ASSUME NEW b \in Buffers, NEW c \in Buffers,
               NEW i \in 1 .. Len(queue'), NEW j \in 1 .. Len(queue'),
               queue'[i] = b, queue'[j] = c, i < j
        PROVE  Ahead(b, c)
    <3>1. i \in 1 .. Len(queue) /\ queue[i] = b
      BY <2>2, <2>3, <2>5
    <3>2. CASE j \in 1 .. Len(queue)
      BY <2>2, <2>5, <3>1, <3>2 DEF Ahead
    <3>3. CASE j = Len(queue) + 1
      BY <2>1, <2>2, <2>5, <3>1, <3>3 DEF Ahead, IsQueued
    <3> QED BY <2>3, <3>2, <3>3
  <2>6. \A b, c \in Buffers : Ahead(b, c)' => Ahead(b, c)
    BY <2>1, <2>4, <2>5 DEF Ahead
  <2>7. \A b \in Buffers : Unwritten(b)' => Unwritten(b)
    BY <1>18, <2>1 DEF SealEnqueue, Unwritten
  <2> QED BY <2>6, <2>7 DEF AheadKept
<1>19. CASE SealActivate
  <2>0. \A b \in Buffers : b # wfree => bstate'[b] = bstate[b]
    BY <1>19 DEF SealActivate

  <2>1. /\ bstate[wfree] = "FREE" /\ bstate'[wfree] = "ACTIVE" /\ queue' = queue
        /\ pos'[wfree] = 0 /\ apc' \notin {"undo", "copy"}
    BY <1>19, NBufAssumption DEF SealActivate, Ownership, ActiveHolds, SealHolds,
        Exclusive, Sealing,
                               NoBuf, Buffers
  <2>2. \A b : IsQueued(b)' <=> IsQueued(b)
    BY <2>1 DEF IsQueued
  <2>3. \A b, c \in Buffers : c # wfree /\ Ahead(b, c)' => Ahead(b, c)
    BY <2>0, <2>1, <2>2 DEF Ahead
  <2>4. \A b \in Buffers : b # wfree /\ Unwritten(b)' => Unwritten(b)
    BY <1>19, <2>0 DEF SealActivate, Unwritten
  <2>5. \A b \in Buffers : b = wfree => Used(b)' = 0
    BY <2>1 DEF Used
  <2> QED BY <2>3, <2>4, <2>5 DEF AheadKept
<1>20. CASE SealSwap
  BY <1>20 DEF SealSwap, AheadKept, Ahead, Unwritten, IsQueued
<1>21. CASE PopSealed
  <2>0. queue \in Seq(Buffers) /\ queue # <<>> /\ QueueHolds /\ FlushHolds /\ wpc = "pop"
    BY <1>21 DEF PopSealed, Ownership
  <2>1. /\ Len(queue) \in Nat /\ Len(queue) >= 1 /\ Len(queue') = Len(queue) - 1
        /\ \A i \in 1 .. Len(queue) - 1 : queue'[i] = queue[i + 1]
        /\ Head(queue) = queue[1] /\ \A i \in 1 .. Len(queue) : queue[i] \in Buffers
    BY <1>21, <2>0 DEF PopSealed
  <2>2. bstate[queue[1]] = "SEALED" /\ queue[1] \in Buffers
    BY <2>0, <2>1 DEF QueueHolds
  <2>3. bstate' = [bstate EXCEPT ![queue[1]] = "FLUSHING"]
    BY <1>21, <2>1 DEF PopSealed
  <2>4. bstate'[queue[1]] = "FLUSHING" /\ \A b \in Buffers : b # queue[1] => bstate'[b] = bstate[b]
    BY <2>2, <2>3
  <2>5. \A b \in Buffers : bstate[b] # "FLUSHING"
    BY <2>0 DEF FlushHolds, Flushing
  <2>6. wpc' = "read"
    BY <1>21 DEF PopSealed
  <2> HIDE DEF OwnTypes
  <2>7. \A i \in 1 .. Len(queue') : i + 1 \in 1 .. Len(queue) /\ queue'[i] = queue[i + 1]
    BY <2>1
  <2>8. \A i \in 1 .. Len(queue) : i # 1 => i - 1 \in 1 .. Len(queue') /\ queue'[i - 1] = queue[i]
    BY <2>1
  <2>9. \A b : IsQueued(b)' => IsQueued(b)
    BY <2>7 DEF IsQueued
  <2>10. \A b : IsQueued(b) /\ b # queue[1] => IsQueued(b)'
    BY <2>8 DEF IsQueued
  <2>11. IsQueued(queue[1])
    BY <2>1 DEF IsQueued
  <2>12. \A c \in Buffers : bstate[c] = "SEALED" /\ c # queue[1] => Ahead(queue[1], c)
    <3> SUFFICES ASSUME NEW c \in Buffers, bstate[c] = "SEALED", c # queue[1]
                 PROVE  Ahead(queue[1], c)
      OBVIOUS
    <3>1. CASE IsQueued(c)
      <4>1. PICK j \in 1 .. Len(queue) : queue[j] = c
        BY <3>1 DEF IsQueued
      <4>2. 1 \in 1 .. Len(queue) /\ 1 < j
        BY <2>1, <4>1
      <4> QED BY <4>1, <4>2 DEF Ahead
    <3>2. CASE ~IsQueued(c)
      BY <2>11, <3>2 DEF Ahead
    <3> QED BY <3>1, <3>2
  <2>13. ASSUME NEW b \in Buffers, NEW c \in Buffers, Ahead(b, c)' PROVE Ahead(b, c)
    <3>1. CASE bstate'[b] = "FLUSHING" /\ bstate'[c] \in {"SEALED", "ACTIVE"}
      <4>1. b = queue[1] /\ c # queue[1] /\ bstate[c] \in {"SEALED", "ACTIVE"}
        BY <2>4, <2>5, <3>1
      <4> QED BY <2>2, <2>12, <4>1 DEF Ahead
    <3>2. CASE bstate'[b] = "SEALED" /\ bstate'[c] = "ACTIVE"
      BY <2>2, <2>4, <3>2 DEF Ahead
    <3>3. CASE \E i, j \in 1 .. Len(queue') : queue'[i] = b /\ queue'[j] = c /\ i < j
      <4>1. PICK i \in 1 .. Len(queue'), j \in 1 .. Len(queue') :
              queue'[i] = b /\ queue'[j] = c /\ i < j
        BY <3>3
      <4>2. /\ i + 1 \in 1 .. Len(queue) /\ queue[i + 1] = b
            /\ j + 1 \in 1 .. Len(queue) /\ queue[j + 1] = c /\ i + 1 < j + 1
        BY <2>1, <2>7, <4>1
      <4> QED BY <4>2 DEF Ahead
    <3>4. CASE IsQueued(b)' /\ bstate'[c] = "SEALED" /\ ~IsQueued(c)'
      <4>1. IsQueued(b) /\ c # queue[1] /\ bstate[c] = "SEALED"
        BY <2>4, <2>9, <3>4
      <4>2. ~IsQueued(c)
        BY <2>10, <3>4, <4>1
      <4> QED BY <4>1, <4>2 DEF Ahead
    <3> QED BY <2>13, <3>1, <3>2, <3>3, <3>4 DEF Ahead
  <2>14. \A b \in Buffers : Unwritten(b)' => Unwritten(b)
    BY <2>2, <2>4, <2>5 DEF Unwritten
  <2> QED BY <2>13, <2>14 DEF AheadKept
<1>22. CASE ReadWritten
  BY <1>22 DEF ReadWritten, AheadKept, Ahead, Unwritten, IsQueued
<1>23. CASE WriteOk
  BY <1>23 DEF WriteOk, AheadKept, Ahead, Unwritten, IsQueued
<1>24. CASE WriteErr
  BY <1>24 DEF WriteErr, AheadKept, Ahead, Unwritten, IsQueued
<1>25. CASE SyncOk
  BY <1>25 DEF SyncOk, AheadKept, Ahead, Unwritten, IsQueued
<1>26. CASE SyncErr
  BY <1>26 DEF SyncErr, AheadKept, Ahead, Unwritten, IsQueued
<1>27. CASE MarkFree
  BY <1>27 DEF MarkFree, AheadKept, Ahead, Unwritten, IsQueued
<1>28. CASE NotifyFree
  BY <1>28 DEF NotifyFree, Woken, AheadKept, Ahead, Unwritten, IsQueued
<1>29. CASE PopEmpty
  BY <1>29 DEF PopEmpty, AheadKept, Ahead, Unwritten, IsQueued
<1>30. CASE ReclaimSkip
  BY <1>30 DEF ReclaimSkip, NextRound, AheadKept, Ahead, Unwritten, IsQueued
<1>31. CASE ReclaimOk
  BY <1>31 DEF ReclaimOk, NextRound, AheadKept, Ahead, Unwritten, IsQueued
<1>32. CASE ReclaimErr
  BY <1>32 DEF ReclaimErr, NextRound, AheadKept, Ahead, Unwritten, IsQueued
<1>33. CASE Shutdown
  BY <1>33 DEF Shutdown, AheadKept, Ahead, Unwritten, IsQueued
<1>34. ASSUME NEW c \in SnapLsns, RequestReclaim(c)
       PROVE  AheadKept
  BY <1>34 DEF RequestReclaim, AheadKept, Ahead, Unwritten, IsQueued
<1>35. CASE UNCHANGED vars
  BY <1>35 DEF vars, AheadKept, Ahead, Unwritten, IsQueued
<1>36. CASE Stopped
  BY <1>36, <1>35 DEF Stopped
<1> QED BY <1>1, <1>2, <1>3, <1>4, <1>5, <1>6, <1>7, <1>8, <1>9, <1>10, <1>11, <1>12,
    <1>13, <1>14, <1>15, <1>16, <1>17, <1>18, <1>19, <1>20, <1>21, <1>22, <1>23, <1>24,
    <1>25, <1>26, <1>27, <1>28, <1>29, <1>30, <1>31, <1>32, <1>33, <1>34, <1>35, <1>36
  DEF Next, ApplyStep, WriterStep

(* Every step satisfies Forward.                                           *)
LEMMA ForwardMoves ==
  ASSUME IInv, Hand, [Next]_vars
  PROVE  Forward
<1> USE LensAssumption DEF IInv, TypeOK, Records, Hand, Inside, ringVars, lsnVars,
    fileVars, ctlVars, applyVars, writerVars
<1>1. ASSUME NEW l \in Lens, Push(l) PROVE Forward
  BY <1>1 DEF Push, Larger, Forward, Top, FileStep
<1>2. ASSUME NEW l \in SinkLsns, Register(l) PROVE Forward
  BY <1>2 DEF Register, Forward, Top, FileStep
<1>3. CASE AppendLoad
  BY <1>3 DEF AppendLoad, Forward, Top, FileStep
<1>4. CASE AppendCheck
  BY <1>4 DEF AppendCheck, Forward, Top, FileStep
<1>5. CASE TryAppendReserve
  BY <1>5 DEF TryAppendReserve, Forward, Top, FileStep
<1>6. CASE TryAppendUndo
  BY <1>6 DEF TryAppendUndo, Forward, Top, FileStep
<1>7. CASE TryAppendCopy
  BY <1>7 DEF TryAppendCopy, Forward, Top, FileStep
<1>8. CASE AppendRecord
  BY <1>8 DEF AppendRecord, Forward, Top, FileStep
<1>9. CASE SealFull
  BY <1>9 DEF SealFull, SealLsn, Forward, Top, FileStep
<1>10. CASE EnqueueFull
  BY <1>10 DEF EnqueueFull, Forward, Top, FileStep
<1>11. CASE FindOrBlock
  BY <1>11 DEF FindOrBlock, Forward, Top, FileStep
<1>12. CASE ActivateNew
  BY <1>12 DEF ActivateNew, Forward, Top, FileStep
<1>13. CASE SwapNew
  BY <1>13 DEF SwapNew, Forward, Top, FileStep
<1>14. CASE Wake
  <2>1. UNCHANGED <<lsnVars, fileVars, applyVars>>
    BY <1>14 DEF Wake
  <2> QED BY <2>1 DEF Forward, Top
<1>15. CASE SealCheck
  BY <1>15 DEF SealCheck, Forward, Top, FileStep
<1>16. CASE SealRead
  BY <1>16 DEF SealRead, SealLsn, Forward, Top, FileStep
<1>17. CASE SealStore
  BY <1>17 DEF SealStore, Forward, Top, FileStep
<1>18. CASE SealEnqueue
  BY <1>18 DEF SealEnqueue, Forward, Top, FileStep
<1>19. CASE SealActivate
  BY <1>19 DEF SealActivate, Forward, Top, FileStep
<1>20. CASE SealSwap
  BY <1>20 DEF SealSwap, Forward, Top, FileStep
<1>21. CASE PopSealed
  BY <1>21 DEF PopSealed, Forward, Top, FileStep
<1>22. CASE ReadWritten
  <2>1. UNCHANGED <<lsnVars, fileVars, applyVars>>
    BY <1>22 DEF ReadWritten
  <2> QED BY <2>1 DEF Forward, Top
<1>23. CASE WriteOk
  BY <1>23 DEF WriteOk, Forward, Top, FileStep
<1>24. CASE WriteErr
  <2>1. UNCHANGED <<lsnVars, applyVars>>
    BY <1>24 DEF WriteErr
  <2>2. FileStep
    BY <1>24 DEF FileStep
  <2> QED BY <2>1, <2>2 DEF Forward, Top
<1>25. CASE SyncOk
  BY <1>25 DEF SyncOk, Forward, Top, FileStep
<1>26. CASE SyncErr
  BY <1>26 DEF SyncErr, Forward, Top, FileStep
<1>27. CASE MarkFree
  BY <1>27 DEF MarkFree, Forward, Top, FileStep
<1>28. CASE NotifyFree
  BY <1>28 DEF NotifyFree, Woken, Forward, Top, FileStep
<1>29. CASE PopEmpty
  BY <1>29 DEF PopEmpty, Forward, Top, FileStep
<1>30. CASE ReclaimSkip
  BY <1>30 DEF ReclaimSkip, NextRound, Forward, Top, FileStep
<1>31. CASE ReclaimOk
  BY <1>31 DEF ReclaimOk, NextRound, Forward, Top, FileStep
<1>32. CASE ReclaimErr
  BY <1>32 DEF ReclaimErr, NextRound, Forward, Top, FileStep
<1>33. CASE Shutdown
  BY <1>33 DEF Shutdown, Forward, Top, FileStep
<1>34. ASSUME NEW c \in SnapLsns, RequestReclaim(c)
       PROVE  Forward
  BY <1>34 DEF RequestReclaim, Forward, Top, FileStep
<1>35. CASE UNCHANGED vars
  BY <1>35 DEF vars, Forward, Top, FileStep
<1>36. CASE Stopped
  BY <1>36, <1>35 DEF Stopped
<1> QED BY <1>1, <1>2, <1>3, <1>4, <1>5, <1>6, <1>7, <1>8, <1>9, <1>10, <1>11, <1>12,
    <1>13, <1>14, <1>15, <1>16, <1>17, <1>18, <1>19, <1>20, <1>21, <1>22, <1>23, <1>24,
    <1>25, <1>26, <1>27, <1>28, <1>29, <1>30, <1>31, <1>32, <1>33, <1>34, <1>35, <1>36
  DEF Next, ApplyStep, WriterStep

(* Every step satisfies HiKept.                                            *)
LEMMA HiMoves ==
  ASSUME IInv, Ownership, Hand, [Next]_vars
  PROVE  HiKept
<1> USE DEF IInv, TypeOK, ringVars, lsnVars, fileVars, ctlVars, applyVars, writerVars
<1>1. ASSUME NEW l \in Lens, Push(l) PROVE HiKept
  BY <1>1 DEF Push, Larger, HiKept, Top
<1>2. ASSUME NEW l \in SinkLsns, Register(l) PROVE HiKept
  BY <1>2 DEF Register, HiKept, Top
<1>3. CASE AppendLoad
  BY <1>3 DEF AppendLoad, HiKept, Top
<1>4. CASE AppendCheck
  BY <1>4 DEF AppendCheck, HiKept, Top
<1>5. CASE TryAppendReserve
  BY <1>5 DEF TryAppendReserve, HiKept, Top
<1>6. CASE TryAppendUndo
  BY <1>6 DEF TryAppendUndo, HiKept, Top
<1>7. CASE TryAppendCopy
  BY <1>7 DEF TryAppendCopy, HiKept, Top
<1>8. CASE AppendRecord
  BY <1>8 DEF AppendRecord, HiKept, Top
<1>9. CASE SealFull
  BY <1>9 DEF SealFull, SealLsn, HiKept, Top, Ownership, ActiveHolds
<1>10. CASE EnqueueFull
  BY <1>10 DEF EnqueueFull, HiKept, Top
<1>11. CASE FindOrBlock
  BY <1>11 DEF FindOrBlock, HiKept, Top
<1>12. CASE ActivateNew
  BY <1>12 DEF ActivateNew, HiKept, Top
<1>13. CASE SwapNew
  BY <1>13 DEF SwapNew, HiKept, Top
<1>14. CASE Wake
  BY <1>14 DEF Wake, HiKept, Top
<1>15. CASE SealCheck
  BY <1>15 DEF SealCheck, HiKept, Top
<1>16. CASE SealRead
  BY <1>16 DEF SealRead, SealLsn, HiKept, Top
<1>17. CASE SealStore
  BY <1>17 DEF SealStore, HiKept, Top, Ownership, SealHolds, Exclusive, Sealing, Hand
<1>18. CASE SealEnqueue
  BY <1>18 DEF SealEnqueue, HiKept, Top
<1>19. CASE SealActivate
  BY <1>19 DEF SealActivate, HiKept, Top
<1>20. CASE SealSwap
  BY <1>20 DEF SealSwap, HiKept, Top
<1>21. CASE PopSealed
  <2>1. Head(queue) \in Buffers /\ bstate[Head(queue)] = "SEALED"
    BY <1>21 DEF PopSealed, Ownership, QueueHolds
  <2> QED BY <1>21, <2>1 DEF PopSealed, HiKept
<1>22. CASE ReadWritten
  BY <1>22 DEF ReadWritten, HiKept, Top
<1>23. CASE WriteOk
  BY <1>23 DEF WriteOk, HiKept, Top
<1>24. CASE WriteErr
  BY <1>24 DEF WriteErr, HiKept, Top
<1>25. CASE SyncOk
  BY <1>25 DEF SyncOk, HiKept, Top
<1>26. CASE SyncErr
  BY <1>26 DEF SyncErr, HiKept, Top
<1>27. CASE MarkFree
  BY <1>27 DEF MarkFree, HiKept, Top
<1>28. CASE NotifyFree
  BY <1>28 DEF NotifyFree, Woken, HiKept, Top
<1>29. CASE PopEmpty
  BY <1>29 DEF PopEmpty, HiKept, Top
<1>30. CASE ReclaimSkip
  BY <1>30 DEF ReclaimSkip, NextRound, HiKept, Top
<1>31. CASE ReclaimOk
  BY <1>31 DEF ReclaimOk, NextRound, HiKept, Top
<1>32. CASE ReclaimErr
  BY <1>32 DEF ReclaimErr, NextRound, HiKept, Top
<1>33. CASE Shutdown
  BY <1>33 DEF Shutdown, HiKept, Top
<1>34. ASSUME NEW c \in SnapLsns, RequestReclaim(c)
       PROVE  HiKept
  BY <1>34 DEF RequestReclaim, HiKept, Top
<1>35. CASE UNCHANGED vars
  BY <1>35 DEF vars, HiKept, Top
<1>36. CASE Stopped
  BY <1>36, <1>35 DEF Stopped
<1> QED BY <1>1, <1>2, <1>3, <1>4, <1>5, <1>6, <1>7, <1>8, <1>9, <1>10, <1>11, <1>12,
    <1>13, <1>14, <1>15, <1>16, <1>17, <1>18, <1>19, <1>20, <1>21, <1>22, <1>23, <1>24,
    <1>25, <1>26, <1>27, <1>28, <1>29, <1>30, <1>31, <1>32, <1>33, <1>34, <1>35, <1>36
  DEF Next, ApplyStep, WriterStep

-----------------------------------------------------------------------------
(* The LSN order of the bytes in the buffers and in the file.              *)

(* The used bytes of a buffer are in LSN order, none past Top.             *)
InBuffers ==
  \A b \in Buffers :
    /\ \A i, j \in 1 .. Used(b) : i < j => bytes[b][i] < bytes[b][j]
    /\ \A i \in 1 .. Used(b) : bytes[b][i] <= Top

(* The file holds LSNs in order, none past committed; the bytes that are   *)
(* not yet durable are past the synced watermark.                          *)
InFile ==
  /\ file \in Seq(Nat) /\ durLen \in Nat /\ durLen <= Len(file)
  /\ InLsnOrder
  /\ \A i \in 1 .. Len(file) : file[i] <= committed
  /\ \A i \in durLen + 1 .. Len(file) : file[i] > synced

(* Bytes of a buffer flushed earlier precede those of one flushed later,   *)
(* and the bytes of the file precede those still to be written.            *)
InLine ==
  /\ \A b, c \in Buffers : Ahead(b, c) =>
       \A i \in 1 .. Used(b), j \in 1 .. Used(c) : bytes[b][i] < bytes[c][j]
  /\ \A b \in Buffers : Unwritten(b) =>
       \A i \in 1 .. Len(file), j \in 1 .. Used(b) : file[i] < bytes[b][j]

(* lsn_hi covers the bytes of a sealed buffer and none of a buffer flushed *)
(* later; the written watermark covers no byte still to be written.        *)
Stamped ==
  /\ \A b \in Buffers : bstate[b] \in {"SEALED", "FLUSHING"} =>
       \A i \in 1 .. Used(b) : bytes[b][i] <= hi[b]
  /\ \A b, c \in Buffers : Ahead(b, c) => \A j \in 1 .. Used(c) : hi[b] < bytes[c][j]
  /\ \A b \in Buffers : Unwritten(b) => \A j \in 1 .. Used(b) : written < bytes[b][j]

(* The order invariant.                                                    *)
Ordered == InBuffers /\ InFile /\ InLine /\ Stamped

(* The used bytes lie inside the buffer.                                   *)
LEMMA UsedInCap ==
  ASSUME IInv, Ownership, Hand
  PROVE  \A b \in Buffers : /\ Used(b) \in Nat /\ Used(b) <= Cap
                            /\ \A i \in 1 .. Used(b) : i \in 1 .. Cap /\ bytes[b][i] \in Nat
<1> SUFFICES ASSUME NEW b \in Buffers
             PROVE  /\ Used(b) \in Nat /\ Used(b) <= Cap
                    /\ \A i \in 1 .. Used(b) : i \in 1 .. Cap /\ bytes[b][i] \in Nat
  OBVIOUS
<1>1. /\ pos[b] \in Nat /\ aold \in Nat /\ areq.len \in Nat /\ bytes[b] \in [1 .. Cap -> Nat]
      /\ Cap \in Nat
  BY CapAssumption DEF IInv, TypeOK, Records
<1>2. pos[b] <= Cap \/ (apc = "undo" /\ b = aidx)
  BY DEF Ownership, FlushHolds
<1>3. apc = "undo" => aold <= Cap
  BY DEF Ownership, FlushHolds
<1>4. apc = "copy" /\ b = aidx => aold <= Cap
  BY <1>1, <1>2 DEF Hand
<1>5. Used(b) \in Nat /\ Used(b) <= Cap
  BY <1>1, <1>2, <1>3, <1>4 DEF Used
<1> QED BY <1>1, <1>5

(* A buffer ahead of another is sealed or being flushed ...                *)
LEMMA NotAhead ==
  ASSUME Ownership, NEW b \in Buffers, NEW c \in Buffers, Ahead(b, c)
  PROVE  bstate[b] \in {"SEALED", "FLUSHING"}
BY DEF Ownership, QueueHolds, Ahead, IsQueued

(* ... also after the step.                                                *)
LEMMA NotAheadNext ==
  ASSUME Ownership', NEW b \in Buffers, NEW c \in Buffers, Ahead(b, c)'
  PROVE  bstate'[b] \in {"SEALED", "FLUSHING"}
BY DEF Ownership, QueueHolds, Ahead, IsQueued

(* The copy of try_append preserves the order: it puts the bytes after     *)
(* committed behind everything else.                                       *)
LEMMA CopyOrdered ==
  ASSUME IInv, IInv', Ownership, Ownership', Hand, Ordered, TryAppendCopy
  PROVE  Ordered'
<1> USE DEF TryAppendCopy, ringVars, lsnVars, fileVars, ctlVars, applyVars, writerVars
<1>1. /\ apc = "copy" /\ apc' = "record" /\ aidx' = aidx /\ pos' = pos /\ areq' = areq
      /\ bstate' = bstate /\ queue' = queue /\ wpc' = wpc /\ hi' = hi
      /\ file' = file /\ durLen' = durLen
      /\ committed' = committed /\ written' = written /\ synced' = synced
  OBVIOUS
<1>2. /\ aidx \in Buffers /\ aold \in Nat /\ areq.len \in Nat /\ areq.lsn \in Nat
      /\ committed \in Nat /\ written \in Nat /\ pos[aidx] \in Nat
      /\ bytes \in [Buffers -> [1 .. Cap -> Nat]] /\ hi \in [Buffers -> Nat]
      /\ \A b \in Buffers : hi[b] <= committed
      /\ written <= committed
  BY DEF IInv, TypeOK, Records, WatermarkOrder
<1>3. /\ pos[aidx] = aold + areq.len /\ areq.lsn = committed + areq.len
      /\ pos[aidx] <= Cap /\ bstate[aidx] = "ACTIVE"
  BY <1>1, <1>2 DEF Hand, Inside, Ownership, FlushHolds, ActiveHolds
<1>4. Used(aidx) = aold /\ \A b \in Buffers : b = aidx => Used(b)' = aold + areq.len
  BY <1>1, <1>3 DEF Used
<1>5. \A b \in Buffers : b # aidx => Used(b)' = Used(b) /\ bytes'[b] = bytes[b]
  BY <1>1, <1>2 DEF Used
<1>6. \A i \in 1 .. aold : bytes'[aidx][i] = bytes[aidx][i]
  BY <1>2, <1>3, CapAssumption
<1>7. ASSUME NEW i \in aold + 1 .. aold + areq.len
      PROVE  bytes'[aidx][i] = committed + (i - aold)
  <2>1. i \in 1 .. Cap /\ i \in Int
    BY <1>2, <1>3, CapAssumption
  <2>2. bytes'[aidx][i] = areq.lsn - areq.len + (i - aold)
    BY <1>2, <2>1
  <2> QED BY <1>2, <1>3, <2>1, <2>2
<1>8. \A i \in 1 .. aold + areq.len : i \in 1 .. aold \/ i \in aold + 1 .. aold + areq.len
  BY <1>2
<1>9. \A i \in aold + 1 .. aold + areq.len :
        bytes'[aidx][i] > committed /\ bytes'[aidx][i] <= areq.lsn /\ bytes'[aidx][i] \in Nat
  <2> SUFFICES ASSUME NEW i \in aold + 1 .. aold + areq.len
               PROVE  /\ bytes'[aidx][i] > committed /\ bytes'[aidx][i] <= areq.lsn
                      /\ bytes'[aidx][i] \in Nat
    OBVIOUS
  <2>1. i \in Int /\ i > aold /\ i <= aold + areq.len
    BY <1>2
  <2>2. bytes'[aidx][i] = committed + (i - aold)
    BY <1>7
  <2> QED BY <1>2, <1>3, <2>1, <2>2
<1>10. Top = committed /\ Top' = areq.lsn
  BY <1>1 DEF Top
<1>11. \A b \in Buffers : \A i \in 1 .. Used(b) : bytes[b][i] <= committed /\ bytes[b][i] \in Nat
  BY <1>10, UsedInCap DEF Ordered, InBuffers
<1>12. \A b, c \in Buffers : Ahead(b, c)' <=> Ahead(b, c)
  BY <1>1 DEF Ahead, IsQueued
<1>13. \A b \in Buffers : Unwritten(b)' <=> Unwritten(b)
  BY <1>1 DEF Unwritten
<1> HIDE DEF TryAppendCopy, ringVars, lsnVars, fileVars, ctlVars, applyVars, writerVars
<1>14. InBuffers'
  <2>1. ASSUME NEW i \in 1 .. aold + areq.len, NEW j \in 1 .. aold + areq.len, i < j
        PROVE  bytes'[aidx][i] < bytes'[aidx][j]
    <3>1. CASE j \in 1 .. aold
      <4>1. i \in 1 .. aold
        BY <1>2, <2>1, <3>1
      <4> QED BY <1>2, <1>4, <1>6, <2>1, <3>1, <4>1 DEF Ordered, InBuffers
    <3>2. CASE i \in 1 .. aold /\ j \in aold + 1 .. aold + areq.len
      BY <1>2, <1>4, <1>6, <1>9, <1>11, <3>2
    <3>3. CASE i \in aold + 1 .. aold + areq.len /\ j \in aold + 1 .. aold + areq.len
      <4>1. bytes'[aidx][i] = committed + (i - aold) /\ bytes'[aidx][j] = committed + (j - aold)
        BY <1>7, <3>3
      <4>2. i \in Int /\ j \in Int
        BY <1>2
      <4> QED BY <1>2, <2>1, <4>1, <4>2
    <3> QED BY <1>2, <1>8, <2>1, <3>1, <3>2, <3>3
  <2>2. ASSUME NEW i \in 1 .. aold + areq.len PROVE bytes'[aidx][i] <= areq.lsn
    <3>1. CASE i \in 1 .. aold
      <4>1. bytes'[aidx][i] <= committed /\ bytes'[aidx][i] \in Nat
        BY <1>2, <1>4, <1>6, <1>11, <3>1
      <4> QED BY <1>2, <1>3, <4>1
    <3> QED BY <1>8, <1>9, <3>1
  <2>3. ASSUME NEW b \in Buffers, b # aidx, NEW i \in 1 .. Used(b)
        PROVE  bytes[b][i] <= areq.lsn
    BY <1>2, <1>3, <1>11
  <2>4. ASSUME NEW b \in Buffers
        PROVE  /\ \A i, j \in 1 .. Used(b)' : i < j => bytes'[b][i] < bytes'[b][j]
               /\ \A i \in 1 .. Used(b)' : bytes'[b][i] <= Top'
    <3>1. CASE b = aidx
      BY <1>4, <1>10, <2>1, <2>2, <3>1
    <3>2. CASE b # aidx
      BY <1>5, <1>10, <2>3, <3>2 DEF Ordered, InBuffers
    <3> QED BY <3>1, <3>2
  <2> QED BY <2>4 DEF InBuffers
<1>15. InFile'
  BY <1>1 DEF Ordered, InFile, InLsnOrder
<1>16. \A b, c \in Buffers : Ahead(b, c) => b # aidx
  BY <1>3, NotAhead
<1>17. InLine'
  <2>1. ASSUME NEW b \in Buffers, NEW c \in Buffers, Ahead(b, c),
               NEW i \in 1 .. Used(b)', NEW j \in 1 .. Used(c)'
        PROVE  bytes'[b][i] < bytes'[c][j]
    <3>1. b # aidx /\ Used(b)' = Used(b) /\ bytes'[b] = bytes[b]
      BY <1>5, <1>16, <2>1
    <3>2. CASE c # aidx
      BY <1>5, <2>1, <3>1, <3>2 DEF Ordered, InLine
    <3>3. CASE c = aidx /\ j \in 1 .. aold
      BY <1>4, <1>6, <2>1, <3>1, <3>3 DEF Ordered, InLine
    <3>4. CASE c = aidx /\ j \in aold + 1 .. aold + areq.len
      BY <1>2, <1>9, <1>11, <3>1, <3>4
    <3> QED BY <1>4, <1>8, <3>2, <3>3, <3>4
  <2>2. ASSUME NEW b \in Buffers, Unwritten(b), NEW i \in 1 .. Len(file), NEW j \in 1 .. Used(b)'
        PROVE  file[i] < bytes'[b][j]
    <3>1. CASE b # aidx
      BY <1>5, <2>2, <3>1 DEF Ordered, InLine
    <3>2. CASE b = aidx /\ j \in 1 .. aold
      BY <1>4, <1>6, <2>2, <3>2 DEF Ordered, InLine
    <3>3. CASE b = aidx /\ j \in aold + 1 .. aold + areq.len
      <4>1. file[i] <= committed /\ file[i] \in Nat
        BY DEF Ordered, InFile
      <4>2. bytes'[b][j] > committed /\ bytes'[b][j] \in Nat
        BY <1>9, <3>3
      <4> QED BY <1>2, <4>1, <4>2
    <3> QED BY <1>4, <1>8, <3>1, <3>2, <3>3
  <2> QED BY <1>1, <1>12, <1>13, <2>1, <2>2 DEF InLine
<1>18. Stamped'
  <2>1. ASSUME NEW b \in Buffers, bstate[b] \in {"SEALED", "FLUSHING"}, NEW i \in 1 .. Used(b)'
        PROVE  bytes'[b][i] <= hi[b]
    <3>1. b # aidx
      BY <1>3, <2>1
    <3> QED BY <1>5, <2>1, <3>1 DEF Ordered, Stamped
  <2>2. ASSUME NEW b \in Buffers, NEW c \in Buffers, Ahead(b, c), NEW j \in 1 .. Used(c)'
        PROVE  hi[b] < bytes'[c][j]
    <3>1. CASE c # aidx
      BY <1>5, <2>2, <3>1 DEF Ordered, Stamped
    <3>2. CASE c = aidx /\ j \in 1 .. aold
      BY <1>4, <1>6, <2>2, <3>2 DEF Ordered, Stamped
    <3>3. CASE c = aidx /\ j \in aold + 1 .. aold + areq.len
      BY <1>2, <1>9, <3>3
    <3> QED BY <1>4, <1>8, <3>1, <3>2, <3>3
  <2>3. ASSUME NEW b \in Buffers, Unwritten(b), NEW j \in 1 .. Used(b)'
        PROVE  written < bytes'[b][j]
    <3>1. CASE b # aidx
      BY <1>5, <2>3, <3>1 DEF Ordered, Stamped
    <3>2. CASE b = aidx /\ j \in 1 .. aold
      BY <1>4, <1>6, <2>3, <3>2 DEF Ordered, Stamped
    <3>3. CASE b = aidx /\ j \in aold + 1 .. aold + areq.len
      BY <1>2, <1>9, <3>3
    <3> QED BY <1>4, <1>8, <3>1, <3>2, <3>3
  <2> QED BY <1>1, <1>12, <1>13, <2>1, <2>2, <2>3 DEF Stamped
<1> QED BY <1>14, <1>15, <1>17, <1>18 DEF Ordered

\* What a step does to buffers that it does not copy into.

(* What every other step does to the buffers.                              *)
Moves ==
  /\ UsedKept /\ AheadKept /\ HiKept
  /\ committed' >= committed /\ Top' >= Top

(* It preserves the order inside and between the buffers.                  *)
LEMMA MovesBuffers ==
  ASSUME IInv, IInv', Ownership, Ownership', Hand, Ordered, Moves
  PROVE  /\ InBuffers'
         /\ \A b, c \in Buffers : Ahead(b, c)' =>
              \A i \in 1 .. Used(b)', j \in 1 .. Used(c)' : bytes'[b][i] < bytes'[c][j]
         /\ \A b \in Buffers : bstate'[b] \in {"SEALED", "FLUSHING"} =>
              \A i \in 1 .. Used(b)' : bytes'[b][i] <= hi'[b]
         /\ \A b, c \in Buffers : Ahead(b, c)' => \A j \in 1 .. Used(c)' : hi'[b] < bytes'[c][j]
<1>1. /\ bytes' = bytes
      /\ \A b \in Buffers : Used(b)' = Used(b) \/ Used(b)' = 0
      /\ \A b, c \in Buffers : Ahead(b, c)' => Ahead(b, c) \/ Used(c)' = 0
      /\ Top' >= Top
  BY DEF Moves, UsedKept, AheadKept
<1>2. 1 .. 0 = {}
  OBVIOUS
<1>3. ASSUME NEW b \in Buffers, NEW i \in 1 .. Used(b)'
      PROVE  Used(b)' = Used(b) /\ i \in 1 .. Used(b)
  BY <1>1, <1>2
<1>4. ASSUME NEW b \in Buffers, NEW i \in 1 .. Used(b)
      PROVE  bytes[b][i] \in Nat
  BY UsedInCap
<1>5. Top \in Nat /\ Top' \in Nat
  BY DEF IInv, TypeOK, Records, Top
<1>6. InBuffers'
  <2>1. ASSUME NEW b \in Buffers, NEW i \in 1 .. Used(b)' PROVE bytes'[b][i] <= Top'
    <3>1. bytes[b][i] <= Top /\ bytes[b][i] \in Nat
      BY <1>3, <1>4 DEF Ordered, InBuffers
    <3> QED BY <1>1, <1>5, <3>1
  <2>2. ASSUME NEW b \in Buffers, NEW i \in 1 .. Used(b)', NEW j \in 1 .. Used(b)', i < j
        PROVE  bytes'[b][i] < bytes'[b][j]
    BY <1>1, <1>3, <2>2 DEF Ordered, InBuffers
  <2> QED BY <2>1, <2>2 DEF InBuffers
<1>7. ASSUME NEW b \in Buffers, NEW c \in Buffers, Ahead(b, c)',
             NEW i \in 1 .. Used(b)', NEW j \in 1 .. Used(c)'
      PROVE  bytes'[b][i] < bytes'[c][j]
  <2>1. i \in 1 .. Used(b) /\ j \in 1 .. Used(c)
    BY <1>3
  <2>2. Used(c)' # 0
    BY <1>2, <1>7
  <2>3. Ahead(b, c)
    BY <1>1, <1>7, <2>2
  <2> QED BY <1>1, <2>1, <2>3 DEF Ordered, InLine
<1>8. ASSUME NEW b \in Buffers, bstate'[b] \in {"SEALED", "FLUSHING"}, NEW i \in 1 .. Used(b)'
      PROVE  bytes'[b][i] <= hi'[b]
  <2>1. i \in 1 .. Used(b) /\ bytes'[b][i] = bytes[b][i]
    BY <1>1, <1>3
  <2>2. CASE hi'[b] = hi[b] /\ bstate[b] \in {"SEALED", "FLUSHING"}
    BY <2>1, <2>2 DEF Ordered, Stamped
  <2>3. CASE hi'[b] = committed /\ Top = committed
    BY <2>1, <2>3 DEF Ordered, InBuffers
  <2> QED BY <1>8, <2>2, <2>3 DEF Moves, HiKept
<1>9. ASSUME NEW b \in Buffers, NEW c \in Buffers, Ahead(b, c)', NEW j \in 1 .. Used(c)'
      PROVE  hi'[b] < bytes'[c][j]
  <2>1. j \in 1 .. Used(c) /\ bytes' = bytes
    BY <1>1, <1>3
  <2>2. Used(c)' # 0
    BY <1>2, <1>9
  <2>3. Ahead(b, c)
    BY <1>1, <1>9, <2>2
  <2>4. bstate'[b] \in {"SEALED", "FLUSHING"}
    BY <1>9, NotAheadNext
  <2>5. bstate[b] \in {"SEALED", "FLUSHING"}
    BY <2>3, NotAhead
  <2>6. hi'[b] = hi[b]
    BY <2>4, <2>5 DEF Moves, HiKept
  <2> QED BY <2>1, <2>3, <2>6 DEF Ordered, Stamped
<1> QED BY <1>6, <1>7, <1>8, <1>9

\* Steps that leave the file alone.

(* The order survives a step that does not touch the file, fsync included. *)
LEMMA QuietOrdered ==
  ASSUME IInv, IInv', Ownership, Ownership', Hand, Ordered, Moves,
         UNCHANGED <<file, written>>,
         UNCHANGED <<durLen, synced>> \/ durLen' = Len(file)
  PROVE  Ordered'
<1>1. /\ bytes' = bytes
      /\ \A b \in Buffers : Used(b)' = Used(b) \/ Used(b)' = 0
      /\ \A b \in Buffers : Unwritten(b)' => Unwritten(b) \/ Used(b)' = 0
  BY DEF Moves, UsedKept, AheadKept
<1>2. ASSUME NEW b \in Buffers, Unwritten(b)', NEW j \in 1 .. Used(b)'
      PROVE  Unwritten(b) /\ j \in 1 .. Used(b)
  <2>1. 1 .. 0 = {}
    OBVIOUS
  <2> QED BY <1>1, <1>2, <2>1
<1>3. InFile'
  <2>1. file' \in Seq(Nat) /\ durLen' \in Nat /\ durLen' <= Len(file') /\ InLsnOrder'
    BY DEF Ordered, InFile, InLsnOrder
  <2>2. ASSUME NEW i \in 1 .. Len(file') PROVE file'[i] <= committed'
    <3>1. file[i] <= committed /\ file[i] \in Nat /\ file' = file
      BY DEF Ordered, InFile
    <3>2. committed \in Nat /\ committed' \in Nat /\ committed' >= committed
      BY DEF IInv, TypeOK, Moves
    <3> QED BY <3>1, <3>2
  <2>3. ASSUME NEW i \in durLen' + 1 .. Len(file') PROVE file'[i] > synced'
    <3>1. CASE UNCHANGED <<durLen, synced>>
      BY <2>3, <3>1 DEF Ordered, InFile
    <3>2. CASE durLen' = Len(file)
      <4>1. Len(file) \in Nat /\ durLen' + 1 .. Len(file') = {}
        BY <3>2 DEF Ordered, InFile
      <4> QED BY <2>3, <4>1
    <3> QED BY <3>1, <3>2
  <2> QED BY <2>1, <2>2, <2>3 DEF InFile
<1>4. InLine'
  BY <1>1, <1>2, MovesBuffers DEF InLine, Ordered
<1>5. Stamped'
  BY <1>1, <1>2, MovesBuffers DEF Stamped, Ordered
<1> QED BY <1>3, <1>4, <1>5, MovesBuffers DEF Ordered

(* What write_all appends: the first k bytes of a buffer.                  *)
LEMMA JoinFacts ==
  ASSUME NEW f \in Seq(Nat), NEW g \in [1 .. Cap -> Nat], NEW k \in 0 .. Cap,
         NEW h, h = f \o SubSeq(g, 1, k)
  PROVE  /\ h \in Seq(Nat) /\ Len(h) = Len(f) + k /\ Len(f) \in Nat
         /\ \A i \in 1 .. Len(f) : h[i] = f[i] /\ f[i] \in Nat
         /\ \A i \in 1 .. k : h[Len(f) + i] = g[i]
         /\ \A i \in 1 .. Len(h) :
              i \in 1 .. Len(f) \/ (i - Len(f) \in 1 .. k /\ h[i] = g[i - Len(f)])
<1>1. g \in Seq(Nat) /\ Len(g) = Cap /\ k \in Nat /\ k <= Cap /\ Len(f) \in Nat
  BY CapAssumption
<1> DEFINE s == SubSeq(g, 1, k)
<1>2. s \in Seq(Nat) /\ Len(s) = k /\ \A i \in 1 .. k : s[i] = g[i]
  BY <1>1
<1>3. h = f \o s
  OBVIOUS
<1> HIDE DEF s
<1>4. h \in Seq(Nat) /\ Len(h) = Len(f) + k
  BY <1>1, <1>2, <1>3
<1>5. \A i \in 1 .. Len(f) + Len(s) : h[i] = IF i <= Len(f) THEN f[i] ELSE s[i - Len(f)]
  BY <1>1, <1>2, <1>3
<1>6. \A i \in 1 .. Len(f) : i \in 1 .. Len(h) /\ h[i] = f[i] /\ f[i] \in Nat
  BY <1>1, <1>2, <1>4, <1>5
<1>7. ASSUME NEW i \in 1 .. k PROVE h[Len(f) + i] = g[i]
  <2>1. /\ Len(f) + i \in 1 .. Len(f) + Len(s) /\ ~(Len(f) + i <= Len(f))
        /\ (Len(f) + i) - Len(f) = i
    BY <1>1, <1>2
  <2> QED BY <1>2, <1>5, <2>1
<1>8. ASSUME NEW i \in 1 .. Len(h), i \notin 1 .. Len(f)
      PROVE  i - Len(f) \in 1 .. k /\ h[i] = g[i - Len(f)]
  <2>1. i - Len(f) \in 1 .. k /\ ~(i <= Len(f)) /\ i \in 1 .. Len(f) + Len(s)
    BY <1>1, <1>2, <1>4, <1>8
  <2> QED BY <1>2, <1>5, <2>1
<1> QED BY <1>1, <1>4, <1>6, <1>7, <1>8

\* Steps that write the buffer, or a part of it, to the file.

(* The order survives a write, whole or cut short by an error.             *)
LEMMA WriteOrdered ==
  ASSUME IInv, IInv', Ownership, Ownership', Hand, Ordered, Moves,
         WriteOk \/ WriteErr
  PROVE  Ordered'
<1>1. PICK k \in 0 .. wend : file' = file \o SubSeq(bytes[wbuf], 1, k)
  <2>1. wend \in Nat
    BY DEF IInv, TypeOK
  <2>2. CASE WriteOk
    BY <2>1, <2>2 DEF WriteOk
  <2>3. CASE WriteErr
    <3>1. PICK k \in 0 .. wend - 1 : file' = file \o SubSeq(bytes[wbuf], 1, k)
      BY <2>3 DEF WriteErr
    <3>2. k \in 0 .. wend
      BY <2>1
    <3> QED BY <3>1, <3>2
  <2> QED BY <2>2, <2>3
<1>2. /\ wpc = "write" /\ wpc' \in {"sync", "free"} /\ bstate' = bstate /\ wbuf' = wbuf
      /\ UNCHANGED <<durLen, synced, committed>>
      /\ written' = written \/ written' = Larger(written, hi[wbuf])
  BY DEF WriteOk, WriteErr, ringVars, lsnVars
<1>3. /\ bytes' = bytes
      /\ \A b \in Buffers : Used(b)' = Used(b) \/ Used(b)' = 0
  BY DEF Moves, UsedKept
<1>4. /\ wbuf \in Buffers /\ bstate[wbuf] = "FLUSHING" /\ bytes[wbuf] \in [1 .. Cap -> Nat]
      /\ committed \in Nat /\ written \in Nat /\ synced \in Nat /\ hi[wbuf] \in Nat
      /\ hi[wbuf] <= committed /\ synced <= written /\ wend \in Nat
  BY <1>2 DEF IInv, TypeOK, WatermarkOrder, Ownership, FlushHolds, Flushing
<1>5. wend = Used(wbuf)
  BY <1>2, <1>4 DEF Hand, Used, Ownership, ActiveHolds
<1>6. k \in Nat /\ k <= Used(wbuf) /\ k \in 0 .. Cap /\ Used(wbuf) \in Nat
  BY <1>4, <1>5, UsedInCap, CapAssumption
<1>7. /\ file' \in Seq(Nat) /\ Len(file') = Len(file) + k /\ Len(file) \in Nat
      /\ \A i \in 1 .. Len(file) : file'[i] = file[i] /\ file[i] \in Nat
      /\ \A i \in 1 .. Len(file') :
           i \in 1 .. Len(file) \/ (i - Len(file) \in 1 .. k /\ file'[i] = bytes[wbuf][i - Len(file)])
  <2>1. file \in Seq(Nat)
    BY DEF Ordered, InFile
  <2>2. bytes[wbuf] \in [1 .. Cap -> Nat] /\ k \in 0 .. Cap
    BY <1>4, <1>6
  <2>3. file' = file \o SubSeq(bytes[wbuf], 1, k)
    BY <1>1
  <2> DEFINE g == bytes[wbuf]
             h == file'
  <2>4. g \in [1 .. Cap -> Nat] /\ h = file \o SubSeq(g, 1, k)
    BY <2>2, <2>3
  <2> HIDE DEF g, h
  <2>5. h \in Seq(Nat) /\ Len(h) = Len(file) + k /\ Len(file) \in Nat
    BY <2>1, <2>2, <2>4, JoinFacts
  <2>6. \A i \in 1 .. Len(file) : h[i] = file[i] /\ file[i] \in Nat
    BY <2>1, <2>2, <2>4, JoinFacts
  <2>7. \A i \in 1 .. Len(h) :
          i \in 1 .. Len(file) \/ (i - Len(file) \in 1 .. k /\ h[i] = g[i - Len(file)])
    BY <2>1, <2>2, <2>4, JoinFacts
  <2> QED BY <2>5, <2>6, <2>7 DEF g, h
<1>8. \A j \in 1 .. k : /\ j \in 1 .. Used(wbuf) /\ bytes[wbuf][j] \in Nat
                        /\ bytes[wbuf][j] <= hi[wbuf] /\ written < bytes[wbuf][j]
                        /\ \A i \in 1 .. Len(file) : file[i] < bytes[wbuf][j]
  <2> SUFFICES ASSUME NEW j \in 1 .. k
               PROVE  /\ j \in 1 .. Used(wbuf) /\ bytes[wbuf][j] \in Nat
                      /\ bytes[wbuf][j] <= hi[wbuf] /\ written < bytes[wbuf][j]
                      /\ \A i \in 1 .. Len(file) : file[i] < bytes[wbuf][j]
    OBVIOUS
  <2>1. j \in 1 .. Used(wbuf)
    BY <1>6
  <2>2. Unwritten(wbuf)
    BY <1>2, <1>4 DEF Unwritten
  <2> QED BY <1>4, <2>1, <2>2, UsedInCap DEF Ordered, Stamped, InLine
<1>9. InFile'
  <2>1. InLsnOrder'
    <3>1. ASSUME NEW i \in 1 .. Len(file'), NEW j \in 1 .. Len(file'), i < j
          PROVE  file'[i] < file'[j]
      <4>1. CASE j \in 1 .. Len(file)
        <5>1. i \in 1 .. Len(file)
          BY <1>7, <3>1, <4>1
        <5> QED BY <1>7, <3>1, <4>1, <5>1 DEF Ordered, InFile, InLsnOrder
      <4>2. CASE i \in 1 .. Len(file) /\ j \notin 1 .. Len(file)
        BY <1>7, <1>8, <4>2
      <4>3. CASE i \notin 1 .. Len(file) /\ j \notin 1 .. Len(file)
        <5>1. /\ i - Len(file) \in 1 .. Used(wbuf) /\ j - Len(file) \in 1 .. Used(wbuf)
              /\ file'[i] = bytes[wbuf][i - Len(file)] /\ file'[j] = bytes[wbuf][j - Len(file)]
          BY <1>7, <1>8, <4>3
        <5>2. i - Len(file) < j - Len(file)
          BY <1>7, <3>1
        <5> QED BY <1>4, <5>1, <5>2 DEF Ordered, InBuffers
      <4> QED BY <4>1, <4>2, <4>3
    <3> QED BY <3>1 DEF InLsnOrder
  <2>2. ASSUME NEW i \in 1 .. Len(file') PROVE file'[i] <= committed'
    <3>1. CASE i \in 1 .. Len(file)
      BY <1>2, <1>7, <3>1 DEF Ordered, InFile
    <3>2. CASE i \notin 1 .. Len(file)
      <4>1. i - Len(file) \in 1 .. k /\ file'[i] = bytes[wbuf][i - Len(file)]
        BY <1>7, <3>2
      <4>2. file'[i] \in Nat /\ file'[i] <= hi[wbuf]
        BY <1>8, <4>1
      <4> QED BY <1>2, <1>4, <4>2
    <3> QED BY <3>1, <3>2
  <2>3. ASSUME NEW i \in durLen' + 1 .. Len(file') PROVE file'[i] > synced'
    <3>0. durLen \in Nat /\ durLen' = durLen /\ i \in 1 .. Len(file')
      BY <1>2, <1>7, <2>3 DEF Ordered, InFile
    <3>1. CASE i \in 1 .. Len(file)
      <4>1. i \in durLen + 1 .. Len(file)
        BY <1>7, <2>3, <3>0, <3>1
      <4> QED BY <1>2, <1>7, <3>1, <4>1 DEF Ordered, InFile
    <3>2. CASE i \notin 1 .. Len(file)
      <4>1. i - Len(file) \in 1 .. k /\ file'[i] = bytes[wbuf][i - Len(file)]
        BY <1>7, <3>0, <3>2
      <4>2. file'[i] \in Nat /\ written < file'[i]
        BY <1>8, <4>1
      <4> QED BY <1>2, <1>4, <4>2
    <3> QED BY <3>1, <3>2
  <2>4. durLen' \in Nat /\ durLen' <= Len(file')
    BY <1>2, <1>6, <1>7 DEF Ordered, InFile
  <2> QED BY <1>7, <2>1, <2>2, <2>3, <2>4 DEF InFile
<1>10. ASSUME NEW b \in Buffers, Unwritten(b)', NEW j \in 1 .. Used(b)'
       PROVE  /\ Unwritten(b) /\ Ahead(wbuf, b) /\ j \in 1 .. Used(b)
              /\ bytes'[b][j] = bytes[b][j] /\ bytes[b][j] \in Nat
  <2>1. bstate[b] \in {"ACTIVE", "SEALED"}
    BY <1>2, <1>10 DEF Unwritten
  <2>2. Unwritten(b) /\ Ahead(wbuf, b)
    BY <1>4, <2>1 DEF Unwritten, Ahead
  <2>3. 1 .. 0 = {}
    OBVIOUS
  <2>4. j \in 1 .. Used(b)
    BY <1>3, <2>3
  <2> QED BY <1>3, <2>2, <2>4, UsedInCap
<1>11. InLine'
  <2>1. ASSUME NEW b \in Buffers, Unwritten(b)', NEW i \in 1 .. Len(file'), NEW j \in 1 .. Used(b)'
        PROVE  file'[i] < bytes'[b][j]
    <3>0. /\ Unwritten(b) /\ Ahead(wbuf, b) /\ j \in 1 .. Used(b)
          /\ bytes'[b][j] = bytes[b][j] /\ bytes[b][j] \in Nat
      BY <1>10, <2>1
    <3>1. CASE i \in 1 .. Len(file)
      BY <1>7, <3>0, <3>1 DEF Ordered, InLine
    <3>2. CASE i \notin 1 .. Len(file)
      <4>1. i - Len(file) \in 1 .. Used(wbuf) /\ file'[i] = bytes[wbuf][i - Len(file)]
        BY <1>7, <1>8, <3>2
      <4> QED BY <1>4, <3>0, <4>1 DEF Ordered, InLine
    <3> QED BY <3>1, <3>2
  <2> QED BY <2>1, MovesBuffers DEF InLine
<1>12. Stamped'
  <2>1. ASSUME NEW b \in Buffers, Unwritten(b)', NEW j \in 1 .. Used(b)'
        PROVE  written' < bytes'[b][j]
    <3>0. /\ Unwritten(b) /\ Ahead(wbuf, b) /\ j \in 1 .. Used(b)
          /\ bytes'[b][j] = bytes[b][j] /\ bytes[b][j] \in Nat
      BY <1>10, <2>1
    <3>1. written < bytes[b][j] /\ hi[wbuf] < bytes[b][j]
      BY <1>4, <3>0 DEF Ordered, Stamped
    <3> QED BY <1>2, <1>4, <3>0, <3>1 DEF Larger
  <2> QED BY <2>1, MovesBuffers DEF Stamped
<1> QED BY <1>9, <1>11, <1>12, MovesBuffers DEF Ordered

(* The valid prefix of a file ends at the first byte that is in no whole   *)
(* record.                                                                 *)
LEMMA PrefixFacts ==
  ASSUME NEW f \in Seq(Nat)
  PROVE  /\ ValidPrefixLen(f) \in 0 .. Len(f)
         /\ \A i \in 1 .. ValidPrefixLen(f) : WholeAt(f, i)
         /\ ValidPrefixLen(f) < Len(f) => ~WholeAt(f, ValidPrefixLen(f) + 1)
<1>0. Len(f) \in Nat
  OBVIOUS
<1> DEFINE Good == {k \in 0 .. Len(f) : \A i \in 1 .. k : WholeAt(f, i)}
<1>1. 0 \in Good /\ Good \in SUBSET Nat /\ \A k \in Good : k <= Len(f)
  BY <1>0
<1>2. PICK k \in Good : \A m \in Good : m <= k
  <2> HIDE DEF Good
  <2>1. Good # {}
    BY <1>1
  <2> QED BY <1>0, <1>1, <2>1, GreatestNatural
<1>3. k \in 0 .. Len(f) /\ k \in Nat /\ \A i \in 1 .. k : WholeAt(f, i)
  BY <1>0, <1>2
<1>4. k < Len(f) => ~WholeAt(f, k + 1)
  <2> SUFFICES ASSUME k < Len(f), WholeAt(f, k + 1) PROVE FALSE
    OBVIOUS
  <2>1. \A i \in 1 .. k + 1 : i \in 1 .. k \/ i = k + 1
    BY <1>3
  <2>2. k + 1 \in Good
    BY <1>0, <1>3, <2>1
  <2> QED BY <1>2, <1>3, <2>2
<1> QED BY <1>3, <1>4 DEF ValidPrefixLen

(* compact_wal_file keeps the bytes at the positions Kept, in their order. *)
LEMMA CompactedFacts ==
  ASSUME NEW f \in Seq(Nat), NEW c, NEW h, h = Compacted(f, c)
  PROVE  /\ Len(f) \in Nat /\ Kept(f, c) \in SUBSET (1 .. Len(f))
         /\ h \in Seq(Nat) /\ Len(h) = Cardinality(Kept(f, c)) /\ Len(h) \in Nat
         /\ \A n \in 1 .. Len(h) : Nth(Kept(f, c), n) \in 1 .. Len(f) /\ h[n] = f[Nth(Kept(f, c), n)]
<1> DEFINE K == Kept(f, c)
<1>1. Len(f) \in Nat
  OBVIOUS
<1>2. K \in SUBSET (1 .. Len(f))
  BY <1>1, PrefixFacts DEF Kept
<1> HIDE DEF K
<1>3. Cardinality(K) \in Nat
  BY <1>1, <1>2, RankFacts
<1>4. \A n \in 1 .. Cardinality(K) : Nth(K, n) \in K
  BY <1>1, <1>2, NthIs
<1>5. h = [n \in 1 .. Cardinality(K) |-> f[Nth(K, n)]]
  BY DEF Compacted, K
<1>6. \A n \in 1 .. Cardinality(K) : Nth(K, n) \in 1 .. Len(f) /\ f[Nth(K, n)] \in Nat
  <2> SUFFICES ASSUME NEW n \in 1 .. Cardinality(K)
               PROVE  Nth(K, n) \in 1 .. Len(f) /\ f[Nth(K, n)] \in Nat
    OBVIOUS
  <2>1. Nth(K, n) \in 1 .. Len(f)
    BY <1>2, <1>4
  <2> QED BY <1>1, <2>1
<1>7. h \in [1 .. Cardinality(K) -> Nat]
  BY <1>5, <1>6
<1>8. h \in Seq(Nat) /\ Len(h) = Cardinality(K)
  BY <1>3, <1>7
<1>9. \A n \in 1 .. Len(h) : Nth(K, n) \in 1 .. Len(f) /\ h[n] = f[Nth(K, n)]
  BY <1>5, <1>6, <1>8
<1> QED BY <1>1, <1>2, <1>3, <1>8, <1>9 DEF K

(* The order survives a compaction.                                        *)
LEMMA ReclaimOrdered ==
  ASSUME IInv, IInv', Ownership, Ownership', Hand, Ordered, Moves,
         file' = Compacted(file, requested), durLen' = Len(file'), UNCHANGED written
  PROVE  Ordered'
<1> DEFINE K == Kept(file, requested)
<1>0. file \in Seq(Nat)
  BY DEF Ordered, InFile
<1>1. Len(file) \in Nat /\ K \in SUBSET (1 .. Len(file))
  BY <1>0, CompactedFacts
<1>2. file' \in Seq(Nat) /\ Len(file') = Cardinality(K) /\ Len(file') \in Nat
  BY <1>0, CompactedFacts
<1>3. \A n \in 1 .. Len(file') : Nth(K, n) \in 1 .. Len(file) /\ file'[n] = file[Nth(K, n)]
  BY <1>0, CompactedFacts
<1> HIDE DEF K
<1>4. /\ bytes' = bytes
      /\ \A b \in Buffers : Used(b)' = Used(b) \/ Used(b)' = 0
      /\ \A b \in Buffers : Unwritten(b)' => Unwritten(b) \/ Used(b)' = 0
      /\ committed' >= committed
  BY DEF Moves, UsedKept, AheadKept
<1>5. ASSUME NEW b \in Buffers, Unwritten(b)', NEW j \in 1 .. Used(b)'
      PROVE  Unwritten(b) /\ j \in 1 .. Used(b)
  <2>1. 1 .. 0 = {}
    OBVIOUS
  <2> QED BY <1>4, <1>5, <2>1
<1>6. InFile'
  <2>1. ASSUME NEW i \in 1 .. Len(file'), NEW j \in 1 .. Len(file'), i < j
        PROVE  file'[i] < file'[j]
    <3>1. Nth(K, i) < Nth(K, j)
      BY <1>1, <1>2, <2>1, NthGrows
    <3> QED BY <1>3, <3>1 DEF Ordered, InFile, InLsnOrder
  <2>2. ASSUME NEW i \in 1 .. Len(file') PROVE file'[i] <= committed'
    <3>1. file'[i] <= committed /\ file'[i] \in Nat
      BY <1>0, <1>3 DEF Ordered, InFile
    <3>2. committed \in Nat /\ committed' \in Nat
      BY DEF IInv, TypeOK
    <3> QED BY <1>4, <3>1, <3>2
  <2>3. durLen' + 1 .. Len(file') = {}
    BY <1>2
  <2> QED BY <1>2, <2>1, <2>2, <2>3 DEF InFile, InLsnOrder
<1>7. InLine'
  <2>1. ASSUME NEW b \in Buffers, Unwritten(b)', NEW i \in 1 .. Len(file'), NEW j \in 1 .. Used(b)'
        PROVE  file'[i] < bytes'[b][j]
    BY <1>3, <1>4, <1>5, <2>1 DEF Ordered, InLine
  <2> QED BY <2>1, MovesBuffers DEF InLine
<1>8. Stamped'
  BY <1>4, <1>5, MovesBuffers DEF Stamped, Ordered
<1> QED BY <1>6, <1>7, <1>8, MovesBuffers DEF Ordered

(* Every step preserves the order.                                         *)
LEMMA OrderedStep ==
  ASSUME KeptApart', IInv, IInv', Ownership, Ownership', Hand, Ordered, [Next]_vars
  PROVE  Ordered'
<1>1. CASE TryAppendCopy
  BY <1>1, CopyOrdered
<1>2. CASE ~TryAppendCopy
  <2>1. UsedKept /\ HiKept /\ Forward
    BY <1>2, UsedMoves, HiMoves, ForwardMoves
  <2>2. OwnTypes /\ OwnTypes'
    BY IInvOwnTypes
  <2>3. AheadKept
    BY <2>1, <2>2, AheadMoves
  <2>4. Moves
    BY <2>1, <2>3 DEF Moves, Forward
  <2>5. CASE WriteOk \/ WriteErr
    BY <2>4, <2>5, WriteOrdered
  <2>6. CASE ReclaimOk \/ ReclaimErr
    <3>1. UNCHANGED <<written, synced>>
      BY <2>6 DEF ReclaimOk, ReclaimErr, lsnVars
    <3>2. \/ file' = Compacted(file, requested) /\ durLen' = Len(file')
          \/ UNCHANGED <<file, durLen>>
          \/ UNCHANGED file /\ durLen' = Len(file)
      BY <2>6 DEF ReclaimOk, ReclaimErr
    <3> QED BY <2>4, <3>1, <3>2, ReclaimOrdered, QuietOrdered
  <2>7. CASE ~FileStep
    <3>1. UNCHANGED <<file, written>>
      BY <2>1, <2>7 DEF Forward, FileStep
    <3>2. UNCHANGED <<durLen, synced>> \/ durLen' = Len(file)
      BY <2>1, <2>7 DEF Forward, SyncOk
    <3> QED BY <2>4, <3>1, <3>2, QuietOrdered
  <2> QED BY <2>5, <2>6, <2>7 DEF FileStep
<1> QED BY <1>1, <1>2

(* An empty ring and an empty file are ordered.                            *)
LEMMA InitOrdered == Init => Hand /\ Ordered
<1> SUFFICES ASSUME Init PROVE Hand /\ Ordered
  OBVIOUS
<1>1. /\ Len(file) = 0 /\ file \in Seq(Nat) /\ durLen = 0
      /\ 1 .. 0 = {} /\ 0 + 1 .. 0 = {}
  BY DEF Init
<1>2. Hand
  BY DEF Init, Hand, Inside
<1>3. \A b \in Buffers : Used(b) = 0
  BY DEF Init, Used
<1>4. Ordered
  BY <1>1, <1>3 DEF Ordered, InBuffers, InFile, InLsnOrder, InLine, Stamped
<1> QED BY <1>2, <1>4

(* Types, ownership, what the threads hold and the order together.         *)
RInv == IInv /\ Ownership /\ Hand /\ Ordered

(* They are inductive.                                                     *)
LEMMA RingStep ==
  ASSUME KeptApart', RInv, [Next]_vars
  PROVE  RInv'
<1>1. IInv'
  BY NextInv DEF RInv
<1>2. Ownership'
  BY <1>1, IInvOwnTypes, OwnStep DEF RInv
<1>3. Hand'
  BY HandStep DEF RInv
<1>4. Ordered'
  BY <1>1, <1>2, OrderedStep DEF RInv
<1> QED BY <1>1, <1>2, <1>3, <1>4 DEF RInv

(* As long as no seal_active has met an append, bytes reach the file in    *)
(* LSN order and each of them once, so a replay applies each record once   *)
(* and in order, whatever fails (wal_writer.rs: flush_sealed_buffers,      *)
(* compact_wal_file).                                                      *)
THEOREM FileIsOrdered == Spec => []FileOrdered
<1> DEFINE Inv == KeptApart => RInv
<1>1. Init => Inv
  BY InitInv, InitOwned, InitOrdered DEF RInv
<1>2. Inv /\ [Next]_vars => Inv'
  BY ApartBefore, RingStep
<1>3. Inv => FileOrdered
  BY DEF RInv, Ordered, InFile, FileOrdered
<1> QED BY <1>1, <1>2, <1>3, PTL DEF Spec

-----------------------------------------------------------------------------
(* Records, and the last round of the writer thread.                       *)

(* The records whose bytes are in a buffer in full: the acknowledged ones  *)
(* and the one try_append has copied.                                      *)
Logged == IF apc = "record" THEN recs \cup {areq} ELSE recs

(* Acknowledged records are not empty, lie below committed and share no    *)
(* byte; between two calls areq is the last of them.                       *)
Recorded ==
  /\ \A r \in recs : r.len > 0 /\ r.lsn <= committed /\ r.len <= r.lsn
  /\ \A r, s \in recs : r = s \/ r.lsn <= s.lsn - s.len \/ s.lsn <= r.lsn - r.len
  /\ apc \in {"idle", "exited"} => areq \in recs \/ areq.len = 0

(* Without a failure the file is durable except between write and fsync.   *)
(* In the final round, which starts after the apply thread has ended,      *)
(* nothing is left in the active buffer after seal_active and nothing in   *)
(* the queue after flush_sealed_buffers.                                   *)
Drained ==
  /\ fails = 0 /\ wpc # "sync" => durLen = Len(file)
  /\ final => shutdown
  /\ wpc = "done" => final
  /\ final /\ wpc \in {"swap", "pop", "notify", "reclaim", "done"} \cup Flushing =>
       \A b \in Buffers : bstate[b] = "ACTIVE" => pos[b] = 0
  /\ final /\ wpc \in {"reclaim", "done"} => queue = <<>>

(* A step that copies nothing logs no record; snapshots only cover more;   *)
(* failures are not forgotten.                                             *)
LoggedKept ==
  /\ Logged' = Logged
  /\ requested' >= requested
  /\ fails' = 0 => fails = 0

(* A buffer with bytes to be written keeps them until they are written.    *)
UnwrittenKept ==
  \A b \in Buffers : Unwritten(b) /\ Used(b) > 0 =>
    /\ Used(b)' = Used(b)
    /\ Unwritten(b)' \/ (WriteOk /\ b = wbuf) \/ fails' > 0

(* Every step but the copy satisfies LoggedKept.                           *)
LEMMA LoggedMoves ==
  ASSUME IInv, [Next]_vars, ~TryAppendCopy
  PROVE  LoggedKept
<1> USE DEF IInv, TypeOK, ringVars, lsnVars, fileVars, ctlVars, applyVars, writerVars
<1>1. ASSUME NEW l \in Lens, Push(l) PROVE LoggedKept
  BY <1>1 DEF Push, Larger, LoggedKept, Logged
<1>2. ASSUME NEW l \in SinkLsns, Register(l) PROVE LoggedKept
  BY <1>2 DEF Register, LoggedKept, Logged
<1>3. CASE AppendLoad
  BY <1>3 DEF AppendLoad, LoggedKept, Logged
<1>4. CASE AppendCheck
  BY <1>4 DEF AppendCheck, LoggedKept, Logged
<1>5. CASE TryAppendReserve
  BY <1>5 DEF TryAppendReserve, LoggedKept, Logged
<1>6. CASE TryAppendUndo
  BY <1>6 DEF TryAppendUndo, LoggedKept, Logged
<1>7. CASE TryAppendCopy
  BY <1>7 DEF TryAppendCopy, LoggedKept, Logged
<1>8. CASE AppendRecord
  BY <1>8 DEF AppendRecord, LoggedKept, Logged
<1>9. CASE SealFull
  BY <1>9 DEF SealFull, SealLsn, LoggedKept, Logged
<1>10. CASE EnqueueFull
  BY <1>10 DEF EnqueueFull, LoggedKept, Logged
<1>11. CASE FindOrBlock
  BY <1>11 DEF FindOrBlock, LoggedKept, Logged
<1>12. CASE ActivateNew
  BY <1>12 DEF ActivateNew, LoggedKept, Logged
<1>13. CASE SwapNew
  BY <1>13 DEF SwapNew, LoggedKept, Logged
<1>14. CASE Wake
  BY <1>14 DEF Wake, LoggedKept, Logged
<1>15. CASE SealCheck
  BY <1>15 DEF SealCheck, LoggedKept, Logged
<1>16. CASE SealRead
  BY <1>16 DEF SealRead, SealLsn, LoggedKept, Logged
<1>17. CASE SealStore
  BY <1>17 DEF SealStore, LoggedKept, Logged
<1>18. CASE SealEnqueue
  BY <1>18 DEF SealEnqueue, LoggedKept, Logged
<1>19. CASE SealActivate
  BY <1>19 DEF SealActivate, LoggedKept, Logged
<1>20. CASE SealSwap
  BY <1>20 DEF SealSwap, LoggedKept, Logged
<1>21. CASE PopSealed
  BY <1>21 DEF PopSealed, LoggedKept, Logged
<1>22. CASE ReadWritten
  BY <1>22 DEF ReadWritten, LoggedKept, Logged
<1>23. CASE WriteOk
  BY <1>23 DEF WriteOk, LoggedKept, Logged
<1>24. CASE WriteErr
  BY <1>24 DEF WriteErr, LoggedKept, Logged
<1>25. CASE SyncOk
  BY <1>25 DEF SyncOk, LoggedKept, Logged
<1>26. CASE SyncErr
  BY <1>26 DEF SyncErr, LoggedKept, Logged
<1>27. CASE MarkFree
  BY <1>27 DEF MarkFree, LoggedKept, Logged
<1>28. CASE NotifyFree
  BY <1>28 DEF NotifyFree, Woken, LoggedKept, Logged
<1>29. CASE PopEmpty
  BY <1>29 DEF PopEmpty, LoggedKept, Logged
<1>30. CASE ReclaimSkip
  BY <1>30 DEF ReclaimSkip, NextRound, LoggedKept, Logged
<1>31. CASE ReclaimOk
  BY <1>31 DEF ReclaimOk, NextRound, LoggedKept, Logged
<1>32. CASE ReclaimErr
  BY <1>32 DEF ReclaimErr, NextRound, LoggedKept, Logged
<1>33. CASE Shutdown
  BY <1>33 DEF Shutdown, LoggedKept, Logged
<1>34. ASSUME NEW c \in SnapLsns, RequestReclaim(c)
       PROVE  LoggedKept
  BY <1>34 DEF RequestReclaim, LoggedKept, Logged
<1>35. CASE UNCHANGED vars
  BY <1>35 DEF vars, LoggedKept, Logged
<1>36. CASE Stopped
  BY <1>36, <1>35 DEF Stopped
<1> QED BY <1>1, <1>2, <1>3, <1>4, <1>5, <1>6, <1>7, <1>8, <1>9, <1>10, <1>11, <1>12,
    <1>13, <1>14, <1>15, <1>16, <1>17, <1>18, <1>19, <1>20, <1>21, <1>22, <1>23, <1>24,
    <1>25, <1>26, <1>27, <1>28, <1>29, <1>30, <1>31, <1>32, <1>33, <1>34, <1>35, <1>36
  DEF Next, ApplyStep, WriterStep

(* Every step but the copy satisfies UnwrittenKept.                        *)
LEMMA UnwrittenMoves ==
  ASSUME IInv, Ownership, Hand, [Next]_vars, ~TryAppendCopy
  PROVE  UnwrittenKept
<1> USE DEF IInv, TypeOK, Hand, ringVars, lsnVars, fileVars, ctlVars, applyVars, writerVars
<1>1. ASSUME NEW l \in Lens, Push(l) PROVE UnwrittenKept
  BY <1>1 DEF Push, Larger, UnwrittenKept, Used, Unwritten
<1>2. ASSUME NEW l \in SinkLsns, Register(l) PROVE UnwrittenKept
  BY <1>2 DEF Register, UnwrittenKept, Used, Unwritten
<1>3. CASE AppendLoad
  BY <1>3 DEF AppendLoad, UnwrittenKept, Used, Unwritten
<1>4. CASE AppendCheck
  BY <1>4 DEF AppendCheck, UnwrittenKept, Used, Unwritten
<1>5. CASE TryAppendReserve
  BY <1>5 DEF TryAppendReserve, UnwrittenKept, Used, Unwritten
<1>6. CASE TryAppendUndo
  BY <1>6 DEF TryAppendUndo, UnwrittenKept, Used, Unwritten
<1>7. CASE TryAppendCopy
  BY <1>7 DEF TryAppendCopy, UnwrittenKept, Used, Unwritten
<1>8. CASE AppendRecord
  BY <1>8 DEF AppendRecord, UnwrittenKept, Used, Unwritten
<1>9. CASE SealFull
  BY <1>9 DEF SealFull, SealLsn, UnwrittenKept, Used, Unwritten
<1>10. CASE EnqueueFull
  BY <1>10 DEF EnqueueFull, UnwrittenKept, Used, Unwritten
<1>11. CASE FindOrBlock
  BY <1>11 DEF FindOrBlock, UnwrittenKept, Used, Unwritten
<1>12. CASE ActivateNew
  <2>1. bstate[afree] = "FREE" /\ afree \in Buffers /\ apc = "activate" /\ apc' = "swap" /\ wpc' = wpc
    BY <1>12 DEF ActivateNew, Ownership, ActiveHolds
  <2>2. \A b \in Buffers : b # afree => pos'[b] = pos[b] /\ bstate'[b] = bstate[b]
    BY <1>12 DEF ActivateNew
  <2> QED BY <2>1, <2>2 DEF UnwrittenKept, Used, Unwritten
<1>13. CASE SwapNew
  BY <1>13 DEF SwapNew, UnwrittenKept, Used, Unwritten
<1>14. CASE Wake
  BY <1>14 DEF Wake, UnwrittenKept, Used, Unwritten
<1>15. CASE SealCheck
  BY <1>15 DEF SealCheck, UnwrittenKept, Used, Unwritten
<1>16. CASE SealRead
  BY <1>16 DEF SealRead, SealLsn, UnwrittenKept, Used, Unwritten
<1>17. CASE SealStore
  BY <1>17 DEF SealStore, UnwrittenKept, Used, Unwritten
<1>18. CASE SealEnqueue
  BY <1>18 DEF SealEnqueue, UnwrittenKept, Used, Unwritten
<1>19. CASE SealActivate
  <2>1. wfree \in Buffers /\ wfree # NoBuf
    BY <1>19, NBufAssumption DEF SealActivate, Locals, Buffers, NoBuf
  <2>2. bstate[wfree] = "FREE" /\ apc \in {"idle", "exited"} /\ apc' = apc /\ wpc = "activate"
    BY <1>19, <2>1 DEF SealActivate, Ownership, SealHolds, Exclusive, Sealing
  <2>3. \A b \in Buffers : b # wfree => pos'[b] = pos[b] /\ bstate'[b] = bstate[b]
    BY <1>19 DEF SealActivate
  <2> QED BY <2>1, <2>2, <2>3 DEF UnwrittenKept, Used, Unwritten
<1>20. CASE SealSwap
  BY <1>20 DEF SealSwap, UnwrittenKept, Used, Unwritten
<1>21. CASE PopSealed
  BY <1>21 DEF PopSealed, UnwrittenKept, Used, Unwritten
<1>22. CASE ReadWritten
  <2>1. bstate[wbuf] = "FLUSHING" /\ (apc \in {"undo", "copy"} => aidx # wbuf)
    BY <1>22 DEF ReadWritten, Ownership, FlushHolds, Flushing, ActiveHolds
  <2>2. pos[wbuf] <= Cap
    BY <1>22, <2>1 DEF Ownership, FlushHolds
  <2>3. \A b \in Buffers : bstate[b] = "FLUSHING" => b = wbuf
    BY DEF Ownership, FlushHolds
  <2>4. /\ wpc' = IF pos[wbuf] = 0 THEN "free" ELSE "write"
        /\ UNCHANGED <<bstate, pos, apc, aidx, aold>>
    <3>1. pos[wbuf] \in Nat /\ ~(pos[wbuf] > Cap)
      BY <2>2, CapAssumption
    <3> QED BY <1>22, <3>1 DEF ReadWritten
  <2>5. \A b \in Buffers : Used(b)' = Used(b) /\ (b = wbuf => Used(b) = pos[b])
    BY <2>1, <2>4 DEF Used
  <2> QED BY <2>3, <2>4, <2>5 DEF UnwrittenKept, Unwritten
<1>23. CASE WriteOk
  <2>1. \A b \in Buffers : bstate[b] = "FLUSHING" => b = wbuf
    BY DEF Ownership, FlushHolds
  <2>2. UNCHANGED <<bstate, pos, apc, aidx, aold>>
    BY <1>23 DEF WriteOk
  <2> QED BY <1>23, <2>1, <2>2 DEF UnwrittenKept, Unwritten, Used
<1>24. CASE WriteErr
  BY <1>24 DEF WriteErr, UnwrittenKept, Used, Unwritten
<1>25. CASE SyncOk
  BY <1>25 DEF SyncOk, UnwrittenKept, Used, Unwritten
<1>26. CASE SyncErr
  BY <1>26 DEF SyncErr, UnwrittenKept, Used, Unwritten
<1>27. CASE MarkFree
  <2>1. bstate[wbuf] = "FLUSHING" /\ wpc = "free" /\ wpc' = "notify" /\ UNCHANGED <<apc, aidx, aold>>
    BY <1>27 DEF MarkFree, Ownership, FlushHolds, Flushing
  <2>2. \A b \in Buffers : b # wbuf => pos'[b] = pos[b] /\ bstate'[b] = bstate[b]
    BY <1>27 DEF MarkFree
  <2> QED BY <2>1, <2>2 DEF UnwrittenKept, Used, Unwritten
<1>28. CASE NotifyFree
  BY <1>28 DEF NotifyFree, Woken, UnwrittenKept, Used, Unwritten
<1>29. CASE PopEmpty
  BY <1>29 DEF PopEmpty, UnwrittenKept, Used, Unwritten
<1>30. CASE ReclaimSkip
  BY <1>30 DEF ReclaimSkip, NextRound, UnwrittenKept, Used, Unwritten
<1>31. CASE ReclaimOk
  BY <1>31 DEF ReclaimOk, NextRound, UnwrittenKept, Used, Unwritten
<1>32. CASE ReclaimErr
  BY <1>32 DEF ReclaimErr, NextRound, UnwrittenKept, Used, Unwritten
<1>33. CASE Shutdown
  BY <1>33 DEF Shutdown, UnwrittenKept, Used, Unwritten
<1>34. ASSUME NEW c \in SnapLsns, RequestReclaim(c)
       PROVE  UnwrittenKept
  BY <1>34 DEF RequestReclaim, UnwrittenKept, Used, Unwritten
<1>35. CASE UNCHANGED vars
  BY <1>35 DEF vars, UnwrittenKept, Used, Unwritten
<1>36. CASE Stopped
  BY <1>36, <1>35 DEF Stopped
<1> QED BY <1>1, <1>2, <1>3, <1>4, <1>5, <1>6, <1>7, <1>8, <1>9, <1>10, <1>11, <1>12,
    <1>13, <1>14, <1>15, <1>16, <1>17, <1>18, <1>19, <1>20, <1>21, <1>22, <1>23, <1>24,
    <1>25, <1>26, <1>27, <1>28, <1>29, <1>30, <1>31, <1>32, <1>33, <1>34, <1>35, <1>36
  DEF Next, ApplyStep, WriterStep

(* Every step preserves Recorded.                                          *)
LEMMA RecordedStep ==
  ASSUME IInv, Hand, Recorded, [Next]_vars
  PROVE  Recorded'
<1> USE DEF IInv, TypeOK, Records, ringVars, lsnVars, fileVars, ctlVars, applyVars,
    writerVars
<1>1. ASSUME NEW l \in Lens, Push(l) PROVE Recorded'
  BY <1>1 DEF Push, Larger, Recorded
<1>2. ASSUME NEW l \in SinkLsns, Register(l) PROVE Recorded'
  BY <1>2 DEF Register, Recorded
<1>3. CASE AppendLoad
  BY <1>3 DEF AppendLoad, Recorded
<1>4. CASE AppendCheck
  BY <1>4 DEF AppendCheck, Recorded
<1>5. CASE TryAppendReserve
  BY <1>5 DEF TryAppendReserve, Recorded
<1>6. CASE TryAppendUndo
  BY <1>6 DEF TryAppendUndo, Recorded
<1>7. CASE TryAppendCopy
  BY <1>7 DEF TryAppendCopy, Recorded
<1>8. CASE AppendRecord
  <2>1. /\ recs' = recs \cup {areq} /\ areq' = areq /\ apc' = "idle"
        /\ committed' = committed + areq.len
    BY <1>8 DEF AppendRecord
  <2>2. /\ areq.lsn = committed + areq.len /\ areq.len > 0 /\ areq.len <= areq.lsn
        /\ areq.len \in Nat /\ areq.lsn \in Nat /\ committed \in Nat
    BY <1>8 DEF AppendRecord, Hand, Inside, Locals
  <2>3. \A r \in recs : r.lsn <= committed /\ r.lsn \in Nat
    BY DEF Recorded
  <2>4. \A r \in recs : r.lsn <= committed' /\ r.lsn <= areq.lsn - areq.len
    BY <2>1, <2>2, <2>3
  <2>5. \A r \in recs' : r.len > 0 /\ r.lsn <= committed' /\ r.len <= r.lsn
    BY <2>1, <2>2, <2>4 DEF Recorded
  <2>6. \A r, s \in recs' : r = s \/ r.lsn <= s.lsn - s.len \/ s.lsn <= r.lsn - r.len
    BY <2>1, <2>4 DEF Recorded
  <2> QED BY <2>1, <2>5, <2>6 DEF Recorded
<1>9. CASE SealFull
  BY <1>9 DEF SealFull, SealLsn, Recorded
<1>10. CASE EnqueueFull
  BY <1>10 DEF EnqueueFull, Recorded
<1>11. CASE FindOrBlock
  BY <1>11 DEF FindOrBlock, Recorded
<1>12. CASE ActivateNew
  BY <1>12 DEF ActivateNew, Recorded
<1>13. CASE SwapNew
  BY <1>13 DEF SwapNew, Recorded
<1>14. CASE Wake
  BY <1>14 DEF Wake, Recorded
<1>15. CASE SealCheck
  BY <1>15 DEF SealCheck, Recorded
<1>16. CASE SealRead
  BY <1>16 DEF SealRead, SealLsn, Recorded
<1>17. CASE SealStore
  BY <1>17 DEF SealStore, Recorded
<1>18. CASE SealEnqueue
  BY <1>18 DEF SealEnqueue, Recorded
<1>19. CASE SealActivate
  BY <1>19 DEF SealActivate, Recorded
<1>20. CASE SealSwap
  BY <1>20 DEF SealSwap, Recorded
<1>21. CASE PopSealed
  BY <1>21 DEF PopSealed, Recorded
<1>22. CASE ReadWritten
  BY <1>22 DEF ReadWritten, Recorded
<1>23. CASE WriteOk
  BY <1>23 DEF WriteOk, Recorded
<1>24. CASE WriteErr
  BY <1>24 DEF WriteErr, Recorded
<1>25. CASE SyncOk
  BY <1>25 DEF SyncOk, Recorded
<1>26. CASE SyncErr
  BY <1>26 DEF SyncErr, Recorded
<1>27. CASE MarkFree
  BY <1>27 DEF MarkFree, Recorded
<1>28. CASE NotifyFree
  BY <1>28 DEF NotifyFree, Woken, Recorded
<1>29. CASE PopEmpty
  BY <1>29 DEF PopEmpty, Recorded
<1>30. CASE ReclaimSkip
  BY <1>30 DEF ReclaimSkip, NextRound, Recorded
<1>31. CASE ReclaimOk
  BY <1>31 DEF ReclaimOk, NextRound, Recorded
<1>32. CASE ReclaimErr
  BY <1>32 DEF ReclaimErr, NextRound, Recorded
<1>33. CASE Shutdown
  BY <1>33 DEF Shutdown, Recorded
<1>34. ASSUME NEW c \in SnapLsns, RequestReclaim(c)
       PROVE  Recorded'
  BY <1>34 DEF RequestReclaim, Recorded
<1>35. CASE UNCHANGED vars
  BY <1>35 DEF vars, Recorded
<1>36. CASE Stopped
  BY <1>36, <1>35 DEF Stopped
<1> QED BY <1>1, <1>2, <1>3, <1>4, <1>5, <1>6, <1>7, <1>8, <1>9, <1>10, <1>11, <1>12,
    <1>13, <1>14, <1>15, <1>16, <1>17, <1>18, <1>19, <1>20, <1>21, <1>22, <1>23, <1>24,
    <1>25, <1>26, <1>27, <1>28, <1>29, <1>30, <1>31, <1>32, <1>33, <1>34, <1>35, <1>36
  DEF Next, ApplyStep, WriterStep

(* Every step preserves Drained.                                           *)
LEMMA DrainedStep ==
  ASSUME IInv, Ownership, InFile, Drained, [Next]_vars
  PROVE  Drained'
<1> USE DEF IInv, TypeOK, Flushing, ringVars, lsnVars, fileVars, ctlVars, applyVars,
    writerVars
<1>1. ASSUME NEW l \in Lens, Push(l) PROVE Drained'
  BY <1>1 DEF Push, Larger, Drained
<1>2. ASSUME NEW l \in SinkLsns, Register(l) PROVE Drained'
  BY <1>2 DEF Register, Drained
<1>3. CASE AppendLoad
  BY <1>3 DEF AppendLoad, Drained
<1>4. CASE AppendCheck
  BY <1>4 DEF AppendCheck, Drained
<1>5. CASE TryAppendReserve
  <2>1. ~final
    BY <1>5 DEF TryAppendReserve, Drained, Ownership, Exclusive
  <2>2. UNCHANGED <<fails, wpc, durLen, file, final, shutdown>>
    BY <1>5 DEF TryAppendReserve
  <2> QED BY <2>1, <2>2 DEF Drained
<1>6. CASE TryAppendUndo
  <2>1. ~final
    BY <1>6 DEF TryAppendUndo, Drained, Ownership, Exclusive
  <2>2. UNCHANGED <<fails, wpc, durLen, file, final, shutdown>>
    BY <1>6 DEF TryAppendUndo
  <2> QED BY <2>1, <2>2 DEF Drained
<1>7. CASE TryAppendCopy
  BY <1>7 DEF TryAppendCopy, Drained
<1>8. CASE AppendRecord
  BY <1>8 DEF AppendRecord, Drained
<1>9. CASE SealFull
  BY <1>9 DEF SealFull, SealLsn, Drained
<1>10. CASE EnqueueFull
  <2>1. ~final
    BY <1>10 DEF EnqueueFull, Drained, Ownership, Exclusive
  <2>2. UNCHANGED <<fails, wpc, durLen, file, final, shutdown>>
    BY <1>10 DEF EnqueueFull
  <2> QED BY <2>1, <2>2 DEF Drained
<1>11. CASE FindOrBlock
  BY <1>11 DEF FindOrBlock, Drained
<1>12. CASE ActivateNew
  BY <1>12 DEF ActivateNew, Drained
<1>13. CASE SwapNew
  BY <1>13 DEF SwapNew, Drained
<1>14. CASE Wake
  BY <1>14 DEF Wake, Drained
<1>15. CASE SealCheck
  <2>1. UNCHANGED <<fails, durLen, file, final, shutdown, bstate, pos>>
    BY <1>15 DEF SealCheck
  <2>2. /\ wpc = "sealcheck" /\ wbuf = activeIdx
        /\ \A b \in Buffers : bstate[b] = "ACTIVE" => b = activeIdx
    BY <1>15 DEF SealCheck, Ownership, SealHolds, ActiveHolds, Exclusive, Sealing
  <2>3. \/ wpc' = "sealread"
        \/ wpc' = "pop" /\ \A b \in Buffers : bstate[b] = "ACTIVE" => pos[b] = 0
    BY <1>15, <2>2 DEF SealCheck
  <2> QED BY <2>1, <2>2, <2>3 DEF Drained
<1>16. CASE SealRead
  BY <1>16 DEF SealRead, SealLsn, Drained
<1>17. CASE SealStore
  BY <1>17 DEF SealStore, Drained
<1>18. CASE SealEnqueue
  <2>1. UNCHANGED <<fails, durLen, file, final, shutdown, bstate, pos>>
    BY <1>18 DEF SealEnqueue
  <2>2. wpc = "enqueue" /\ \A b \in Buffers : bstate[b] # "ACTIVE"
    BY <1>18 DEF SealEnqueue, Ownership, ActiveHolds
  <2>3. wpc' \in {"pop", "activate"}
    BY <1>18 DEF SealEnqueue
  <2> QED BY <2>1, <2>2, <2>3 DEF Drained
<1>19. CASE SealActivate
  <2>1. UNCHANGED <<fails, durLen, file, final, shutdown>>
    BY <1>19 DEF SealActivate
  <2>2. wpc = "activate" /\ wpc' = "swap" /\ \A b \in Buffers : bstate[b] # "ACTIVE"
    BY <1>19 DEF SealActivate, Ownership, ActiveHolds
  <2>3. wfree \in Buffers
    BY <2>2 DEF Locals
  <2>4. \A b \in Buffers : bstate'[b] = "ACTIVE" => pos'[b] = 0
    BY <1>19, <2>2, <2>3 DEF SealActivate
  <2> QED BY <2>1, <2>2, <2>4 DEF Drained
<1>20. CASE SealSwap
  BY <1>20 DEF SealSwap, Drained
<1>21. CASE PopSealed
  BY <1>21 DEF PopSealed, Drained
<1>22. CASE ReadWritten
  BY <1>22 DEF ReadWritten, Drained
<1>23. CASE WriteOk
  BY <1>23 DEF WriteOk, Drained
<1>24. CASE WriteErr
  BY <1>24 DEF WriteErr, Drained
<1>25. CASE SyncOk
  BY <1>25 DEF SyncOk, Drained
<1>26. CASE SyncErr
  BY <1>26 DEF SyncErr, Drained
<1>27. CASE MarkFree
  BY <1>27 DEF MarkFree, Drained
<1>28. CASE NotifyFree
  BY <1>28 DEF NotifyFree, Woken, Drained
<1>29. CASE PopEmpty
  BY <1>29 DEF PopEmpty, Drained
<1>30. CASE ReclaimSkip
  <2>1. UNCHANGED <<bstate, pos, queue, shutdown>> /\ wpc = "reclaim"
    BY <1>30 DEF ReclaimSkip
  <2>2. \/ final /\ wpc' = "done" /\ final' = final
        \/ shutdown /\ wpc' = "sealcheck"
        \/ ~final /\ wpc' = "sleep" /\ final' = final
    BY <1>30 DEF ReclaimSkip, NextRound
  <2>3. fails' = 0 => durLen' = Len(file')
    BY <1>30 DEF ReclaimSkip, Drained
  <2>4. CASE final /\ wpc' = "done" /\ final' = final
    BY <2>1, <2>3, <2>4 DEF Drained
  <2>5. CASE shutdown /\ wpc' = "sealcheck"
    BY <2>1, <2>3, <2>5 DEF Drained
  <2>6. CASE ~final /\ wpc' = "sleep" /\ final' = final
    BY <2>1, <2>3, <2>6 DEF Drained
  <2> QED BY <2>2, <2>4, <2>5, <2>6
<1>31. CASE ReclaimOk
  <2>1. UNCHANGED <<bstate, pos, queue, shutdown>> /\ wpc = "reclaim"
    BY <1>31 DEF ReclaimOk
  <2>2. \/ final /\ wpc' = "done" /\ final' = final
        \/ shutdown /\ wpc' = "sealcheck"
        \/ ~final /\ wpc' = "sleep" /\ final' = final
    BY <1>31 DEF ReclaimOk, NextRound
  <2>3. fails' = 0 => durLen' = Len(file')
    BY <1>31 DEF ReclaimOk, Drained
  <2>4. CASE final /\ wpc' = "done" /\ final' = final
    BY <2>1, <2>3, <2>4 DEF Drained
  <2>5. CASE shutdown /\ wpc' = "sealcheck"
    BY <2>1, <2>3, <2>5 DEF Drained
  <2>6. CASE ~final /\ wpc' = "sleep" /\ final' = final
    BY <2>1, <2>3, <2>6 DEF Drained
  <2> QED BY <2>2, <2>4, <2>5, <2>6
<1>32. CASE ReclaimErr
  <2>1. UNCHANGED <<bstate, pos, queue, shutdown>> /\ wpc = "reclaim"
    BY <1>32 DEF ReclaimErr
  <2>2. \/ final /\ wpc' = "done" /\ final' = final
        \/ shutdown /\ wpc' = "sealcheck"
        \/ ~final /\ wpc' = "sleep" /\ final' = final
    BY <1>32 DEF ReclaimErr, NextRound
  <2>3. fails' = 0 => durLen' = Len(file')
    BY <1>32 DEF ReclaimErr, Drained
  <2>4. CASE final /\ wpc' = "done" /\ final' = final
    BY <2>1, <2>3, <2>4 DEF Drained
  <2>5. CASE shutdown /\ wpc' = "sealcheck"
    BY <2>1, <2>3, <2>5 DEF Drained
  <2>6. CASE ~final /\ wpc' = "sleep" /\ final' = final
    BY <2>1, <2>3, <2>6 DEF Drained
  <2> QED BY <2>2, <2>4, <2>5, <2>6
<1>33. CASE Shutdown
  BY <1>33 DEF Shutdown, Drained
<1>34. ASSUME NEW c \in SnapLsns, RequestReclaim(c)
       PROVE  Drained'
  BY <1>34 DEF RequestReclaim, Drained
<1>35. CASE UNCHANGED vars
  BY <1>35 DEF vars, Drained
<1>36. CASE Stopped
  BY <1>36, <1>35 DEF Stopped
<1> QED BY <1>1, <1>2, <1>3, <1>4, <1>5, <1>6, <1>7, <1>8, <1>9, <1>10, <1>11, <1>12,
    <1>13, <1>14, <1>15, <1>16, <1>17, <1>18, <1>19, <1>20, <1>21, <1>22, <1>23, <1>24,
    <1>25, <1>26, <1>27, <1>28, <1>29, <1>30, <1>31, <1>32, <1>33, <1>34, <1>35, <1>36
  DEF Next, ApplyStep, WriterStep

-----------------------------------------------------------------------------
(* Whole records side by side.                                             *)

(* Record r lies in f right after position p and ends by n.                *)
Tile(f, n, r, p) ==
  p + r.len <= n /\ \A j \in 1 .. r.len : f[p + j] = r.lsn - r.len + j

(* The first n bytes of f are whole records of R.                          *)
Tiled(R, f, n) ==
  \A i \in 1 .. n : \E r \in R : \E p \in 0 .. i - 1 : i <= p + r.len /\ Tile(f, n, r, p)

(* A record stays whole when the bytes around it are moved together.       *)
LEMMA TileMoves ==
  ASSUME NEW r \in Records, NEW p \in Nat, NEW m \in Nat, NEW n \in Nat, NEW l \in Nat,
         NEW f, NEW g, Tile(f, n, r, p), n + m <= l, \A i \in 1 .. n : g[i + m] = f[i]
  PROVE  Tile(g, l, r, p + m)
<1>1. r.len \in Nat /\ r.lsn \in Nat /\ p + r.len <= n
  BY DEF Records, Tile
<1>2. ASSUME NEW j \in 1 .. r.len PROVE g[(p + m) + j] = r.lsn - r.len + j
  <2>1. p + j \in 1 .. n /\ (p + j) + m = (p + m) + j
    BY <1>1
  <2>2. g[(p + j) + m] = f[p + j]
    BY <2>1
  <2> QED BY <2>1, <2>2 DEF Tile
<1> QED BY <1>1, <1>2 DEF Tile

(* A tiling stays one when more records are known.                         *)
LEMMA TiledGrows ==
  ASSUME NEW R \in SUBSET Records, NEW S \in SUBSET Records, R \subseteq S, NEW n \in Nat,
         NEW f, NEW g, Tiled(R, f, n), \A i \in 1 .. n : g[i] = f[i]
  PROVE  Tiled(S, g, n)
<1> SUFFICES ASSUME NEW i \in 1 .. n
             PROVE  \E r \in S : \E p \in 0 .. i - 1 : i <= p + r.len /\ Tile(g, n, r, p)
  BY DEF Tiled
<1>1. PICK r \in R, p \in 0 .. i - 1 : i <= p + r.len /\ Tile(f, n, r, p)
  BY DEF Tiled
<1>2. i \in Nat /\ p \in Nat /\ r \in Records /\ p + 0 = p /\ n + 0 <= n
  OBVIOUS
<1>3. \A k \in 1 .. n : g[k + 0] = f[k]
  OBVIOUS
<1>4. Tile(g, n, r, p + 0)
  BY <1>1, <1>2, <1>3, TileMoves
<1> QED BY <1>1, <1>2, <1>4

(* Two tilings side by side are one.                                       *)
LEMMA TiledJoin ==
  ASSUME NEW R \in SUBSET Records, NEW m \in Nat, NEW n \in Nat, NEW f, NEW h, NEW g,
         Tiled(R, f, m), Tiled(R, h, n),
         \A i \in 1 .. m : g[i] = f[i], \A i \in 1 .. n : g[i + m] = h[i]
  PROVE  Tiled(R, g, m + n)
<1> SUFFICES ASSUME NEW i \in 1 .. m + n
             PROVE  \E r \in R : \E p \in 0 .. i - 1 : i <= p + r.len /\ Tile(g, m + n, r, p)
  BY DEF Tiled
<1>1. CASE i \in 1 .. m
  <2>1. PICK r \in R, p \in 0 .. i - 1 : i <= p + r.len /\ Tile(f, m, r, p)
    BY <1>1 DEF Tiled
  <2>2. p \in Nat /\ r \in Records /\ p + 0 = p /\ m + 0 <= m + n /\ m + n \in Nat
    BY <1>1
  <2>3. \A k \in 1 .. m : g[k + 0] = f[k]
    OBVIOUS
  <2>4. Tile(g, m + n, r, p + 0)
    BY <2>1, <2>2, <2>3, TileMoves
  <2> QED BY <2>1, <2>2, <2>4
<1>2. CASE i \notin 1 .. m
  <2>0. i - m \in 1 .. n /\ i \in Nat
    BY <1>2
  <2>1. PICK r \in R, p \in 0 .. (i - m) - 1 : i - m <= p + r.len /\ Tile(h, n, r, p)
    BY <2>0 DEF Tiled
  <2>2. p \in Nat /\ r \in Records /\ n + m <= m + n /\ m + n \in Nat /\ r.len \in Nat
    BY <2>0 DEF Records
  <2>3. Tile(g, m + n, r, p + m)
    BY <2>1, <2>2, TileMoves
  <2>4. p + m \in 0 .. i - 1 /\ i <= (p + m) + r.len
    BY <2>0, <2>1, <2>2
  <2> QED BY <2>3, <2>4
<1> QED BY <1>1, <1>2

(* A parser reads a tiled file to its end.                                 *)
LEMMA TiledWhole ==
  ASSUME NEW f \in Seq(Nat), NEW R \in SUBSET Records, R \subseteq Pushed, Tiled(R, f, Len(f))
  PROVE  ValidPrefixLen(f) = Len(f)
<1>0. Len(f) \in Nat
  OBVIOUS
<1>1. ASSUME NEW i \in 1 .. Len(f) PROVE WholeAt(f, i)
  <2>1. PICK r \in R, p \in 0 .. i - 1 : i <= p + r.len /\ Tile(f, Len(f), r, p)
    BY DEF Tiled
  <2>2. r \in Pushed /\ r.len \in Nat /\ r.lsn \in Nat /\ p \in Nat /\ i \in Nat /\ p < i
    BY <1>0 DEF Records
  <2>3. i - p \in 1 .. r.len /\ p + (i - p) = i
    BY <2>1, <2>2
  <2>4. f[p + (i - p)] = r.lsn - r.len + (i - p)
    BY <2>1, <2>3 DEF Tile
  <2>5. f[i] = r.lsn - r.len + (i - p)
    BY <2>3, <2>4
  <2>6. f[i] \in BytesOf(r)
    BY <2>1, <2>2, <2>5 DEF BytesOf
  <2>7. i - (f[i] - (r.lsn - r.len + 1)) = p + 1
    BY <2>2, <2>5
  <2>8. ASSUME NEW j \in 0 .. r.len - 1 PROVE f[(p + 1) + j] = r.lsn - r.len + 1 + j
    <3>1. j + 1 \in 1 .. r.len /\ p + (j + 1) = (p + 1) + j /\ j \in Nat
      BY <2>2
    <3>2. f[p + (j + 1)] = r.lsn - r.len + (j + 1)
      BY <2>1, <3>1 DEF Tile
    <3> QED BY <2>2, <3>1, <3>2
  <2>9. p + 1 >= 1 /\ (p + 1) + r.len - 1 <= Len(f)
    BY <1>0, <2>1, <2>2 DEF Tile
  <2> QED BY <2>2, <2>6, <2>7, <2>8, <2>9 DEF WholeAt
<1>2. ValidPrefixLen(f) \in 0 .. Len(f) /\ (ValidPrefixLen(f) < Len(f) => ~WholeAt(f, ValidPrefixLen(f) + 1))
  BY PrefixFacts
<1>3. ValidPrefixLen(f) < Len(f) => ValidPrefixLen(f) + 1 \in 1 .. Len(f)
  BY <1>0, <1>2
<1> QED BY <1>0, <1>1, <1>2, <1>3

(* No byte belongs to two records.                                         *)
LEMMA PushedApart ==
  ASSUME IInv, Hand, Recorded, NEW r \in Pushed, NEW s \in Pushed, NEW x \in Int,
         x \in BytesOf(r), x \in BytesOf(s)
  PROVE  r = s
<1>0. /\ r.lsn \in Nat /\ r.len \in Nat /\ s.lsn \in Nat /\ s.len \in Nat /\ committed \in Nat
      /\ areq.lsn \in Nat /\ areq.len \in Nat
  BY DEF IInv, TypeOK, Pushed, Records
<1>1. x > r.lsn - r.len /\ x <= r.lsn /\ x > s.lsn - s.len /\ x <= s.lsn
  BY <1>0 DEF BytesOf
<1>2. CASE r \in recs /\ s \in recs
  BY <1>0, <1>1, <1>2 DEF Recorded
<1>3. ASSUME NEW q \in {r, s}, q = areq, areq \notin recs
      PROVE  areq.lsn = committed + areq.len
  <2>1. areq.len # 0
    BY <1>0, <1>1, <1>3
  <2> QED BY <1>3, <2>1 DEF Recorded, Hand, Inside
<1>4. \A q \in recs : q.lsn <= committed
  BY DEF Recorded
<1>5. CASE r \notin recs /\ s \in recs
  BY <1>0, <1>1, <1>3, <1>4, <1>5 DEF Pushed
<1>6. CASE s \notin recs /\ r \in recs
  BY <1>0, <1>1, <1>3, <1>4, <1>6 DEF Pushed
<1>7. CASE r \notin recs /\ s \notin recs
  BY <1>7 DEF Pushed
<1> QED BY <1>2, <1>5, <1>6, <1>7

(* So a byte tells its record, and the parser the LSN it is stamped with.  *)
LEMMA StampOfByte ==
  ASSUME IInv, Hand, Recorded, NEW r \in Pushed, NEW x \in Int, x \in BytesOf(r)
  PROVE  StampOf(x) = r.lsn
<1>1. \E q \in Pushed : x \in BytesOf(q)
  OBVIOUS
<1>2. (CHOOSE q \in Pushed : x \in BytesOf(q)) \in Pushed /\ x \in BytesOf(CHOOSE q \in Pushed : x \in BytesOf(q))
  BY <1>1
<1>3. (CHOOSE q \in Pushed : x \in BytesOf(q)) = r
  BY <1>2, PushedApart
<1> QED BY <1>3 DEF StampOf

(* Compaction keeps every record past the covered LSN whole.               *)
LEMMA CompactedTile ==
  ASSUME IInv, Hand, Recorded, NEW f \in Seq(Nat), NEW c \in Nat, ValidPrefixLen(f) = Len(f),
         NEW r \in Pushed, NEW p \in Nat, Tile(f, Len(f), r, p), r.lsn > c
  PROVE  /\ Tile(Compacted(f, c), Len(Compacted(f, c)), r, Rank(Kept(f, c), p))
         /\ \A j \in 1 .. r.len : Rank(Kept(f, c), p + j) = Rank(Kept(f, c), p) + j
         /\ Rank(Kept(f, c), p) \in Nat
<1> DEFINE h == Compacted(f, c)
           K == Kept(f, c)
<1>1. r.len \in Nat /\ r.lsn \in Nat /\ p + r.len <= Len(f)
  BY DEF IInv, TypeOK, Pushed, Records, Tile
<1>2. /\ Len(f) \in Nat /\ K \in SUBSET (1 .. Len(f)) /\ Len(h) = Cardinality(K) /\ Len(h) \in Nat
      /\ \A n \in 1 .. Len(h) : h[n] = f[Nth(K, n)]
  BY CompactedFacts
<1>3. ASSUME NEW j \in 1 .. r.len PROVE p + j \in K
  <2>1. f[p + j] = r.lsn - r.len + j /\ j \in Nat /\ 1 <= j /\ j <= r.len
    BY <1>1 DEF Tile
  <2>2. f[p + j] \in BytesOf(r) /\ f[p + j] \in Int
    BY <1>1, <2>1 DEF BytesOf
  <2>3. StampOf(f[p + j]) = r.lsn
    BY <2>2, StampOfByte
  <2>4. p + j \in 1 .. ValidPrefixLen(f)
    BY <1>1, <1>2, <2>1
  <2> QED BY <1>1, <2>3, <2>4 DEF Kept
<1> HIDE DEF h, K
<1>4. \A j \in 0 .. r.len : Rank(K, p + j) = Rank(K, p) + j
  BY <1>1, <1>2, <1>3, RankRuns
<1>5. Rank(K, p) \in Nat /\ Rank(K, p + r.len) \in Nat /\ Rank(K, p + r.len) <= Cardinality(K)
  <2>1. p \in Int /\ p + r.len \in Int
    BY <1>1
  <2> QED BY <1>2, <2>1, RankFacts
<1>6. Rank(K, p) + r.len <= Len(h)
  <2>1. r.len \in 0 .. r.len
    BY <1>1
  <2>2. Rank(K, p + r.len) = Rank(K, p) + r.len
    BY <1>4, <2>1
  <2> QED BY <1>2, <1>5, <2>2
<1>7. ASSUME NEW j \in 1 .. r.len PROVE h[Rank(K, p) + j] = r.lsn - r.len + j
  <2>1. Rank(K, p + j) = Rank(K, p) + j
    BY <1>1, <1>4
  <2>2. Rank(K, p + j) \in 1 .. Cardinality(K) /\ Nth(K, Rank(K, p + j)) = p + j
    BY <1>2, <1>3, NthOfRank
  <2>3. h[Rank(K, p + j)] = f[Nth(K, Rank(K, p + j))]
    BY <1>2, <2>2
  <2>4. f[p + j] = r.lsn - r.len + j
    BY DEF Tile
  <2> QED BY <2>1, <2>2, <2>3, <2>4
<1>8. \A j \in 1 .. r.len : Rank(K, p + j) = Rank(K, p) + j
  BY <1>1, <1>4
<1>9. Tile(h, Len(h), r, Rank(K, p))
  BY <1>6, <1>7 DEF Tile
<1> QED BY <1>5, <1>8, <1>9 DEF h, K

(* What compaction keeps is a tiling again.                                *)
LEMMA CompactedTiled ==
  ASSUME IInv, Hand, Recorded, NEW f \in Seq(Nat), NEW c \in Nat,
         NEW R \in SUBSET Records, R \subseteq Pushed, Tiled(R, f, Len(f))
  PROVE  Tiled(R, Compacted(f, c), Len(Compacted(f, c)))
<1> DEFINE h == Compacted(f, c)
           K == Kept(f, c)
<1>1. ValidPrefixLen(f) = Len(f)
  BY TiledWhole
<1>2. /\ Len(f) \in Nat /\ K \in SUBSET (1 .. Len(f)) /\ Len(h) = Cardinality(K) /\ Len(h) \in Nat
      /\ \A n \in 1 .. Len(h) : Nth(K, n) \in 1 .. Len(f) /\ h[n] = f[Nth(K, n)]
  BY CompactedFacts
<1> SUFFICES ASSUME NEW n \in 1 .. Len(h)
             PROVE  \E r \in R : \E p \in 0 .. n - 1 : n <= p + r.len /\ Tile(h, Len(h), r, p)
  BY DEF Tiled
<1>3. PICK i \in K : i = Nth(K, n) /\ Rank(K, i) = n
  <2> HIDE DEF h, K
  <2> QED BY <1>2, NthIs
<1>4. i \in 1 .. Len(f) /\ StampOf(f[i]) > c
  BY <1>1, <1>2, <1>3 DEF Kept
<1>5. PICK r \in R, p \in 0 .. i - 1 : i <= p + r.len /\ Tile(f, Len(f), r, p)
  BY <1>4 DEF Tiled
<1>6. /\ r \in Pushed /\ r.len \in Nat /\ r.lsn \in Nat /\ p \in Nat /\ i \in Nat
      /\ i - p \in 1 .. r.len /\ p + (i - p) = i
  <2>1. r \in Pushed /\ r.len \in Nat /\ r.lsn \in Nat
    BY DEF Records
  <2>2. i \in Nat /\ p \in Nat /\ p < i
    BY <1>2, <1>4
  <2> QED BY <1>5, <2>1, <2>2
<1>7. f[i] = r.lsn - r.len + (i - p)
  <2>1. f[p + (i - p)] = r.lsn - r.len + (i - p)
    BY <1>5, <1>6 DEF Tile
  <2> QED BY <1>6, <2>1
<1>8. StampOf(f[i]) = r.lsn
  <2>1. f[i] \in BytesOf(r) /\ f[i] \in Int
    BY <1>6, <1>7 DEF BytesOf
  <2> QED BY <1>6, <2>1, StampOfByte
<1>9. /\ Tile(h, Len(h), r, Rank(K, p))
      /\ \A j \in 1 .. r.len : Rank(K, p + j) = Rank(K, p) + j
      /\ Rank(K, p) \in Nat
  BY <1>1, <1>4, <1>5, <1>6, <1>8, CompactedTile
<1> HIDE DEF h, K
<1>10. Rank(K, p + (i - p)) = Rank(K, p) + (i - p)
  BY <1>6, <1>9
<1>11. n = Rank(K, p) + (i - p)
  BY <1>3, <1>6, <1>10
<1>12. Rank(K, p) \in 0 .. n - 1 /\ n <= Rank(K, p) + r.len
  BY <1>6, <1>9, <1>11
<1> QED BY <1>9, <1>12

-----------------------------------------------------------------------------
(* Every logged record is stored, in the file or in a buffer to be         *)
(* written.                                                                *)

(* Record r is in the file.                                                *)
Filed(r) == \E p \in 0 .. Len(file) : Tile(file, Len(file), r, p)

(* Record r is in a buffer to be written.                                  *)
Held(r) ==
  \E b \in Buffers :
    Unwritten(b) /\ \E p \in 0 .. Used(b) : Tile(bytes[b], Used(b), r, p)

(* Buffers are tiled; without a failure the file and its durable prefix    *)
(* are tiled and every logged record that no snapshot covers is in the     *)
(* file or in a buffer to be written.                                      *)
Stored ==
  /\ \A b \in Buffers : Tiled(Logged, bytes[b], Used(b))
  /\ fails = 0 => Tiled(Logged, file, Len(file)) /\ Tiled(Logged, file, durLen)
  /\ fails = 0 => \A r \in Logged : r.lsn > requested => Filed(r) \/ Held(r)

(* Logged records are records append was asked to store.                   *)
LEMMA LoggedFacts ==
  /\ IInv => Logged \in SUBSET Records /\ Logged \subseteq Pushed
  /\ IInv' => Logged' \in SUBSET Records
BY DEF IInv, TypeOK, Logged, Pushed

(* The copy of try_append stores its record in the active buffer.          *)
LEMMA StoredCopy ==
  ASSUME IInv, IInv', Ownership, Hand, Ordered, Stored, TryAppendCopy
  PROVE  Stored'
<1>1. /\ apc = "copy" /\ apc' = "record" /\ UNCHANGED <<aidx, pos, areq, bstate, queue, wpc, file, durLen, fails, recs, requested>>
  BY DEF TryAppendCopy, ringVars, lsnVars, fileVars, ctlVars, applyVars, writerVars
<1>2. /\ aidx \in Buffers /\ aold \in Nat /\ areq.len \in Nat /\ areq.lsn \in Nat /\ areq \in Records
      /\ bytes \in [Buffers -> [1 .. Cap -> Nat]] /\ pos[aidx] \in Nat /\ Cap \in Nat
  BY CapAssumption DEF IInv, TypeOK, Records
<1>3. pos[aidx] = aold + areq.len /\ pos[aidx] <= Cap /\ bstate[aidx] = "ACTIVE"
  BY <1>1, <1>2 DEF Hand, Ownership, FlushHolds, ActiveHolds
<1>4. /\ Logged \in SUBSET Records /\ Logged' \in SUBSET Records
      /\ Logged \subseteq Logged' /\ Logged' = Logged \cup {areq}
  BY <1>1, LoggedFacts DEF Logged
<1>5. Used(aidx) = aold /\ \A b \in Buffers : b = aidx => Used(b)' = aold + areq.len
  BY <1>1, <1>3 DEF Used
<1>6. \A b \in Buffers : b # aidx => Used(b)' = Used(b) /\ bytes'[b] = bytes[b]
  BY <1>1, <1>2 DEF Used, TryAppendCopy
<1>7. \A i \in 1 .. aold : bytes'[aidx][i] = bytes[aidx][i]
  BY <1>2, <1>3 DEF TryAppendCopy
<1>8. ASSUME NEW i \in 1 .. areq.len PROVE bytes'[aidx][i + aold] = areq.lsn - areq.len + i
  <2>1. i + aold \in 1 .. Cap /\ i + aold \in aold + 1 .. aold + areq.len /\ (i + aold) - aold = i
    BY <1>2, <1>3
  <2>2. bytes'[aidx][i + aold] = areq.lsn - areq.len + ((i + aold) - aold)
    BY <1>2, <2>1 DEF TryAppendCopy
  <2> QED BY <2>1, <2>2
<1>9. \A b \in Buffers : Used(b) \in Nat
  BY UsedInCap
<1>10. \A b \in Buffers : Unwritten(b)' <=> Unwritten(b)
  BY <1>1 DEF Unwritten
<1>11. ASSUME NEW b \in Buffers PROVE Tiled(Logged', bytes'[b], Used(b)')
  <2>1. CASE b # aidx
    <3>1. \A i \in 1 .. Used(b) : bytes'[b][i] = bytes[b][i]
      BY <1>6, <2>1
    <3> QED BY <1>4, <1>6, <1>9, <2>1, <3>1, TiledGrows DEF Stored
  <2>2. CASE b = aidx
    <3> DEFINE h == [i \in 1 .. areq.len |-> areq.lsn - areq.len + i]
    <3>1. Tiled(Logged', h, areq.len)
      <4> SUFFICES ASSUME NEW i \in 1 .. areq.len
                   PROVE  \E r \in Logged' : \E p \in 0 .. i - 1 : i <= p + r.len /\ Tile(h, areq.len, r, p)
        BY DEF Tiled
      <4>1. 0 \in 0 .. i - 1 /\ i <= 0 + areq.len /\ areq \in Logged'
        BY <1>2, <1>4
      <4>2. Tile(h, areq.len, areq, 0)
        BY <1>2 DEF Tile
      <4> QED BY <4>1, <4>2
    <3>2. Tiled(Logged', bytes[aidx], aold)
      <4>1. Tiled(Logged, bytes[aidx], aold)
        BY <1>2, <1>5 DEF Stored
      <4> QED BY <1>2, <1>4, <4>1, TiledGrows
    <3>3. \A i \in 1 .. areq.len : bytes'[aidx][i + aold] = h[i]
      BY <1>8
    <3> HIDE DEF h
    <3>4. Tiled(Logged', bytes'[aidx], aold + areq.len)
      BY <1>2, <1>4, <1>7, <3>1, <3>2, <3>3, TiledJoin
    <3> QED BY <1>5, <2>2, <3>4
  <2> QED BY <2>1, <2>2
<1>12. ASSUME fails' = 0
       PROVE  Tiled(Logged', file', Len(file')) /\ Tiled(Logged', file', durLen')
  <2>1. Len(file) \in Nat /\ durLen \in Nat
    BY DEF Ordered, InFile
  <2>2. Tiled(Logged, file, Len(file)) /\ Tiled(Logged, file, durLen)
    BY <1>1, <1>12 DEF Stored
  <2>3. Tiled(Logged', file, Len(file)) /\ Tiled(Logged', file, durLen)
    BY <1>4, <2>1, <2>2, TiledGrows
  <2> QED BY <1>1, <2>3
<1>13. ASSUME NEW r \in Logged, Held(r) PROVE Held(r)'
  <2>0. PICK b \in Buffers : Unwritten(b) /\ \E p \in 0 .. Used(b) : Tile(bytes[b], Used(b), r, p)
    BY <1>13 DEF Held
  <2>1. PICK p \in 0 .. Used(b) : Unwritten(b) /\ Tile(bytes[b], Used(b), r, p)
    BY <2>0
  <2>2. r \in Records /\ Used(b) \in Nat /\ p \in Nat
    BY <1>4, <1>9
  <2>3. CASE b # aidx
    <3>1. Tile(bytes'[b], Used(b)', r, p) /\ p \in 0 .. Used(b)'
      BY <1>6, <2>1, <2>3
    <3> QED BY <1>10, <2>1, <3>1 DEF Held
  <2>4. CASE b = aidx
    <3>1. Used(b) = aold /\ Used(b)' = aold + areq.len
      BY <1>5, <2>4
    <3>2. \A i \in 1 .. aold : bytes'[b][i + 0] = bytes[b][i]
      BY <1>7, <2>4
    <3>3. aold + 0 <= aold + areq.len /\ aold + areq.len \in Nat /\ p + 0 = p /\ p \in 0 .. aold + areq.len
      BY <1>2, <2>2, <3>1
    <3>4. Tile(bytes'[b], aold + areq.len, r, p + 0)
      BY <1>2, <2>1, <2>2, <3>1, <3>2, <3>3, TileMoves
    <3>5. Tile(bytes'[b], Used(b)', r, p) /\ p \in 0 .. Used(b)'
      BY <3>1, <3>3, <3>4
    <3> QED BY <1>10, <2>1, <3>5 DEF Held
  <2> QED BY <2>3, <2>4
<1>14. Held(areq)'
  <2>1. Unwritten(aidx)'
    BY <1>1, <1>3 DEF Unwritten
  <2>2. \A j \in 1 .. areq.len : j + aold = aold + j
    BY <1>2
  <2>3. Tile(bytes'[aidx], aold + areq.len, areq, aold)
    BY <1>2, <1>8, <2>2 DEF Tile
  <2>4. aold \in 0 .. aold + areq.len
    BY <1>2
  <2>5. \A b \in Buffers : b = aidx => (Unwritten(b)' /\ \E p \in 0 .. Used(b)' : Tile(bytes'[b], Used(b)', areq', p))
    BY <1>1, <1>3, <1>5, <1>10, <2>3, <2>4 DEF Unwritten
  <2> QED BY <1>2, <2>5 DEF Held
<1>15. ASSUME fails' = 0, NEW r \in Logged', r.lsn > requested' PROVE Filed(r)' \/ Held(r)'
  <2>1. CASE r = areq
    <3>1. areq' = r
      BY <1>1, <2>1
    <3> QED BY <1>14, <3>1
  <2>2. CASE r \in Logged
    <3>1. Filed(r) \/ Held(r)
      BY <1>1, <1>15, <2>2 DEF Stored
    <3>2. Filed(r) => Filed(r)'
      BY <1>1 DEF Filed
    <3> QED BY <1>13, <2>2, <3>1, <3>2
  <2> QED BY <1>4, <2>1, <2>2
<1> QED BY <1>11, <1>12, <1>15 DEF Stored

(* The buffers stay tiled in every other step.                             *)
LEMMA BuffersTiled ==
  ASSUME IInv, IInv', Ownership, Hand, Stored, UsedKept, LoggedKept, NEW b \in Buffers
  PROVE  Tiled(Logged', bytes'[b], Used(b)')
<1>1. Logged \in SUBSET Records /\ Logged' = Logged
  BY LoggedFacts DEF LoggedKept
<1>2. bytes' = bytes /\ (Used(b)' = Used(b) \/ Used(b)' = 0) /\ Tiled(Logged, bytes[b], Used(b))
  BY DEF UsedKept, Stored
<1>3. CASE Used(b)' = Used(b)
  BY <1>1, <1>2, <1>3
<1>4. CASE Used(b)' = 0
  <2>1. 1 .. 0 = {}
    OBVIOUS
  <2> QED BY <1>4, <2>1 DEF Tiled
<1> QED BY <1>2, <1>3, <1>4

(* A held record stays held, unless its buffer is written now.             *)
LEMMA HeldStays ==
  ASSUME IInv, Ownership, Hand, Recorded, UsedKept, UnwrittenKept, fails' = 0,
         NEW r \in Logged, Held(r)
  PROVE  \/ Held(r)'
         \/ WriteOk /\ \E p \in 0 .. Used(wbuf) : Tile(bytes[wbuf], Used(wbuf), r, p)
<1>1. PICK b \in Buffers : Unwritten(b) /\ \E p \in 0 .. Used(b) : Tile(bytes[b], Used(b), r, p)
  BY DEF Held
<1>2. PICK p \in 0 .. Used(b) : Tile(bytes[b], Used(b), r, p)
  BY <1>1
<1>3. r.len \in Nat /\ r.len > 0 /\ Used(b) \in Nat
  <2>1. r \in Records /\ r.len > 0
    BY LoggedFacts DEF Logged, Recorded, Hand, Inside
  <2> QED BY <2>1, UsedInCap DEF Records
<1>4. Used(b) > 0
  BY <1>2, <1>3 DEF Tile
<1>5. /\ Used(b)' = Used(b) /\ bytes' = bytes
      /\ Unwritten(b)' \/ (WriteOk /\ b = wbuf)
  BY <1>1, <1>4 DEF UnwrittenKept, UsedKept
<1>6. CASE Unwritten(b)'
  <2>1. p \in 0 .. Used(b)' /\ Tile(bytes'[b], Used(b)', r, p)
    BY <1>2, <1>5
  <2> QED BY <1>6, <2>1 DEF Held
<1>7. CASE WriteOk /\ b = wbuf
  BY <1>2, <1>7
<1> QED BY <1>5, <1>6, <1>7

(* Storage survives a step that does not touch the file, fsync included.   *)
LEMMA StoredQuiet ==
  ASSUME IInv, IInv', Ownership, Hand, Ordered, Recorded, Stored,
         UsedKept, LoggedKept, UnwrittenKept, ~WriteOk, fails' = 0,
         UNCHANGED file, durLen' = durLen \/ durLen' = Len(file)
  PROVE  Stored'
<1>1. Logged' = Logged /\ requested' >= requested /\ fails = 0 /\ requested \in Nat /\ requested' \in Nat
  BY DEF LoggedKept, IInv, TypeOK
<1>2. Tiled(Logged', file', Len(file')) /\ Tiled(Logged', file', durLen')
  BY <1>1 DEF Stored
<1>3. ASSUME NEW r \in Logged', r.lsn > requested' PROVE Filed(r)' \/ Held(r)'
  <2>1. r \in Logged /\ r.lsn \in Nat
    BY <1>1, LoggedFacts DEF Records
  <2>2. Filed(r) \/ Held(r)
    BY <1>1, <1>3, <2>1 DEF Stored
  <2>3. Filed(r) => Filed(r)'
    BY DEF Filed
  <2> QED BY <2>1, <2>2, <2>3, HeldStays
<1> QED BY <1>2, <1>3, BuffersTiled DEF Stored

(* Storage survives a write: the records of the buffer are in the file.    *)
LEMMA StoredWrite ==
  ASSUME IInv, IInv', Ownership, Hand, Ordered, Recorded, Stored,
         UsedKept, LoggedKept, UnwrittenKept, WriteOk, fails' = 0
  PROVE  Stored'
<1>1. Logged' = Logged /\ requested' >= requested /\ fails = 0 /\ requested \in Nat /\ requested' \in Nat
  BY DEF LoggedKept, IInv, TypeOK
<1>2. /\ wpc = "write" /\ wbuf \in Buffers /\ bytes[wbuf] \in [1 .. Cap -> Nat]
      /\ file' = file \o SubSeq(bytes[wbuf], 1, wend) /\ durLen' = durLen
  BY DEF WriteOk, IInv, TypeOK
<1>3. bstate[wbuf] = "FLUSHING" /\ wend = Used(wbuf)
  BY <1>2 DEF Hand, Used, Ownership, FlushHolds, Flushing, ActiveHolds
<1>4. Used(wbuf) \in Nat /\ Used(wbuf) <= Cap /\ wend \in 0 .. Cap /\ Cap \in Nat
  BY <1>2, <1>3, UsedInCap, CapAssumption
<1>5. file \in Seq(Nat) /\ durLen \in Nat /\ durLen <= Len(file) /\ Len(file) \in Nat
  BY DEF Ordered, InFile
<1>6. /\ Len(file') = Len(file) + wend
      /\ \A i \in 1 .. Len(file) : file'[i] = file[i]
      /\ \A i \in 1 .. wend : file'[Len(file) + i] = bytes[wbuf][i]
  <2> DEFINE g == bytes[wbuf]
  <2>1. g \in [1 .. Cap -> Nat] /\ file' = file \o SubSeq(g, 1, wend)
    BY <1>2
  <2> HIDE DEF g
  <2>2. /\ Len(file') = Len(file) + wend
        /\ \A i \in 1 .. Len(file) : file'[i] = file[i]
        /\ \A i \in 1 .. wend : file'[Len(file) + i] = g[i]
    BY <1>4, <1>5, <2>1, JoinFacts
  <2> QED BY <2>2 DEF g
<1>7. \A i \in 1 .. wend : file'[i + Len(file)] = bytes[wbuf][i]
  <2>1. \A i \in 1 .. wend : i + Len(file) = Len(file) + i
    BY <1>4, <1>5
  <2> QED BY <1>6, <2>1
<1>8. Logged \in SUBSET Records
  BY LoggedFacts
<1>9. Tiled(Logged, file, Len(file)) /\ Tiled(Logged, file, durLen) /\ Tiled(Logged, bytes[wbuf], wend)
  BY <1>1, <1>2, <1>3 DEF Stored
<1>10. Tiled(Logged', file', Len(file'))
  BY <1>1, <1>3, <1>4, <1>5, <1>6, <1>7, <1>8, <1>9, TiledJoin
<1>11. Tiled(Logged', file', durLen')
  <2>1. \A i \in 1 .. durLen : file'[i] = file[i]
    BY <1>5, <1>6
  <2>2. Tiled(Logged, file', durLen)
    BY <1>5, <1>8, <1>9, <2>1, TiledGrows
  <2> QED BY <1>1, <1>2, <2>2
<1>12. ASSUME NEW r \in Logged', r.lsn > requested' PROVE Filed(r)' \/ Held(r)'
  <2>1. r \in Logged /\ r \in Records /\ r.lsn \in Nat /\ r.len \in Nat
    BY <1>1, <1>8 DEF Records
  <2>2. Filed(r) \/ Held(r)
    BY <1>1, <1>12, <2>1 DEF Stored
  <2>3. CASE Filed(r)
    <3>1. PICK p \in 0 .. Len(file) : Tile(file, Len(file), r, p)
      BY <2>3 DEF Filed
    <3>2. p \in Nat /\ p + 0 = p /\ Len(file) + 0 <= Len(file') /\ Len(file') \in Nat /\ p \in 0 .. Len(file')
      BY <1>3, <1>4, <1>5, <1>6
    <3>3. \A i \in 1 .. Len(file) : file'[i + 0] = file[i]
      BY <1>5, <1>6
    <3>4. Tile(file', Len(file'), r, p + 0)
      BY <1>5, <2>1, <3>1, <3>2, <3>3, TileMoves
    <3> QED BY <3>2, <3>4 DEF Filed
  <2>4. ASSUME NEW p \in 0 .. Used(wbuf), Tile(bytes[wbuf], Used(wbuf), r, p)
        PROVE  Filed(r)'
    <3>1. /\ p \in Nat /\ wend \in Nat /\ wend + Len(file) <= Len(file') /\ Len(file') \in Nat
          /\ p + Len(file) \in 0 .. Len(file')
      BY <1>3, <1>4, <1>5, <1>6
    <3>2. Tile(bytes[wbuf], wend, r, p)
      BY <1>3, <2>4
    <3>3. Tile(file', Len(file'), r, p + Len(file))
      BY <1>5, <1>7, <2>1, <3>1, <3>2, TileMoves
    <3> QED BY <3>1, <3>3 DEF Filed
  <2> QED BY <2>1, <2>2, <2>3, <2>4, HeldStays
<1> QED BY <1>10, <1>11, <1>12, BuffersTiled DEF Stored

(* Storage survives a compaction: it drops only what a snapshot covers.    *)
LEMMA StoredReclaim ==
  ASSUME IInv, IInv', Ownership, Hand, Ordered, Recorded, Stored,
         UsedKept, LoggedKept, UnwrittenKept, ~WriteOk, fails' = 0,
         file' = Compacted(file, requested), durLen' = Len(file')
  PROVE  Stored'
<1>1. Logged' = Logged /\ requested' >= requested /\ fails = 0 /\ requested \in Nat /\ requested' \in Nat
  BY DEF LoggedKept, IInv, TypeOK
<1>2. file \in Seq(Nat) /\ Logged \in SUBSET Records /\ Logged \subseteq Pushed
  BY LoggedFacts DEF Ordered, InFile
<1>3. Tiled(Logged, file, Len(file))
  BY <1>1 DEF Stored
<1>4. Tiled(Logged', file', Len(file')) /\ Tiled(Logged', file', durLen')
  BY <1>1, <1>2, <1>3, CompactedTiled
<1>5. ASSUME NEW r \in Logged', r.lsn > requested' PROVE Filed(r)' \/ Held(r)'
  <2>1. r \in Logged /\ r \in Pushed /\ r.lsn \in Nat /\ r.len \in Nat /\ r.lsn > requested
    <3>1. r \in Logged /\ r \in Pushed /\ r.lsn \in Nat /\ r.len \in Nat
      BY <1>1, <1>2 DEF Records
    <3> QED BY <1>1, <1>5, <3>1
  <2>2. Filed(r) \/ Held(r)
    BY <1>1, <2>1 DEF Stored
  <2>3. CASE Filed(r)
    <3>1. PICK p \in 0 .. Len(file) : Tile(file, Len(file), r, p)
      BY <2>3 DEF Filed
    <3>2. ValidPrefixLen(file) = Len(file)
      BY <1>2, <1>3, TiledWhole
    <3>3. p \in Nat
      BY <1>2
    <3> DEFINE q == Rank(Kept(file, requested), p)
    <3>4. Tile(file', Len(file'), r, q) /\ q \in Nat
      BY <1>1, <1>2, <2>1, <3>1, <3>2, <3>3, CompactedTile
    <3>5. Len(file') \in Nat
      BY <1>2, CompactedFacts
    <3> HIDE DEF q
    <3>6. q \in 0 .. Len(file')
      BY <2>1, <3>4, <3>5 DEF Tile
    <3> QED BY <3>4, <3>6 DEF Filed
  <2> QED BY <2>1, <2>2, <2>3, HeldStays
<1> QED BY <1>4, <1>5, BuffersTiled DEF Stored

(* Every step preserves the storage.                                       *)
LEMMA StoredStep ==
  ASSUME IInv, IInv', Ownership, Hand, Ordered, Recorded, Stored, [Next]_vars
  PROVE  Stored'
<1>1. CASE TryAppendCopy
  BY <1>1, StoredCopy
<1>2. CASE ~TryAppendCopy
  <2>1. UsedKept /\ Forward /\ LoggedKept /\ UnwrittenKept
    BY <1>2, UsedMoves, ForwardMoves, LoggedMoves, UnwrittenMoves
  <2>2. CASE fails' # 0
    BY <2>1, <2>2, BuffersTiled DEF Stored
  <2>3. CASE fails' = 0 /\ WriteOk
    BY <2>1, <2>3, StoredWrite
  <2>4. CASE fails' = 0 /\ WriteErr
    <3>1. fails' = fails + 1 /\ fails \in Nat
      BY <2>4 DEF WriteErr, IInv, TypeOK
    <3> QED BY <2>4, <3>1
  <2>5. CASE fails' = 0 /\ (ReclaimOk \/ ReclaimErr)
    <3>1. ~ReclaimErr
      <4>1. ReclaimErr => fails' = fails + 1 /\ fails \in Nat
        BY DEF ReclaimErr, IInv, TypeOK
      <4> QED BY <2>5, <4>1
    <3>2. file' = Compacted(file, requested) /\ durLen' = Len(file') /\ ~WriteOk
      BY <2>5, <3>1 DEF ReclaimOk, WriteOk
    <3> QED BY <2>1, <2>5, <3>2, StoredReclaim
  <2>6. CASE fails' = 0 /\ ~FileStep
    <3>1. UNCHANGED file /\ (durLen' = durLen \/ durLen' = Len(file)) /\ ~WriteOk
      BY <2>1, <2>6 DEF Forward, FileStep, SyncOk
    <3> QED BY <2>1, <2>6, <3>1, StoredQuiet
  <2> QED BY <2>2, <2>3, <2>4, <2>5, <2>6 DEF FileStep
<1> QED BY <1>1, <1>2

(* A record in the durable prefix can be read back from it.                *)
LEMMA DurableReadable ==
  ASSUME IInv, Ordered, Stored, fails = 0, NEW r \in recs, NEW p \in Nat, Tile(file, durLen, r, p)
  PROVE  ReadableIn(Durable, r)
<1> DEFINE d == Durable
<1>1. file \in Seq(Nat) /\ durLen \in Nat /\ durLen <= Len(file)
  BY DEF Ordered, InFile
<1>2. d \in Seq(Nat) /\ Len(d) = durLen /\ \A i \in 1 .. durLen : d[i] = file[i]
  BY <1>1 DEF Durable
<1> HIDE DEF d
<1>3. Logged \in SUBSET Records /\ Logged \subseteq Pushed /\ r \in Records
  BY LoggedFacts DEF IInv, TypeOK
<1>4. Tiled(Logged, file, durLen)
  BY DEF Stored
<1>5. Tiled(Logged, d, Len(d))
  <2>1. Tiled(Logged, d, durLen)
    BY <1>1, <1>2, <1>3, <1>4, TiledGrows
  <2> QED BY <1>2, <2>1
<1>6. ValidPrefixLen(d) = durLen
  BY <1>2, <1>3, <1>5, TiledWhole
<1>7. r.len \in Nat /\ p + r.len <= durLen
  BY <1>3 DEF Records, Tile
<1>8. p \in 0 .. ValidPrefixLen(d) - r.len
  BY <1>1, <1>6, <1>7
<1>9. \A j \in 1 .. r.len : d[p + j] = r.lsn - r.len + j
  <2> SUFFICES ASSUME NEW j \in 1 .. r.len PROVE d[p + j] = r.lsn - r.len + j
    OBVIOUS
  <2>1. p + j \in 1 .. durLen
    BY <1>1, <1>7
  <2> QED BY <1>2, <2>1 DEF Tile
<1> QED BY <1>8, <1>9 DEF ReadableIn, d

(* The invariant behind the storage theorems.                              *)
SInv == RInv /\ Recorded /\ Drained /\ Stored

(* It holds initially ...                                                  *)
LEMMA InitStored == Init => SInv
<1> SUFFICES ASSUME Init PROVE SInv
  OBVIOUS
<1>1. RInv
  BY InitInv, InitOwned, InitOrdered DEF RInv
<1>2. Recorded
  BY DEF Init, Recorded
<1>3. Drained
  BY DEF Init, Drained, Flushing
<1>4. 1 .. 0 = {} /\ Len(file) = 0 /\ Logged = {} /\ durLen = 0
  BY DEF Init, Logged
<1>5. \A b \in Buffers : Used(b) = 0
  BY DEF Init, Used
<1>6. Stored
  BY <1>4, <1>5 DEF Stored, Tiled
<1> QED BY <1>1, <1>2, <1>3, <1>6 DEF SInv

(* ... and every step preserves it.                                        *)
LEMMA SInvStep ==
  ASSUME KeptApart', SInv, [Next]_vars
  PROVE  SInv'
<1>1. RInv'
  BY RingStep DEF SInv
<1>2. Recorded' /\ Drained'
  BY RecordedStep, DrainedStep DEF SInv, RInv, Ordered
<1>3. Stored'
  BY <1>1, StoredStep DEF SInv, RInv
<1> QED BY <1>1, <1>2, <1>3 DEF SInv

(* A record still in a buffer is past the written watermark, and the       *)
(* writer thread does not end before it is written.                        *)
LEMMA NotFiled ==
  ASSUME SInv, NEW r \in recs, Held(r)
  PROVE  /\ r.lsn > written
         /\ wpc # "done"
<1>0. IInv /\ Ownership /\ Hand /\ Ordered
  BY DEF SInv, RInv
<1>1. PICK b \in Buffers : Unwritten(b) /\ \E p \in 0 .. Used(b) : Tile(bytes[b], Used(b), r, p)
  BY DEF Held
<1>2. PICK p \in 0 .. Used(b) : Tile(bytes[b], Used(b), r, p)
  BY <1>1
<1>3. r.len \in Nat /\ r.lsn \in Nat /\ r.len > 0 /\ written \in Nat
  BY <1>0 DEF SInv, Recorded, IInv, TypeOK, Records
<1>4. Used(b) \in Nat
  BY <1>0, UsedInCap
<1>5. p + r.len \in 1 .. Used(b) /\ r.len \in 1 .. r.len
  BY <1>2, <1>3, <1>4 DEF Tile
<1>6. bytes[b][p + r.len] = r.lsn
  <2>1. bytes[b][p + r.len] = r.lsn - r.len + r.len
    BY <1>2, <1>5 DEF Tile
  <2> QED BY <1>3, <2>1
<1>7. r.lsn > written
  BY <1>0, <1>1, <1>5, <1>6 DEF Ordered, Stamped
<1>8. ASSUME wpc = "done" PROVE FALSE
  <2>1. /\ final /\ shutdown /\ queue = <<>>
        /\ \A c \in Buffers : bstate[c] = "ACTIVE" => pos[c] = 0
    BY <1>8 DEF SInv, Drained
  <2>2. apc = "exited"
    BY <1>0, <2>1 DEF Ownership, Exclusive
  <2>3. Len(queue) = 0 /\ 1 .. 0 = {}
    BY <2>1
  <2>4. bstate[b] # "FLUSHING" /\ bstate[b] # "SEALED"
    BY <1>0, <1>8, <2>2, <2>3 DEF Ownership, FlushHolds, Flushing, QueueHolds, IsQueued
  <2>5. Used(b) = 0
    BY <1>1, <2>1, <2>2, <2>4 DEF Unwritten, Used
  <2> QED BY <1>5, <2>3, <2>5
<1> QED BY <1>7, <1>8

(* What the invariant says about acknowledged records.                     *)
LEMMA StoredConclusion == (KeptApart => SInv) => SyncedUnlessFailed /\ ShutdownKeepsAll
<1> SUFFICES ASSUME KeptApart, SInv PROVE SyncedUnlessFailed /\ ShutdownKeepsAll
  BY DEF SyncedUnlessFailed, ShutdownKeepsAll
<1>0. IInv /\ Ownership /\ Hand /\ Ordered /\ Stored
  BY DEF SInv, RInv
<1>1. ASSUME fails = 0, NEW r \in recs, r.lsn > requested, r.lsn <= synced \/ wpc = "done"
      PROVE  ReadableIn(Durable, r)
  <2>1. r.len \in Nat /\ r.lsn \in Nat /\ r.len > 0 /\ synced \in Nat /\ written \in Nat /\ synced <= written
    BY <1>0 DEF SInv, Recorded, IInv, TypeOK, Records, WatermarkOrder
  <2>2. r \in Logged
    BY DEF Logged
  <2>3. Filed(r)
    <3>1. Filed(r) \/ Held(r)
      BY <1>0, <1>1, <2>2 DEF Stored
    <3> QED BY <1>1, <2>1, <3>1, NotFiled
  <2>4. PICK p \in 0 .. Len(file) : Tile(file, Len(file), r, p)
    BY <2>3 DEF Filed
  <2>5. file \in Seq(Nat) /\ Len(file) \in Nat /\ durLen \in Nat /\ p \in Nat
    BY <1>0 DEF Ordered, InFile
  <2>6. p + r.len <= Len(file) /\ r.len \in 1 .. r.len
    BY <2>1, <2>4 DEF Tile
  <2>7. file[p + r.len] = r.lsn
    <3>1. file[p + r.len] = r.lsn - r.len + r.len
      BY <2>4, <2>6 DEF Tile
    <3> QED BY <2>1, <3>1
  <2>8. p + r.len <= durLen
    <3>1. CASE wpc = "done"
      BY <1>1, <2>6, <3>1 DEF SInv, Drained
    <3>2. CASE r.lsn <= synced
      <4>1. p + r.len > durLen => p + r.len \in durLen + 1 .. Len(file)
        BY <2>1, <2>5, <2>6
      <4>2. p + r.len > durLen => file[p + r.len] > synced
        BY <1>0, <4>1 DEF Ordered, InFile
      <4> QED BY <2>1, <2>5, <2>7, <3>2, <4>2
    <3> QED BY <1>1, <3>1, <3>2
  <2>9. Tile(file, durLen, r, p)
    BY <2>4, <2>8 DEF Tile
  <2> QED BY <1>0, <1>1, <2>5, <2>9, DurableReadable
<1> QED BY <1>1 DEF SyncedUnlessFailed, SyncedReadable, ShutdownKeepsAll

(* As long as no seal_active has met an append, the invariant holds.       *)
LEMMA StoredWhileApart == Spec => [](KeptApart => SInv)
<1>1. (KeptApart => SInv) /\ [Next]_vars => (KeptApart => SInv)'
  BY ApartBefore, SInvStep
<1> QED BY <1>1, InitStored, PTL DEF Spec

(* The synced watermark is honest as long as no system call failed and no  *)
(* seal_active met an append: every acknowledged record at or below it     *)
(* that no snapshot covers can be read back from the fsynced file          *)
(* (wal_writer.rs: flush_sealed_buffers, maybe_reclaim_wal_file).          *)
THEOREM SyncedIsReadable == Spec => []SyncedUnlessFailed
BY StoredWhileApart, StoredConclusion, PTL

(* A clean shutdown loses nothing: after the writer thread's final round   *)
(* every acknowledged record that no snapshot covers is durable and        *)
(* readable, unless a system call failed or a seal_active met an append    *)
(* (wal_writer.rs: run_writer_loop).                                       *)
THEOREM ShutdownKeepsEverything == Spec => []ShutdownKeepsAll
BY StoredWhileApart, StoredConclusion, PTL

=============================================================================
