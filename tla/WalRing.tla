------------------------------ MODULE WalRing ------------------------------
(***************************************************************************)
(* The data-plane write-ahead log: the ring of WAL buffers, the three LSN  *)
(* watermarks and the writer thread that flushes sealed buffers            *)
(* (crates/beava-runtime-core: wal_buffer.rs, wal_lsn.rs, wal_writer.rs).  *)
(*                                                                         *)
(* Two threads run: the apply thread inside WalBufferRing::append and the  *)
(* writer thread inside run_writer_loop.  They share atomics only, so one  *)
(* action is one access to shared state (or a few whose order no other     *)
(* thread can observe) and each thread has a program counter.              *)
(*                                                                         *)
(* An LSN is a byte offset.  A record that ends at LSN l and is n bytes    *)
(* long owns the bytes l-n+1 .. l; a buffer and the file hold bytes, each  *)
(* named by its LSN, and 0 is a byte nothing was ever copied into.         *)
(***************************************************************************)
EXTENDS Integers, Sequences, FiniteSets

CONSTANTS
  NBuf,      \* number of buffers in the ring
  Cap,       \* capacity of a buffer in bytes
  Lens,      \* record lengths the apply thread pushes
  SinkLsns,  \* LSNs the registry WAL may hand to a registration
  SnapLsns,  \* LSNs a snapshot may cover
  MaxLsn,    \* bound on the LSNs handed out
  MaxFail    \* bound on failing write / fsync / compaction calls

ASSUME NBufAssumption == NBuf \in Nat /\ NBuf >= 2
ASSUME CapAssumption == Cap \in Nat \ {0}
ASSUME LensAssumption == Lens \subseteq Nat \ {0}
ASSUME SinkAssumption == SinkLsns \subseteq Nat /\ SnapLsns \subseteq Nat
ASSUME BoundAssumption == MaxLsn \in Nat /\ MaxFail \in Nat

Buffers == 0 .. NBuf - 1
NoBuf == NBuf

VARIABLES
  bstate,     \* lifecycle state of each buffer
  pos,        \* bytes reserved in each buffer
  bytes,      \* the byte stored at each offset of each buffer
  hi,         \* lsn_hi of each buffer
  activeIdx,  \* index of the buffer append writes to
  queue,      \* sealed_queue
  committed, written, synced,   \* the watermarks of WalLsn
  file,       \* bytes of the .wal file (page cache included)
  durLen,     \* length of the prefix of file that fsync made durable
  sinkLsn,    \* durable LSN of the registry WAL
  requested, reclaimed,         \* WalReclaimHandle and reclaimed_lsn
  shutdown, final,              \* shutdown flag; last round of the loop
  fails,      \* failed system calls so far
  apc, areq, aidx, aold, afree, \* apply thread: pc and locals
  wpc, wbuf, wfree, wlsn, wend, \* writer thread: pc and locals
  recs,       \* history: records append has returned from
  overlap     \* history: phases of append a seal_active ran into

ringVars == <<bstate, pos, bytes, hi, activeIdx, queue>>
lsnVars == <<committed, written, synced>>
fileVars == <<file, durLen, reclaimed, fails>>
ctlVars == <<sinkLsn, requested, shutdown, final, overlap>>
applyVars == <<apc, areq, aidx, aold, afree, recs>>
writerVars == <<wpc, wbuf, wfree, wlsn, wend>>
vars == <<ringVars, lsnVars, fileVars, ctlVars, applyVars, writerVars>>

Larger(a, b) == IF a >= b THEN a ELSE b

(* One record, by the LSN append returns for it and its length. *)
Records == [lsn : Nat, len : Nat]
BytesOf(r) == r.lsn - r.len + 1 .. r.lsn

(* Mutant: a buffer still being flushed counts as free. *)
NotInUse == {b \in Buffers : bstate[b] \notin {"ACTIVE", "SEALED"}}

FreeBuffers == {b \in Buffers : bstate[b] = "FREE"}

(* Mutant: an index past the buffer found. *)
FindFreeNext ==
  IF FreeBuffers = {} THEN NoBuf
  ELSE 1 + CHOOSE b \in FreeBuffers : \A c \in FreeBuffers : b <= c

(* find_free_buffer: the first buffer in FREE state, or none. *)
FindFree ==
  IF FreeBuffers = {} THEN NoBuf
  ELSE CHOOSE b \in FreeBuffers : \A c \in FreeBuffers : b <= c

Init ==
  /\ bstate = [b \in Buffers |-> IF b = 0 THEN "ACTIVE" ELSE "FREE"]
  /\ pos = [b \in Buffers |-> 0]
  /\ bytes = [b \in Buffers |-> [i \in 1 .. Cap |-> 0]]
  /\ hi = [b \in Buffers |-> 0]
  /\ activeIdx = 0 /\ queue = <<>>
  /\ committed = 0 /\ written = 0 /\ synced = 0
  /\ file = <<>> /\ durLen = 0 /\ reclaimed = 0 /\ fails = 0
  /\ sinkLsn = 0 /\ requested = 0 /\ shutdown = FALSE /\ final = FALSE
  /\ apc = "idle" /\ areq = [lsn |-> 0, len |-> 0]
  /\ aidx = 0 /\ aold = 0 /\ afree = 0 /\ recs = {}
  /\ wpc = "sleep" /\ wbuf = 0 /\ wfree = 0 /\ wlsn = 0 /\ wend = 0
  /\ overlap = {}

-----------------------------------------------------------------------------
(* seal_active runs on the writer thread at any time, wherever the apply   *)
(* thread is in append: nothing in wal_buffer.rs keeps the two apart.      *)
(* overlap remembers that it happened: "inside" when a seal met an append  *)
(* that was running, "blocked" when it met one waiting on free_condvar.    *)

Phase == CASE apc \in {"idle", "exited"} -> "idle"
           [] apc = "waiting" -> "blocked"
           [] OTHER -> "inside"
Sealing == wpc \in {"sealcheck", "sealread", "sealstore", "enqueue",
                    "activate", "swap"}
Meeting(sealing, phase) ==
  overlap' = IF sealing /\ phase # "idle" THEN overlap \cup {phase} ELSE overlap

-----------------------------------------------------------------------------
(* Apply thread. *)

(* dispatch_push_sync: jump past the registry WAL, stamp the record with   *)
(* the LSN it will get, call append.                                       *)
Push(n) ==
  /\ apc = "idle"
  /\ LET base == Larger(committed, sinkLsn)
     IN  /\ base + n <= MaxLsn
         /\ committed' = base
         /\ areq' = [lsn |-> base + n, len |-> n]
  /\ apc' = "load"
  /\ Meeting(Sealing, "inside")
  /\ UNCHANGED <<ringVars, written, synced, fileVars, sinkLsn, requested,
                 shutdown, final, aidx, aold, afree, recs, writerVars>>

AppendLoad ==
  /\ apc = "load"
  /\ aidx' = activeIdx
  /\ apc' = "check"
  /\ UNCHANGED <<ringVars, lsnVars, fileVars, ctlVars,
                 areq, aold, afree, recs, writerVars>>

(* Mutant: append trusts active_idx and does not look at the state. *)
AppendUnchecked ==
  /\ apc = "check"
  /\ apc' = "reserve"
  /\ UNCHANGED <<ringVars, lsnVars, fileVars, ctlVars,
                 areq, aidx, aold, afree, recs, writerVars>>

(* The guard of append: anything but ACTIVE goes to                        *)
(* wait_for_free_and_activate, which ignores the stale index.              *)
AppendCheck ==
  /\ apc = "check"
  /\ apc' = IF bstate[aidx] = "ACTIVE" THEN "reserve" ELSE "find"
  /\ UNCHANGED <<ringVars, lsnVars, fileVars, ctlVars,
                 areq, aidx, aold, afree, recs, writerVars>>

(* try_append: reserve with fetch_add, then copy, or undo on overflow. *)
TryAppendReserve ==
  /\ apc = "reserve"
  /\ aold' = pos[aidx]
  /\ pos' = [pos EXCEPT ![aidx] = @ + areq.len]
  /\ apc' = IF pos[aidx] + areq.len > Cap THEN "undo" ELSE "copy"
  /\ UNCHANGED <<bstate, bytes, hi, activeIdx, queue, lsnVars, fileVars,
                 ctlVars, areq, aidx, afree, recs, writerVars>>

TryAppendUndo ==
  /\ apc = "undo"
  /\ pos' = [pos EXCEPT ![aidx] = aold]
  /\ apc' = "seal"
  /\ UNCHANGED <<bstate, bytes, hi, activeIdx, queue, lsnVars, fileVars,
                 ctlVars, areq, aidx, aold, afree, recs, writerVars>>

TryAppendCopy ==
  /\ apc = "copy"
  /\ bytes' = [bytes EXCEPT ![aidx] =
       [i \in 1 .. Cap |-> IF i \in aold + 1 .. aold + areq.len
                           THEN areq.lsn - areq.len + (i - aold) ELSE @[i]]]
  /\ apc' = "record"
  /\ UNCHANGED <<bstate, pos, hi, activeIdx, queue, lsnVars, fileVars,
                 ctlVars, areq, aidx, aold, afree, recs, writerVars>>

(* WalLsn::record, and append returns: the push is acknowledged. *)
AppendRecord ==
  /\ apc = "record"
  /\ committed' = committed + areq.len
  /\ recs' = recs \cup {areq}
  /\ apc' = "idle"
  /\ UNCHANGED <<ringVars, written, synced, fileVars, ctlVars,
                 areq, aidx, aold, afree, writerVars>>

(* Mutant: the LSN the record in hand is going to get. *)
ExpectedLsn == areq.lsn

(* The LSN a buffer is sealed with. *)
SealLsn == committed

(* do_seal_and_swap: seal the full buffer ... *)
SealFull ==
  /\ apc = "seal"
  /\ hi' = [hi EXCEPT ![aidx] = SealLsn]
  /\ bstate' = [bstate EXCEPT ![aidx] = "SEALED"]
  /\ apc' = "enqueue"
  /\ UNCHANGED <<pos, bytes, activeIdx, queue, lsnVars, fileVars, ctlVars,
                 areq, aidx, aold, afree, recs, writerVars>>

EnqueueFull ==
  /\ apc = "enqueue"
  /\ queue' = Append(queue, aidx)
  /\ apc' = "find"
  /\ UNCHANGED <<bstate, pos, bytes, hi, activeIdx, lsnVars, fileVars,
                 ctlVars, areq, aidx, aold, afree, recs, writerVars>>

(* ... and, like wait_for_free_and_activate, find a free buffer: once      *)
(* without the mutex, once more under it, else wait on free_condvar.       *)
FindOrBlock ==
  /\ apc \in {"find", "recheck"}
  /\ \/ /\ FreeBuffers # {}
        /\ afree' = FindFree
        /\ apc' = "activate"
        /\ UNCHANGED overlap
     \/ /\ FreeBuffers = {} /\ apc = "find"
        /\ apc' = "recheck"
        /\ UNCHANGED <<afree, overlap>>
     \/ /\ FreeBuffers = {} /\ apc = "recheck"
        /\ apc' = "waiting"
        /\ Meeting(Sealing, "blocked")
        /\ UNCHANGED afree
  /\ UNCHANGED <<ringVars, lsnVars, fileVars, sinkLsn, requested, shutdown,
                 final, areq, aidx, aold, recs, writerVars>>

ActivateNew ==
  /\ apc = "activate"
  /\ pos' = [pos EXCEPT ![afree] = 0]
  /\ hi' = [hi EXCEPT ![afree] = 0]
  /\ bstate' = [bstate EXCEPT ![afree] = "ACTIVE"]
  /\ apc' = "swap"
  /\ UNCHANGED <<bytes, activeIdx, queue, lsnVars, fileVars, ctlVars,
                 areq, aidx, aold, afree, recs, writerVars>>

SwapNew ==
  /\ apc = "swap"
  /\ activeIdx' = afree
  /\ apc' = "load"
  /\ UNCHANGED <<bstate, pos, bytes, hi, queue, lsnVars, fileVars, ctlVars,
                 areq, aidx, aold, afree, recs, writerVars>>

-----------------------------------------------------------------------------
(* Writer thread: seal_active. *)

Wake ==
  /\ wpc = "sleep"
  /\ wbuf' = activeIdx
  /\ wpc' = "sealcheck"
  /\ Meeting(TRUE, Phase)
  /\ UNCHANGED <<ringVars, lsnVars, fileVars, sinkLsn, requested, shutdown,
                 final, applyVars, wfree, wlsn, wend>>

SealCheck ==
  /\ wpc = "sealcheck"
  /\ \/ pos[wbuf] = 0 /\ wpc' = "pop" /\ UNCHANGED wfree
     \/ pos[wbuf] # 0 /\ wpc' = "sealread" /\ wfree' = FindFree
  /\ UNCHANGED <<ringVars, lsnVars, fileVars, ctlVars, applyVars,
                 wbuf, wlsn, wend>>

SealRead ==
  /\ wpc = "sealread"
  /\ wlsn' = SealLsn
  /\ wpc' = "sealstore"
  /\ UNCHANGED <<ringVars, lsnVars, fileVars, ctlVars, applyVars,
                 wbuf, wfree, wend>>

SealStore ==
  /\ wpc = "sealstore"
  /\ hi' = [hi EXCEPT ![wbuf] = wlsn]
  /\ bstate' = [bstate EXCEPT ![wbuf] = "SEALED"]
  /\ wpc' = "enqueue"
  /\ UNCHANGED <<pos, bytes, activeIdx, queue, lsnVars, fileVars, ctlVars,
                 applyVars, wbuf, wfree, wlsn, wend>>

(* Without a free buffer active_idx stays at the sealed one. *)
SealEnqueue ==
  /\ wpc = "enqueue"
  /\ queue' = Append(queue, wbuf)
  /\ wpc' = IF wfree = NoBuf THEN "pop" ELSE "activate"
  /\ UNCHANGED <<bstate, pos, bytes, hi, activeIdx, lsnVars, fileVars,
                 ctlVars, applyVars, wbuf, wfree, wlsn, wend>>

SealActivate ==
  /\ wpc = "activate"
  /\ pos' = [pos EXCEPT ![wfree] = 0]
  /\ hi' = [hi EXCEPT ![wfree] = 0]
  /\ bstate' = [bstate EXCEPT ![wfree] = "ACTIVE"]
  /\ wpc' = "swap"
  /\ UNCHANGED <<bytes, activeIdx, queue, lsnVars, fileVars, ctlVars,
                 applyVars, wbuf, wfree, wlsn, wend>>

SealSwap ==
  /\ wpc = "swap"
  /\ activeIdx' = wfree
  /\ wpc' = "pop"
  /\ UNCHANGED <<bstate, pos, bytes, hi, queue, lsnVars, fileVars, ctlVars,
                 applyVars, wbuf, wfree, wlsn, wend>>

-----------------------------------------------------------------------------
(* Writer thread: flush_sealed_buffers. *)

PopSealed ==
  /\ wpc = "pop" /\ queue # <<>>
  /\ wbuf' = Head(queue)
  /\ queue' = Tail(queue)
  /\ bstate' = [bstate EXCEPT ![Head(queue)] = "FLUSHING"]
  /\ wpc' = "read"
  /\ UNCHANGED <<pos, bytes, hi, activeIdx, lsnVars, fileVars, ctlVars,
                 applyVars, wfree, wlsn, wend>>

(* written_bytes borrows bytes[..pos]; the slice panics past the capacity. *)
ReadWritten ==
  /\ wpc = "read"
  /\ wend' = pos[wbuf]
  /\ wpc' = CASE pos[wbuf] = 0 -> "free"
              [] pos[wbuf] > Cap -> "panicked"
              [] OTHER -> "write"
  /\ UNCHANGED <<ringVars, lsnVars, fileVars, ctlVars, applyVars,
                 wbuf, wfree, wlsn>>

WriteOk ==
  /\ wpc = "write"
  /\ file' = file \o SubSeq(bytes[wbuf], 1, wend)
  /\ wlsn' = hi[wbuf]
  /\ written' = Larger(written, hi[wbuf])
  /\ wpc' = "sync"
  /\ UNCHANGED <<ringVars, committed, synced, durLen, reclaimed, fails,
                 ctlVars, applyVars, wbuf, wfree, wend>>

(* write_all may have written a part before it fails. *)
WriteErr ==
  /\ wpc = "write" /\ fails < MaxFail
  /\ fails' = fails + 1
  /\ \E k \in 0 .. wend - 1 : file' = file \o SubSeq(bytes[wbuf], 1, k)
  /\ wpc' = "free"
  /\ UNCHANGED <<ringVars, lsnVars, durLen, reclaimed, ctlVars, applyVars,
                 wbuf, wfree, wlsn, wend>>

SyncOk ==
  /\ wpc = "sync"
  /\ durLen' = Len(file)
  /\ synced' = Larger(synced, wlsn)
  /\ wpc' = "free"
  /\ UNCHANGED <<ringVars, committed, written, file, reclaimed, fails,
                 ctlVars, applyVars, wbuf, wfree, wlsn, wend>>

SyncErr ==
  /\ wpc = "sync" /\ fails < MaxFail
  /\ fails' = fails + 1
  /\ wpc' = "free"
  /\ UNCHANGED <<ringVars, lsnVars, file, durLen, reclaimed, ctlVars,
                 applyVars, wbuf, wfree, wlsn, wend>>

(* return_to_free: mark_free, then notify under the mutex. *)
MarkFree ==
  /\ wpc = "free"
  /\ pos' = [pos EXCEPT ![wbuf] = 0]
  /\ bstate' = [bstate EXCEPT ![wbuf] = "FREE"]
  /\ wpc' = "notify"
  /\ UNCHANGED <<bytes, hi, activeIdx, queue, lsnVars, fileVars, ctlVars,
                 applyVars, wbuf, wfree, wlsn, wend>>

(* Mutant: nobody is notified. *)
Unwoken == apc

(* free_condvar.notify_one. *)
Woken == IF apc = "waiting" THEN "find" ELSE apc

NotifyFree ==
  /\ wpc = "notify"
  /\ apc' = Woken
  /\ wpc' = "pop"
  /\ UNCHANGED <<ringVars, lsnVars, fileVars, ctlVars, areq, aidx, aold,
                 afree, recs, wbuf, wfree, wlsn, wend>>

PopEmpty ==
  /\ wpc = "pop" /\ queue = <<>>
  /\ wpc' = "reclaim"
  /\ UNCHANGED <<ringVars, lsnVars, fileVars, ctlVars, applyVars,
                 wbuf, wfree, wlsn, wend>>

-----------------------------------------------------------------------------
(* Writer thread: maybe_reclaim_wal_file. *)

(* Everything append was ever asked to store. *)
Pushed == recs \cup {areq}

(* parse_wal_record_bounds_with_prefix: byte i of f lies in a whole record *)
(* that starts where the record before it ends.                            *)
WholeAt(f, i) ==
  \E r \in Pushed :
    /\ f[i] \in BytesOf(r)
    /\ LET first == i - (f[i] - (r.lsn - r.len + 1))
       IN  /\ first >= 1 /\ first + r.len - 1 <= Len(f)
           /\ \A j \in 0 .. r.len - 1 : f[first + j] = r.lsn - r.len + 1 + j

ValidPrefixLen(f) ==
  CHOOSE k \in 0 .. Len(f) :
    /\ \A i \in 1 .. k : WholeAt(f, i)
    /\ k < Len(f) => ~WholeAt(f, k + 1)

(* The n-th smallest member of a finite set of numbers. *)
Nth(S, n) == CHOOSE i \in S : Cardinality({k \in S : k <= i}) = n

(* compact_wal_file: keep, in their order, the bytes of the records of the *)
(* valid prefix past covered.                                              *)
StampOf(b) == (CHOOSE r \in Pushed : b \in BytesOf(r)).lsn
Kept(f, covered) == {i \in 1 .. ValidPrefixLen(f) : StampOf(f[i]) > covered}
Compacted(f, covered) ==
  [n \in 1 .. Cardinality(Kept(f, covered)) |-> f[Nth(Kept(f, covered), n)]]

(* Mutant: stop as soon as shutdown is seen. *)
StopAtOnce ==
  \/ shutdown /\ wpc' = "done" /\ UNCHANGED <<wbuf, final>>
  \/ ~shutdown /\ wpc' = "sleep" /\ UNCHANGED <<wbuf, final>>

(* End of a round: stop after the final drain, begin the final drain once  *)
(* shutdown is seen, else sleep.                                           *)
NextRound ==
  \/ final /\ wpc' = "done" /\ UNCHANGED <<wbuf, final>>
  \/ ~final /\ shutdown /\ wpc' = "sealcheck" /\ wbuf' = activeIdx /\ final' = TRUE
  \/ ~final /\ ~shutdown /\ wpc' = "sleep" /\ UNCHANGED <<wbuf, final>>

ReclaimSkip ==
  /\ wpc = "reclaim" /\ requested <= reclaimed
  /\ NextRound
  /\ UNCHANGED <<ringVars, lsnVars, fileVars, sinkLsn, requested, shutdown,
                 overlap, applyVars, wfree, wlsn, wend>>

ReclaimOk ==
  /\ wpc = "reclaim" /\ requested > reclaimed
  /\ file' = Compacted(file, requested)
  /\ durLen' = Len(file')
  /\ reclaimed' = requested
  /\ NextRound
  /\ UNCHANGED <<ringVars, lsnVars, fails, sinkLsn, requested, shutdown,
                 overlap, applyVars, wfree, wlsn, wend>>

(* It may fail before its first sync_all, after it, or after the rename.   *)
ReclaimErr ==
  /\ wpc = "reclaim" /\ requested > reclaimed /\ fails < MaxFail
  /\ fails' = fails + 1
  /\ \/ UNCHANGED <<file, durLen>>
     \/ UNCHANGED file /\ durLen' = Len(file)
     \/ file' = Compacted(file, requested) /\ durLen' = Len(file')
  /\ NextRound
  /\ UNCHANGED <<ringVars, lsnVars, reclaimed, sinkLsn, requested, shutdown,
                 overlap, applyVars, wfree, wlsn, wend>>

-----------------------------------------------------------------------------
(* The server around the two threads. *)

(* A registration takes an LSN past every event; it runs on the apply      *)
(* thread and returns when its record is durable in the registry WAL.      *)
Register(l) ==
  /\ apc = "idle" /\ l > Larger(committed, sinkLsn)
  /\ sinkLsn' = l
  /\ UNCHANGED <<ringVars, lsnVars, fileVars, requested, shutdown, final,
                 overlap, applyVars, writerVars>>

(* A snapshot covering LSN c is durable: request_reclaim_up_to. *)
RequestReclaim(c) ==
  /\ c \in requested + 1 .. Larger(committed, sinkLsn)
  /\ requested' = c
  /\ UNCHANGED <<ringVars, lsnVars, fileVars, sinkLsn, shutdown, final,
                 overlap, applyVars, writerVars>>

(* run_serve_loop: the apply thread is joined before the writer is told. *)
Shutdown ==
  /\ apc = "idle"
  /\ apc' = "exited"
  /\ shutdown' = TRUE
  /\ UNCHANGED <<ringVars, lsnVars, fileVars, sinkLsn, requested, final,
                 overlap, areq, aidx, aold, afree, recs, writerVars>>

Stopped == wpc = "done" /\ UNCHANGED vars

ApplyStep ==
  \/ AppendLoad \/ AppendCheck \/ TryAppendReserve \/ TryAppendUndo
  \/ TryAppendCopy \/ AppendRecord \/ SealFull \/ EnqueueFull
  \/ FindOrBlock \/ ActivateNew \/ SwapNew

WriterStep ==
  \/ Wake \/ SealCheck \/ SealRead \/ SealStore \/ SealEnqueue
  \/ SealActivate \/ SealSwap \/ PopSealed \/ ReadWritten \/ WriteOk
  \/ WriteErr \/ SyncOk \/ SyncErr \/ MarkFree \/ NotifyFree \/ PopEmpty
  \/ ReclaimSkip \/ ReclaimOk \/ ReclaimErr

Next ==
  \/ \E n \in Lens : Push(n)
  \/ \E l \in SinkLsns : Register(l)
  \/ ApplyStep
  \/ WriterStep
  \/ \E c \in SnapLsns : RequestReclaim(c)
  \/ Shutdown
  \/ Stopped

Spec == Init /\ [][Next]_vars

(* Both are OS threads with no work that can keep them off a core. *)
FairSpec == Spec /\ WF_vars(ApplyStep) /\ WF_vars(WriterStep)

-----------------------------------------------------------------------------
(* Properties. *)

ApplyPcs == {"idle", "exited", "load", "check", "reserve", "undo", "copy",
             "record", "seal", "enqueue", "find", "recheck", "waiting",
             "activate", "swap"}
WriterPcs == {"sleep", "sealcheck", "sealread", "sealstore", "enqueue",
              "activate", "swap", "pop", "read", "write", "sync", "free",
              "notify", "reclaim", "done", "panicked"}

(* Every variable has its type: buffer indexes stay in the ring, positions *)
(* and LSNs are naturals.  The file is the subject of FileOrdered.         *)
TypeOK ==
  /\ bstate \in [Buffers -> {"ACTIVE", "SEALED", "FLUSHING", "FREE"}]
  /\ pos \in [Buffers -> Nat]
  /\ bytes \in [Buffers -> [1 .. Cap -> Nat]]
  /\ hi \in [Buffers -> Nat]
  /\ activeIdx \in Buffers /\ queue \in Seq(Buffers)
  /\ committed \in Nat /\ written \in Nat /\ synced \in Nat
  /\ sinkLsn \in Nat /\ requested \in Nat /\ reclaimed \in Nat
  /\ shutdown \in BOOLEAN /\ final \in BOOLEAN /\ fails \in Nat
  /\ apc \in ApplyPcs /\ areq \in Records
  /\ aidx \in Buffers /\ aold \in Nat /\ afree \in Buffers
  /\ wpc \in WriterPcs /\ wbuf \in Buffers /\ wfree \in Buffers \cup {NoBuf}
  /\ wlsn \in Nat /\ wend \in Nat
  /\ recs \in SUBSET Records
  /\ overlap \subseteq {"blocked", "inside"}

(* The watermarks of WalLsn never overtake each other, in any schedule:    *)
(* nothing counts as synced before it is written, nor as written before    *)
(* append has accepted it; no buffer is stamped past what was accepted.    *)
WatermarkOrder ==
  /\ synced <= written
  /\ written <= committed
  /\ \A b \in Buffers : hi[b] <= committed

(* Record r can be read back from f by a parser that stops at the first    *)
(* byte sequence that is no whole record.                                  *)
ReadableIn(f, r) ==
  \E i \in 0 .. ValidPrefixLen(f) - r.len :
    \A j \in 1 .. r.len : f[i + j] = r.lsn - r.len + j

Durable == SubSeq(file, 1, durLen)

(* The synced watermark is honest: every acknowledged record at or below   *)
(* it that no snapshot covers can be read back from the fsynced file.      *)
SyncedReadable ==
  \A r \in recs : r.lsn <= synced /\ r.lsn > requested => ReadableIn(Durable, r)

(* No seal_active has met an append so far.                                *)
KeptApart == overlap = {}

(* ... as long as no write, fsync or compaction failed and no seal_active  *)
(* met an append.  Both conditions are needed: SyncedReadable is violated  *)
(* without either.                                                         *)
SyncedUnlessFailed == fails = 0 /\ KeptApart => SyncedReadable

(* The bytes of the file are in LSN order, each there once.                *)
InLsnOrder == \A i, j \in 1 .. Len(file) : i < j => file[i] < file[j]

(* Unless a seal_active met an append, records reach the file once, in LSN *)
(* order and without holes of stale buffer content, so that a replay       *)
(* applies each of them once and in order.                                 *)
FileOrdered == KeptApart => InLsnOrder

(* A clean shutdown loses nothing: once the writer thread has ended, no    *)
(* system call failed and no seal_active met an append, every acknowledged *)
(* record no snapshot covers is durable and readable.                      *)
ShutdownKeepsAll ==
  wpc = "done" /\ fails = 0 /\ KeptApart =>
    \A r \in recs : r.lsn > requested => ReadableIn(Durable, r)

(* A buffer is in the queue of the writer thread once, so that it is not   *)
(* flushed and freed behind the back of a later use.                       *)
QueuedOnce == \A i, j \in 1 .. Len(queue) : queue[i] = queue[j] => i = j

(* The apply thread copies only into a buffer that is ACTIVE.              *)
CopiesIntoActive == apc = "copy" => bstate[aidx] = "ACTIVE"

(* The two threads never use a buffer at the same time: the apply thread   *)
(* copies only into one that is ACTIVE, and the writer thread is handed    *)
(* each sealed buffer once (wal_buffer.rs).                                *)
BuffersOwned == CopiesIntoActive /\ QueuedOnce

(* append returns: backpressure is always released and no retry of its     *)
(* loop goes on for ever, unless a seal_active met an append that was      *)
(* running; a seal that meets a blocked append does no harm here.          *)
AppendReturns == apc = "load" ~> apc = "idle" \/ "inside" \in overlap

=============================================================================
