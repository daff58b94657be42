-------------------------- MODULE WalSinkRefinement --------------------------
(***************************************************************************)
(* WalSink keeps the promise of AckedLog: segments, batches, rotation,     *)
(* truncation, failed fsyncs and boots are steps of a log of LSNs.         *)
(***************************************************************************)
EXTENDS WalSink

Log == INSTANCE AckedLog WITH log <- {r.lsn : r \in disk}, acked <- strict,
                            damaged <- ~InOrder

\* fsync_worker.rs, rotation.rs, writer.rs: every step of the worker, of a crash
\* and of a boot is a step of the abstract log or leaves it alone: records are
\* appended behind all that is there and all that was ever acknowledged, only an
\* unacknowledged tail is lost, only a covered prefix is deleted, and a caller
\* is told "durable" of a record that is there; until a failing append or
\* rotation leaves the files out of step with the LSNs.
ImplementsAckedLog == Log!Spec
=============================================================================
