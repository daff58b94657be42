------------------------------ MODULE MCThreads ------------------------------
(***************************************************************************)
(* Two groups of threads that share nothing, each started by itself: the   *)
(* request pipeline, in three settings, and the snapshot task with its     *)
(* forked child.  bench says which of them runs.                           *)
(***************************************************************************)
EXTENDS IoPipeline, SnapshotFork

VARIABLE bench

all == <<bench, vars, taskVars>>

\* order: two connections, each with a worker of its own; hangup: one connection
\* whose client sends bad frames and hangs up, and the server stops; steady: one
\* connection that stays.  reqs bounds the frames of each connection.
Bench == [
  order |-> [reqs |-> <<2, 1>>, kinds |-> {"req"}, ends |-> FALSE],
  hangup |-> [reqs |-> <<2>>, kinds |-> {"req", "bad"}, ends |-> TRUE],
  steady |-> [reqs |-> <<3>>, kinds |-> {"req"}, ends |-> FALSE]]

\* The state a setting reaches.  A worker without a connection rests until it is
\* to leave.
Within(b) ==
  /\ nconn <= Len(b.reqs)
  /\ \A c \in 0 .. nconn - 1 : /\ sent[c] <= b.reqs[c + 1]
                               /\ Range(sockIn[c]) \subseteq Nat \X b.kinds
  /\ b.ends \/ (hup = {} /\ ~stop)
  /\ \A w \in Workers : w >= Len(b.reqs) => stop \/ wpc[w] = "new"

BenchInit ==
  /\ Init /\ TaskInit
  /\ bench \in DOMAIN Bench \cup {"fork"}

BenchNext ==
  /\ UNCHANGED bench
  /\ \/ bench # "fork" /\ Next /\ Within(Bench[bench])' /\ UNCHANGED taskVars
     \/ bench = "fork" /\ TaskNext /\ UNCHANGED vars

InSteady(A) == bench = "steady" /\ A /\ UNCHANGED <<bench, taskVars>>

\* The threads of the steady bench, and the snapshot task.
BenchSpec ==
  /\ BenchInit /\ [][BenchNext]_all
  /\ WF_all(InSteady(Apply)) /\ WF_all(InSteady(Worker(0)))
  /\ SF_all(InSteady(TimeFlush)) /\ SF_all(InSteady(Accept))
  /\ WF_all(InSteady(ClientRecv(0)))
  /\ WF_taskVars(PickCandidate) /\ WF_taskVars(LockTables)
  /\ WF_taskVars(Fork \/ ForkFailed) /\ WF_taskVars(Wait)

-----------------------------------------------------------------------------

\* server.rs, io_thread_worker.rs: every request of a connection that stays open
\* is answered, through batches that wait to be flushed and full send buffers.
SteadyAnswered == bench = "steady" => EveryRequestAnswered
=============================================================================
