----------------------------- MODULE IoPipeline -----------------------------
(***************************************************************************)
(* The request pipeline of a running server: the apply thread              *)
(* (run_mio_event_loop), the I/O worker threads (worker_main_loop) and the *)
(* three kinds of bounded channel between them.  A connection is its slot, *)
(* its place in the accept order; worker slot % NWorkers owns it.  A       *)
(* worker reads frames from its sockets and sends one item per frame to    *)
(* the apply thread; the apply thread answers items in order, collects the *)
(* answers in a batch and sends each to the worker of its connection,      *)
(* which appends it to the connection's write buffer and writes the buffer *)
(* when the socket is writable.                                            *)
(*                                                                         *)
(* A frame is <<number, kind>>: kind "req" parses, "bad" is a frame or an  *)
(* HTTP request the parser refuses, "big" a TCP frame past the length      *)
(* limit.  An answer is <<number, kind>>: "ok", "err", or "toolarge", the  *)
(* error the worker encodes itself.  Between the threads an item and its   *)
(* answer are both [slot, num, ans].  How bytes become frames is the       *)
(* subject of module WireCodec.                                            *)
(***************************************************************************)
EXTENDS Naturals, Sequences, FiniteSets, SequencesExt

CONSTANTS
  NWorkers,   \* number of I/O workers
  MaxConn,    \* bound: connections made
  MaxReq,     \* bound: frames sent on one connection
  Kinds,      \* kinds of frame the clients send
  ReadCap,    \* capacity of the channel to the apply thread
  WriteCap,   \* capacity of each channel of answers
  NewCap,     \* capacity of each channel of new connections
  BatchSize,  \* answers that force a flush of the batch
  SockCap,    \* answers a socket's send buffer holds
  SlotWrap,   \* RingItem keeps the slot modulo SlotWrap
  HalfClose,  \* whether clients shut down their sending side
  Stopping    \* whether the server is told to stop

ASSUME PipelineAssumption ==
  /\ {NWorkers, SockCap, SlotWrap, BatchSize} \subseteq Nat \ {0}
  /\ {MaxConn, MaxReq, ReadCap, WriteCap, NewCap} \subseteq Nat
  /\ Kinds \subseteq {"req", "bad", "big"} /\ {HalfClose, Stopping} \subseteq BOOLEAN

Conns == 0 .. MaxConn - 1
Workers == 0 .. NWorkers - 1
Owner(c) == c % NWorkers

VARIABLES
  nconn,      \* connections the kernel completed
  accepted,   \* accept_seq: connections the apply thread accepted
  sent,       \* sent[c]: frames the client has sent
  hup,        \* connections whose client sends no more
  sockIn,     \* sockIn[c]: frames in the socket's receive buffer
  sockOut,    \* sockOut[c]: answers in the socket's send buffer
  got,        \* got[c]: answers the client has read
  ready,      \* ready[c]: readiness edges not yet polled: "r", "w", "h"
  cl,         \* cl[c]: the worker's record of the connection
  newq,       \* newq[w]: channel of new connections
  writeq,     \* writeq[w]: channel of answers
  readq,      \* channel of items to the apply thread
  wpc,        \* wpc[w]: where worker w is in its loop
  evs,        \* evs[w]: events of this poll not handled yet
  cur,        \* cur[w]: connection whose read buffer w is parsing
  toClose,    \* toClose[w]: connections this poll reported closed
  apc,        \* where the apply thread is in its loop
  batch,      \* response_batch
  outbox,     \* answers the flush in progress has not sent yet
  stop        \* the shared shutdown flag

netVars == <<nconn, sent, hup, got>>
workVars == <<cl, sockIn, sockOut, ready, writeq, newq, wpc, evs, cur, toClose>>
applyVars == <<accepted, apc, batch, outbox>>
vars == <<netVars, workVars, applyVars, readq, stop>>

NoClient == [here |-> FALSE, rbuf |-> <<>>, wbuf |-> <<>>,
             closed |-> FALSE, armed |-> FALSE]

Init ==
  /\ nconn = 0 /\ accepted = 0
  /\ sent = [c \in Conns |-> 0] /\ hup = {}
  /\ sockIn = [c \in Conns |-> <<>>] /\ sockOut = [c \in Conns |-> <<>>]
  /\ got = [c \in Conns |-> <<>>]
  /\ ready = [c \in Conns |-> {}]
  /\ cl = [c \in Conns |-> NoClient]
  /\ newq = [w \in Workers |-> <<>>] /\ writeq = [w \in Workers |-> <<>>]
  /\ readq = <<>>
  /\ wpc = [w \in Workers |-> "new"] /\ evs = [w \in Workers |-> {}]
  /\ cur = [w \in Workers |-> 0] /\ toClose = [w \in Workers |-> {}]
  /\ apc = "drain" /\ batch = <<>> /\ outbox = <<>>
  /\ stop = FALSE

(***************************************************************************)
(* The clients and the kernel.  An edge is raised only while the worker    *)
(* has the connection registered; registering raises the edges that hold.  *)
(***************************************************************************)
Raise(c, e) == [ready EXCEPT ![c] = IF cl[c].here THEN @ \cup {e} ELSE @]

Connect ==
  /\ nconn < MaxConn
  /\ nconn' = nconn + 1
  /\ UNCHANGED <<sent, hup, got, workVars, applyVars, readq, stop>>

ClientSend(c, k) ==
  /\ c < nconn /\ c \notin hup /\ sent[c] < MaxReq
  /\ sent' = [sent EXCEPT ![c] = @ + 1]
  /\ sockIn' = [sockIn EXCEPT ![c] = Append(@, <<sent[c] + 1, k>>)]
  /\ ready' = Raise(c, "r")
  /\ UNCHANGED <<nconn, hup, got, cl, sockOut, writeq, newq, wpc, evs, cur,
                 toClose, applyVars, readq, stop>>

ClientHalfClose(c) ==
  /\ HalfClose /\ c < nconn /\ c \notin hup
  /\ hup' = hup \cup {c}
  /\ ready' = Raise(c, "h")
  /\ UNCHANGED <<nconn, sent, got, cl, sockIn, sockOut, writeq, newq, wpc, evs,
                 cur, toClose, applyVars, readq, stop>>

\* Room in a full send buffer is a writable edge.
ClientRecv(c) ==
  /\ sockOut[c] # <<>>
  /\ got' = [got EXCEPT ![c] = Append(@, Head(sockOut[c]))]
  /\ sockOut' = [sockOut EXCEPT ![c] = Tail(@)]
  /\ ready' = IF Len(sockOut[c]) = SockCap /\ cl[c].armed
                THEN Raise(c, "w") ELSE ready
  /\ UNCHANGED <<nconn, sent, hup, cl, sockIn, writeq, newq, wpc, evs, cur,
                 toClose, applyVars, readq, stop>>

(***************************************************************************)
(* An I/O worker: take new connections, take answers, poll, handle the     *)
(* events, close, look at the stop flag.                                   *)
(***************************************************************************)
\* Mutant: only what arrives later is an edge.
NoEdgesAtStart(c) == {}

EdgesAtStart(c) == (IF sockIn[c] # <<>> THEN {"r"} ELSE {}) \cup
                   (IF c \in hup THEN {"h"} ELSE {})

TakeClient(w) ==
  /\ wpc[w] = "new"
  /\ IF newq[w] = <<>>
       THEN /\ wpc' = [wpc EXCEPT ![w] = "writes"]
            /\ UNCHANGED <<newq, cl, ready>>
       ELSE LET c == Head(newq[w]) IN
            /\ newq' = [newq EXCEPT ![w] = Tail(@)]
            /\ cl' = [cl EXCEPT ![c] = [NoClient EXCEPT !.here = TRUE]]
            /\ ready' = [ready EXCEPT ![c] = EdgesAtStart(c)]
            /\ UNCHANGED wpc
  /\ UNCHANGED <<netVars, sockIn, sockOut, writeq, evs, cur, toClose,
                 applyVars, readq, stop>>

\* Asking for writability the first time raises the edge at once if there is
\* room.
ArmedEdge(c) == IF ~cl[c].armed /\ Len(sockOut[c]) < SockCap
                  THEN Raise(c, "w") ELSE ready

\* An answer for a connection that is gone is dropped.
TakeAnswer(w) ==
  /\ wpc[w] = "writes" /\ writeq[w] # <<>>
  /\ LET a == Head(writeq[w])
         c == a.slot
     IN
     /\ cl' = IF cl[c].here
                THEN [cl EXCEPT ![c].wbuf = Append(@, <<a.num, a.ans>>),
                                ![c].armed = TRUE]
                ELSE cl
     /\ ready' = ArmedEdge(c)
  /\ writeq' = [writeq EXCEPT ![w] = Tail(@)]
  /\ UNCHANGED <<netVars, sockIn, sockOut, newq, wpc, evs, cur, toClose,
                 applyVars, readq, stop>>

AnswersTaken(w) ==
  /\ wpc[w] = "writes" /\ writeq[w] = <<>>
  /\ wpc' = [wpc EXCEPT ![w] = "poll"]
  /\ UNCHANGED <<netVars, cl, sockIn, sockOut, ready, writeq, newq, evs, cur,
                 toClose, applyVars, readq, stop>>

\* What poll reports of one connection: a hang-up hides everything else, and
\* an edge whose condition no longer holds is not reported.
Reported(c) ==
  IF "h" \in ready[c] THEN {"h"}
  ELSE (IF "r" \in ready[c] /\ sockIn[c] # <<>> THEN {"r"} ELSE {}) \cup
       (IF "w" \in ready[c] THEN {"w"} ELSE {})

\* The poll returns after a second even when nothing is ready.
PollReady(w) ==
  LET mine == {c \in Conns : Owner(c) = w /\ cl[c].here} IN
  /\ wpc[w] = "poll"
  /\ evs' = [evs EXCEPT ![w] = UNION {{c} \X Reported(c) : c \in mine}]
  /\ ready' = [c \in Conns |-> IF c \in mine THEN {} ELSE ready[c]]
  /\ wpc' = [wpc EXCEPT ![w] = "events"]
  /\ toClose' = [toClose EXCEPT ![w] = {}]
  /\ UNCHANGED <<netVars, cl, sockIn, sockOut, writeq, newq, cur, applyVars,
                 readq, stop>>

\* Everything in the socket is read; nothing in it means the peer is done.
ReadInto(c) == [cl EXCEPT ![c].rbuf = @ \o sockIn[c]]

Readable(w, c) ==
  /\ wpc[w] = "events" /\ <<c, "r">> \in evs[w]
  /\ evs' = [evs EXCEPT ![w] = @ \ {<<c, "r">>}]
  /\ IF cl[c].closed
       THEN UNCHANGED <<cl, sockIn, wpc, cur>>
       ELSE IF sockIn[c] = <<>>
       THEN /\ cl' = [cl EXCEPT ![c].closed = TRUE]
            /\ UNCHANGED <<sockIn, wpc, cur>>
       ELSE /\ cl' = ReadInto(c)
            /\ sockIn' = [sockIn EXCEPT ![c] = <<>>]
            /\ wpc' = [wpc EXCEPT ![w] = "parse"]
            /\ cur' = [cur EXCEPT ![w] = c]
  /\ UNCHANGED <<netVars, sockOut, ready, writeq, newq, toClose, applyVars,
                 readq, stop>>

\* The error for an oversized frame, written by the worker itself.
TooLargeInto(wbuf, num) == Append(wbuf, <<num, "toolarge">>)

\* parse_and_push: one item per frame, sent with a blocking send.  A frame the
\* parser refuses ends the connection; of an oversized one the worker also
\* writes the error itself.
ParseAndPush(w) ==
  LET c == cur[w]
      f == Head(cl[c].rbuf)
  IN /\ wpc[w] = "parse" /\ cl[c].rbuf # <<>> /\ ~cl[c].closed
     /\ Len(readq) < ReadCap
     /\ readq' = Append(readq, [slot |-> c % SlotWrap, num |-> f[1],
                                ans |-> IF f[2] = "req" THEN "ok" ELSE "err"])
     /\ cl' = [cl EXCEPT ![c].rbuf = Tail(@),
                         ![c].closed = f[2] # "req",
                         ![c].wbuf = IF f[2] = "big"
                                       THEN TooLargeInto(@, f[1])
                                       ELSE @]
     /\ UNCHANGED <<netVars, sockIn, sockOut, ready, writeq, newq, wpc, evs,
                    cur, toClose, applyVars, stop>>

Parsed(w) ==
  /\ wpc[w] = "parse"
  /\ cl[cur[w]].rbuf = <<>> \/ cl[cur[w]].closed
  /\ wpc' = [wpc EXCEPT ![w] = "events"]
  /\ UNCHANGED <<netVars, cl, sockIn, sockOut, ready, writeq, newq, evs, cur,
                 toClose, applyVars, readq, stop>>

\* Mutant: the interest ends after every flush.
NoMoreToWrite(c) == FALSE

\* flush_write_buf moves what the send buffer has room for; an emptied write
\* buffer ends the interest in writability.
Room(c) == LET free == SockCap - Len(sockOut[c])
               have == Len(cl[c].wbuf)
           IN IF have < free THEN have ELSE free
MoreToWrite(c) == Room(c) < Len(cl[c].wbuf)
Flushed(c) ==
  /\ sockOut' = [sockOut EXCEPT ![c] = @ \o SubSeq(cl[c].wbuf, 1, Room(c))]
  /\ cl' = [cl EXCEPT ![c].wbuf = SubSeq(@, Room(c) + 1, Len(@)),
                      ![c].armed = @ /\ MoreToWrite(c)]

Writable(w, c) ==
  /\ wpc[w] = "events" /\ <<c, "w">> \in evs[w] /\ <<c, "r">> \notin evs[w]
  /\ evs' = [evs EXCEPT ![w] = @ \ {<<c, "w">>}]
  /\ Flushed(c)
  /\ UNCHANGED <<netVars, sockIn, ready, writeq, newq, wpc, cur, toClose,
                 applyVars, readq, stop>>

\* A peer that has left may answer a write with a reset.
WriteErr(w, c) ==
  /\ wpc[w] = "events" /\ <<c, "w">> \in evs[w] /\ <<c, "r">> \notin evs[w]
  /\ c \in hup /\ cl[c].wbuf # <<>>
  /\ evs' = [evs EXCEPT ![w] = @ \ {<<c, "w">>}]
  /\ cl' = [cl EXCEPT ![c].closed = TRUE]
  /\ UNCHANGED <<netVars, sockIn, sockOut, ready, writeq, newq, wpc, cur,
                 toClose, applyVars, readq, stop>>

HungUp(w, c) ==
  /\ wpc[w] = "events" /\ <<c, "h">> \in evs[w]
  /\ evs' = [evs EXCEPT ![w] = @ \ {<<c, "h">>}]
  /\ toClose' = [toClose EXCEPT ![w] = @ \cup {c}]
  /\ UNCHANGED <<netVars, cl, sockIn, sockOut, ready, writeq, newq, wpc, cur,
                 applyVars, readq, stop>>

\* The end of an iteration: hung-up connections are dropped as they are, the
\* ones marked closed after one last attempt to write.
Gone(w) == toClose[w] \cup {c \in Conns : Owner(c) = w /\ cl[c].closed}
EndIteration(w) ==
  /\ wpc[w] = "events" /\ evs[w] = {}
  /\ sockOut' = [c \in Conns |->
       IF c \in Gone(w) \ toClose[w]
         THEN sockOut[c] \o SubSeq(cl[c].wbuf, 1, Room(c)) ELSE sockOut[c]]
  /\ cl' = [c \in Conns |-> IF c \in Gone(w) THEN NoClient ELSE cl[c]]
  /\ ready' = [c \in Conns |-> IF c \in Gone(w) THEN {} ELSE ready[c]]
  /\ wpc' = [wpc EXCEPT ![w] = IF stop THEN "exited" ELSE "new"]
  /\ UNCHANGED <<netVars, sockIn, writeq, newq, evs, cur, toClose, applyVars,
                 readq, stop>>

(***************************************************************************)
(* The apply thread: drain the items, flush the batch when it is full or   *)
(* old, accept connections, look at the stop flag.                         *)
(***************************************************************************)
\* dispatch_one_ring_item: the answer joins the batch, under the slot the
\* item carries.
Dispatched == Append(batch, Head(readq))

Flush(b, to) ==
  /\ outbox' = b /\ batch' = <<>> /\ apc' = to

Drain ==
  /\ apc = "drain" /\ readq # <<>>
  /\ readq' = Tail(readq)
  /\ IF Len(Dispatched) >= BatchSize
       THEN Flush(Dispatched, "flush-drain")
       ELSE batch' = Dispatched /\ UNCHANGED <<outbox, apc>>
  /\ UNCHANGED <<netVars, workVars, accepted, stop>>

Drained ==
  /\ apc = "drain" /\ readq = <<>>
  /\ apc' = "timed"
  /\ UNCHANGED <<netVars, workVars, accepted, batch, outbox, readq, stop>>

\* The batch is older than BATCH_TIME_FLUSH, or the loop has been idle for
\* SPIN_BUDGET_K iterations.
TimeFlush ==
  /\ apc = "timed" /\ batch # <<>>
  /\ Flush(batch, "flush-listen")
  /\ UNCHANGED <<netVars, workVars, accepted, readq, stop>>

NoTimeFlush ==
  /\ apc = "timed"
  /\ apc' = "listen"
  /\ UNCHANGED <<netVars, workVars, accepted, batch, outbox, readq, stop>>

\* Mutant: each worker's answers are sent from the newest on.
NewestFirst(i, j) ==
  LET v == Owner(outbox[i].slot)
      w == Owner(outbox[j].slot)
  IN v < w \/ (v = w /\ i >= j)

\* flush_response_batch sends worker by worker, each in batch order.
ByWorker(i, j) ==
  LET v == Owner(outbox[i].slot)
      w == Owner(outbox[j].slot)
  IN v < w \/ (v = w /\ i <= j)

\* One blocking send of the flush; to a worker that has exited it fails.
FlushSend ==
  /\ apc \in {"flush-drain", "flush-listen", "flush-stop", "flush-join"}
  /\ \E i \in DOMAIN outbox :
       LET w == Owner(outbox[i].slot) IN
       /\ \A j \in DOMAIN outbox : ByWorker(i, j)
       /\ IF wpc[w] = "exited"
            THEN UNCHANGED writeq
            ELSE /\ Len(writeq[w]) < WriteCap
                 /\ writeq' = [writeq EXCEPT ![w] = Append(@, outbox[i])]
       /\ outbox' = RemoveAt(outbox, i)
  /\ UNCHANGED <<netVars, cl, sockIn, sockOut, ready, newq, wpc, evs, cur,
                 toClose, accepted, apc, batch, readq, stop>>

FlushEnd ==
  /\ apc \in {"flush-drain", "flush-listen", "flush-stop", "flush-join"}
  /\ outbox = <<>>
  /\ apc' = CASE apc = "flush-drain" -> "drain"
              [] apc = "flush-listen" -> "listen"
              [] apc = "flush-stop" -> "stop?"
              [] apc = "flush-join" -> "join"
  /\ UNCHANGED <<netVars, workVars, accepted, batch, outbox, readq, stop>>

\* accept_clients_to_workers accepts until the backlog is empty, handing each
\* connection over with a blocking send.
Accept ==
  LET w == Owner(accepted) IN
  /\ apc = "listen" /\ accepted < nconn
  /\ wpc[w] = "exited" \/ Len(newq[w]) < NewCap
  /\ newq' = IF wpc[w] = "exited" THEN newq
             ELSE [newq EXCEPT ![w] = Append(@, accepted)]
  /\ accepted' = accepted + 1
  /\ UNCHANGED <<netVars, cl, sockIn, sockOut, ready, writeq, wpc, evs, cur,
                 toClose, apc, batch, outbox, readq, stop>>

\* The iteration polls no listener, or the backlog is empty.  A loop that has
\* been idle then waits for an item and flushes right after it.
Listened ==
  /\ apc = "listen"
  /\ \/ apc' = "stop?" /\ UNCHANGED <<batch, outbox, readq>>
     \/ /\ batch = <<>> /\ readq # <<>>
        /\ readq' = Tail(readq)
        /\ Flush(Dispatched, "flush-stop")
  /\ UNCHANGED <<netVars, workVars, accepted, stop>>

\* The loop ends when the flag is set, or when every worker is gone and the
\* read channel with them; then the last flush, and the workers are joined.
StopCheck ==
  /\ apc = "stop?"
  /\ IF stop
       THEN Flush(batch, "flush-join")
       ELSE apc' = "drain" /\ UNCHANGED <<batch, outbox>>
  /\ UNCHANGED <<netVars, workVars, accepted, readq, stop>>

Join ==
  /\ apc = "join" /\ \A w \in Workers : wpc[w] = "exited"
  /\ apc' = "exited"
  /\ UNCHANGED <<netVars, workVars, accepted, batch, outbox, readq, stop>>

Shutdown ==
  /\ Stopping /\ ~stop
  /\ stop' = TRUE
  /\ UNCHANGED <<netVars, workVars, applyVars, readq>>

Worker(w) ==
  \/ TakeClient(w) \/ TakeAnswer(w) \/ AnswersTaken(w) \/ PollReady(w)
  \/ \E c \in Conns : \/ Readable(w, c) \/ Writable(w, c)
                      \/ WriteErr(w, c) \/ HungUp(w, c)
  \/ ParseAndPush(w) \/ Parsed(w) \/ EndIteration(w)

Apply ==
  \/ Drain \/ Drained \/ TimeFlush \/ NoTimeFlush \/ FlushSend \/ FlushEnd
  \/ Accept \/ Listened \/ StopCheck \/ Join

Outside ==
  \/ Connect
  \/ \E c \in Conns : \/ \E k \in Kinds : ClientSend(c, k)
                      \/ ClientHalfClose(c)
                      \/ ClientRecv(c)

Next == Apply \/ (\E w \in Workers : Worker(w)) \/ Outside \/ Shutdown

Spec == Init /\ [][Next]_vars

\* Threads keep running, the batch's age and the listener's turn come round
\* again and again, and clients read what they were sent.
Fairness ==
  /\ WF_vars(Apply) /\ \A w \in Workers : WF_vars(Worker(w))
  /\ SF_vars(TimeFlush) /\ SF_vars(Accept)
  /\ \A c \in Conns : WF_vars(ClientRecv(c))

FairSpec == Spec /\ Fairness
-----------------------------------------------------------------------------
Frames == (1 .. MaxReq) \X Kinds
Answers == (1 .. MaxReq) \X {"ok", "err", "toolarge"}
Items == [slot : Conns, num : 1 .. MaxReq, ans : {"ok", "err"}]
Clients == [here : BOOLEAN, rbuf : Seq(Frames), wbuf : Seq(Answers),
            closed : BOOLEAN, armed : BOOLEAN]
Edges == {"r", "w", "h"}

\* Types of the pipeline's state.
TypeOK ==
  /\ nconn \in 0 .. MaxConn /\ accepted \in 0 .. nconn /\ hup \subseteq Conns
  /\ sent \in [Conns -> 0 .. MaxReq] /\ ready \in [Conns -> SUBSET Edges]
  /\ sockIn \in [Conns -> Seq(Frames)] /\ cl \in [Conns -> Clients]
  /\ sockOut \in [Conns -> Seq(Answers)] /\ got \in [Conns -> Seq(Answers)]
  /\ newq \in [Workers -> Seq(Conns)] /\ writeq \in [Workers -> Seq(Items)]
  /\ readq \in Seq(Items) /\ batch \in Seq(Items) /\ outbox \in Seq(Items)
  /\ wpc \in [Workers -> {"new", "writes", "poll", "events", "parse", "exited"}]
  /\ evs \in [Workers -> SUBSET (Conns \X Edges)] /\ cur \in [Workers -> Nat]
  /\ toClose \in [Workers -> SUBSET Conns]
  /\ apc \in {"drain", "timed", "listen", "stop?", "join", "exited",
              "flush-drain", "flush-listen", "flush-stop", "flush-join"}
  /\ stop \in BOOLEAN

\* Everything written to connection c so far, oldest first.
Stream(c) == got[c] \o sockOut[c] \o cl[c].wbuf

\* io_thread_worker.rs, server.rs: the answers of a connection are the answers to
\* its own requests, each once and in the order they were sent, none skipped,
\* whichever batches, worker and channel they went through, also while clients
\* hang up and the server stops.
AnswersInOrder ==
  \A c \in Conns : /\ Len(Stream(c)) <= sent[c]
                   /\ \A i \in 1 .. Len(Stream(c)) : Stream(c)[i][1] = i

\* No unsent answer waits for an edge that will not come: when a worker goes
\* to sleep in poll, a connection with a non-empty write buffer has asked for
\* writability and either the edge is pending or the send buffer is full.
NoStuckOutput ==
  \A c \in Conns :
    cl[c].wbuf # <<>> /\ wpc[Owner(c)] = "poll" =>
      cl[c].armed /\ ("w" \in ready[c] \/ Len(sockOut[c]) = SockCap)

\* No unread input waits for an edge that will not come.
NoStuckInput ==
  \A c \in Conns :
    sockIn[c] # <<>> /\ cl[c].here /\ wpc[Owner(c)] = "poll" =>
      ready[c] \cap {"r", "h"} # {}

\* io_thread_worker.rs: when a worker goes to sleep in poll, no answer and no
\* input waits for a readiness edge that will not come.
NoStuckBytes == NoStuckOutput /\ NoStuckInput

\* Every request of a connection that stays open is answered.
EveryRequestAnswered ==
  \A c \in Conns : \A n \in 1 .. MaxReq :
    sent[c] >= n ~> Len(got[c]) >= n \/ c \in hup \/ stop
=============================================================================
