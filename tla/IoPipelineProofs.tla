-------------------------- MODULE IoPipelineProofs --------------------------
(***************************************************************************)
(* Proofs about IoPipeline for any number of workers, connections and      *)
(* frames and any capacities: a worker that sleeps has left nothing behind *)
(* (NoStuckBytes), and each connection reads its own answers in order      *)
(* (AnswersInOrder).                                                       *)
(***************************************************************************)
EXTENDS IoPipeline, TLAPS

LEMMA ConstantTypes ==
  /\ NWorkers \in Nat \ {0} /\ SockCap \in Nat \ {0} /\ SlotWrap \in Nat \ {0}
  /\ BatchSize \in Nat \ {0} /\ MaxConn \in Nat /\ MaxReq \in Nat
  BY PipelineAssumption

LEMMA OwnerIsWorker == \A c \in Nat : Owner(c) \in Workers
  BY ConstantTypes DEF Owner, Workers

LEMMA ConnsAreNat == \A c \in Conns : c \in Nat /\ c < MaxConn /\ Owner(c) \in Workers
  BY ConstantTypes, OwnerIsWorker DEF Conns

(* The slot an item carries is the slot of some connection.                 *)
LEMMA SlotIsConn == \A c \in Conns : c % SlotWrap \in Conns
  BY ConstantTypes DEF Conns

LEMMA NoClientType == NoClient \in Clients
  BY DEF NoClient, Clients

(* The sequence operators the pipeline uses.                                *)
LEMMA HeadTail ==
  ASSUME NEW S, NEW q \in Seq(S), q # <<>>
  PROVE  /\ Len(q) \in Nat \ {0} /\ Head(q) \in S /\ Head(q) = q[1] /\ 1 \in DOMAIN q
         /\ Tail(q) \in Seq(S) /\ Len(Tail(q)) = Len(q) - 1
         /\ \A i \in DOMAIN Tail(q) : i + 1 \in DOMAIN q /\ Tail(q)[i] = q[i + 1]
  OBVIOUS

LEMMA Appended ==
  ASSUME NEW S, NEW q \in Seq(S), NEW x \in S
  PROVE  /\ Append(q, x) \in Seq(S) /\ Len(q) \in Nat /\ Len(Append(q, x)) = Len(q) + 1
         /\ Append(q, x)[Len(q) + 1] = x
         /\ DOMAIN Append(q, x) = DOMAIN q \cup {Len(q) + 1}
         /\ \A i \in DOMAIN q : i \in 1 .. Len(q) /\ Append(q, x)[i] = q[i]
  OBVIOUS

LEMMA Parts ==
  ASSUME NEW S, NEW q \in Seq(S), NEW n \in 0 .. Len(q)
  PROVE  /\ SubSeq(q, 1, n) \in Seq(S) /\ Len(SubSeq(q, 1, n)) = n
         /\ \A i \in 1 .. n : SubSeq(q, 1, n)[i] = q[i]
         /\ SubSeq(q, n + 1, Len(q)) \in Seq(S)
         /\ Len(SubSeq(q, n + 1, Len(q))) = Len(q) - n
         /\ \A i \in 1 .. Len(q) - n : SubSeq(q, n + 1, Len(q))[i] = q[n + i]
  OBVIOUS

LEMMA Joined ==
  ASSUME NEW S, NEW p \in Seq(S), NEW q \in Seq(S)
  PROVE  /\ p \o q \in Seq(S) /\ Len(p \o q) = Len(p) + Len(q)
         /\ \A i \in 1 .. Len(p) : (p \o q)[i] = p[i]
         /\ \A i \in 1 .. Len(q) : (p \o q)[Len(p) + i] = q[i]
  OBVIOUS

LEMMA Removed ==
  ASSUME NEW S, NEW q \in Seq(S), NEW k \in DOMAIN q
  PROVE  /\ RemoveAt(q, k) \in Seq(S) /\ DOMAIN RemoveAt(q, k) = 1 .. Len(q) - 1
         /\ \A i \in 1 .. Len(q) - 1 : RemoveAt(q, k)[i] = IF i < k THEN q[i] ELSE q[i + 1]
<1>1. Len(q) \in Nat /\ k \in 1 .. Len(q)
  OBVIOUS
<1> DEFINE p == SubSeq(q, 1, k - 1)
           r == SubSeq(q, k + 1, Len(q))
<1>2. /\ p \in Seq(S) /\ Len(p) = k - 1 /\ \A i \in 1 .. k - 1 : p[i] = q[i]
      /\ r \in Seq(S) /\ Len(r) = Len(q) - k /\ \A i \in 1 .. Len(q) - k : r[i] = q[k + i]
  BY <1>1
<1>3. RemoveAt(q, k) = p \o r
  BY DEF RemoveAt
<1> HIDE DEF p, r
<1>4. /\ p \o r \in Seq(S) /\ Len(p \o r) = Len(q) - 1
      /\ \A i \in 1 .. k - 1 : (p \o r)[i] = q[i]
      /\ \A i \in 1 .. Len(q) - k : (p \o r)[k - 1 + i] = q[k + i]
  <2>1. p \in Seq(S) /\ r \in Seq(S)
    BY <1>2
  <2>2. p \o r \in Seq(S) /\ Len(p \o r) = Len(p) + Len(r)
    BY <2>1
  <2>3. ASSUME NEW i \in 1 .. Len(p) PROVE (p \o r)[i] = p[i]
    BY <2>1
  <2>4. ASSUME NEW i \in 1 .. Len(r) PROVE (p \o r)[Len(p) + i] = r[i]
    BY <2>1
  <2>5. ASSUME NEW i \in 1 .. k - 1 PROVE (p \o r)[i] = q[i]
    BY <1>2, <2>3
  <2>6. ASSUME NEW i \in 1 .. Len(q) - k PROVE (p \o r)[k - 1 + i] = q[k + i]
    BY <1>2, <2>4
  <2>7. Len(p \o r) = Len(q) - 1
    BY <1>1, <1>2, <2>2
  <2> QED BY <2>2, <2>5, <2>6, <2>7
<1>5. ASSUME NEW i \in 1 .. Len(q) - 1, ~(i < k) PROVE (p \o r)[i] = q[i + 1]
  <2>1. i - k + 1 \in 1 .. Len(q) - k /\ k - 1 + (i - k + 1) = i /\ k + (i - k + 1) = i + 1
    BY <1>1, <1>5
  <2> QED BY <1>4, <2>1
<1>6. DOMAIN (p \o r) = 1 .. Len(q) - 1
  BY <1>4
<1>7. ASSUME NEW i \in 1 .. Len(q) - 1, i < k PROVE (p \o r)[i] = q[i]
  BY <1>1, <1>4, <1>7
<1> QED BY <1>3, <1>4, <1>5, <1>6, <1>7

LEMMA TypeInit == Init => TypeOK
<1> SUFFICES ASSUME Init PROVE TypeOK
  OBVIOUS
<1>1. /\ nconn \in 0 .. MaxConn /\ accepted \in 0 .. nconn /\ hup \subseteq Conns
      /\ sent \in [Conns -> 0 .. MaxReq] /\ ready \in [Conns -> SUBSET Edges]
      /\ cl \in [Conns -> Clients] /\ cur \in [Workers -> Nat]
      /\ toClose \in [Workers -> SUBSET Conns]
      /\ evs \in [Workers -> SUBSET (Conns \X Edges)]
      /\ wpc \in [Workers -> {"new", "writes", "poll", "events", "parse", "exited"}]
  BY ConstantTypes, NoClientType DEF Init
<1>2. /\ sockIn \in [Conns -> Seq(Frames)] /\ sockOut \in [Conns -> Seq(Answers)]
      /\ got \in [Conns -> Seq(Answers)]
      /\ newq \in [Workers -> Seq(Conns)] /\ writeq \in [Workers -> Seq(Items)]
      /\ readq \in Seq(Items) /\ batch \in Seq(Items) /\ outbox \in Seq(Items)
  BY DEF Init
<1> QED BY <1>1, <1>2 DEF Init, TypeOK

(* What the types say of one connection, one worker and the apply thread.   *)
LEMMA ConnTypes ==
  ASSUME TypeOK, NEW c \in Conns
  PROVE  /\ cl[c] \in Clients /\ cl[c].rbuf \in Seq(Frames) /\ cl[c].wbuf \in Seq(Answers)
         /\ cl[c].here \in BOOLEAN /\ cl[c].closed \in BOOLEAN /\ cl[c].armed \in BOOLEAN
         /\ sockIn[c] \in Seq(Frames) /\ sockOut[c] \in Seq(Answers) /\ got[c] \in Seq(Answers)
         /\ sent[c] \in Nat /\ sent[c] <= MaxReq /\ ready[c] \in SUBSET Edges
         /\ Len(cl[c].rbuf) \in Nat /\ Len(cl[c].wbuf) \in Nat /\ Len(sockIn[c]) \in Nat
         /\ Len(sockOut[c]) \in Nat /\ Len(got[c]) \in Nat
<1>1. /\ cl[c] \in Clients /\ sockIn[c] \in Seq(Frames) /\ sockOut[c] \in Seq(Answers)
      /\ got[c] \in Seq(Answers) /\ sent[c] \in 0 .. MaxReq /\ ready[c] \in SUBSET Edges
  BY DEF TypeOK
<1>2. /\ cl[c].rbuf \in Seq(Frames) /\ cl[c].wbuf \in Seq(Answers)
      /\ cl[c].here \in BOOLEAN /\ cl[c].closed \in BOOLEAN /\ cl[c].armed \in BOOLEAN
  BY <1>1 DEF Clients
<1> QED BY <1>1, <1>2, ConstantTypes

(* A worker's record of a connection with some fields changed is one.       *)
LEMMA ClientWith ==
  ASSUME NEW r \in Clients, NEW rb \in Seq(Frames), NEW wb \in Seq(Answers),
         NEW x \in BOOLEAN, NEW y \in BOOLEAN
  PROVE  /\ [r EXCEPT !.rbuf = rb] \in Clients /\ [r EXCEPT !.closed = x] \in Clients
         /\ [r EXCEPT !.wbuf = wb, !.armed = x] \in Clients
         /\ [r EXCEPT !.rbuf = rb, !.closed = x, !.wbuf = wb] \in Clients
  BY DEF Clients

LEMMA ArmedClient ==
  ASSUME NEW r \in Clients, NEW wb \in Seq(Answers)
  PROVE  [r EXCEPT !.wbuf = wb, !.armed = TRUE] \in Clients
  BY DEF Clients

LEMMA NewClientType == [NoClient EXCEPT !.here = TRUE] \in Clients
<1>1. \A r \in Clients : [r EXCEPT !.here = TRUE] \in Clients
  BY DEF Clients
<1> QED BY <1>1, NoClientType

LEMMA RaiseType ==
  ASSUME TypeOK, NEW c \in Conns, NEW e \in Edges
  PROVE  /\ Raise(c, e) \in [Conns -> SUBSET Edges]
         /\ \A d \in Conns : ready[d] \subseteq Raise(c, e)[d]
         /\ \A d \in Conns : d # c => Raise(c, e)[d] = ready[d]
         /\ cl[c].here => e \in Raise(c, e)[c]
<1>1. ready \in [Conns -> SUBSET Edges]
  BY DEF TypeOK
<1> QED BY <1>1 DEF Raise

LEMMA RoomType ==
  ASSUME TypeOK, NEW c \in Conns, Len(sockOut[c]) <= SockCap
  PROVE  /\ Room(c) \in 0 .. Len(cl[c].wbuf)
         /\ Len(sockOut[c]) + Room(c) <= SockCap
         /\ MoreToWrite(c) \in BOOLEAN
         /\ MoreToWrite(c) => Len(sockOut[c]) + Room(c) = SockCap
<1> DEFINE have == Len(cl[c].wbuf)
           full == Len(sockOut[c])
<1>1. have \in Nat /\ full \in Nat /\ SockCap \in Nat
  BY ConnTypes, ConstantTypes
<1>2. Room(c) = IF have < SockCap - full THEN have ELSE SockCap - full
  BY DEF Room
<1>3. MoreToWrite(c) \in BOOLEAN /\ (MoreToWrite(c) => Room(c) < have)
  BY DEF MoreToWrite
<1> HIDE DEF have, full
<1>4. have < SockCap - full => Room(c) = have
  BY <1>2
<1>5. ~(have < SockCap - full) => Room(c) = SockCap - full
  BY <1>2
<1>6. full <= SockCap
  BY DEF full
<1>7. Room(c) \in 0 .. have /\ full + Room(c) <= SockCap
  BY <1>1, <1>4, <1>5, <1>6
<1>8. MoreToWrite(c) => full + Room(c) = SockCap
  BY <1>1, <1>3, <1>4, <1>5
<1> QED BY <1>3, <1>7, <1>8 DEF have, full
LEMMA FlushType ==
  ASSUME NEW b \in Seq(Items), NEW to, Flush(b, to),
         to \in {"flush-drain", "flush-listen", "flush-stop", "flush-join"}
  PROVE  /\ outbox' \in Seq(Items) /\ batch' \in Seq(Items)
         /\ apc' \in {"flush-drain", "flush-listen", "flush-stop", "flush-join"}
  BY DEF Flush

LEMMA TypeNext ==
  ASSUME TypeOK, [Next]_vars, \A c \in Conns : Len(sockOut[c]) <= SockCap,
         \A w \in Workers : wpc[w] = "parse" => cur[w] \in Conns
  PROVE  TypeOK'
<1> USE DEF netVars, workVars, applyVars
<1>1. CASE Connect
  <2>1. nconn' \in 0 .. MaxConn /\ accepted' \in 0 .. nconn'
    BY <1>1, ConstantTypes DEF Connect, TypeOK
  <2> QED BY <1>1, <2>1 DEF TypeOK, Connect
<1>2. ASSUME NEW c \in Conns, NEW k \in Kinds, ClientSend(c, k) PROVE TypeOK'
  <2>1. sent' \in [Conns -> 0 .. MaxReq] /\ <<sent[c] + 1, k>> \in Frames
    BY <1>2, ConstantTypes DEF ClientSend, Frames, TypeOK
  <2>2. sockIn' \in [Conns -> Seq(Frames)]
    <3>1. sockIn \in [Conns -> Seq(Frames)] /\ sockIn' = [sockIn EXCEPT ![c] = Append(@, <<sent[c] + 1, k>>)]
      BY <1>2 DEF ClientSend, TypeOK
    <3> QED BY <2>1, <3>1
  <2>3. ready' \in [Conns -> SUBSET Edges]
    BY <1>2, RaiseType DEF ClientSend, Edges
  <2> QED BY <1>2, <2>1, <2>2, <2>3 DEF TypeOK, ClientSend
<1>3. ASSUME NEW c \in Conns, ClientHalfClose(c) PROVE TypeOK'
  BY <1>3, RaiseType DEF TypeOK, ClientHalfClose, Edges
<1>4. ASSUME NEW c \in Conns, ClientRecv(c) PROVE TypeOK'
  <2>1. sockOut' \in [Conns -> Seq(Answers)] /\ got' \in [Conns -> Seq(Answers)]
    <3>1. sockOut \in [Conns -> Seq(Answers)] /\ got \in [Conns -> Seq(Answers)]
      BY DEF TypeOK
    <3>2. Head(sockOut[c]) \in Answers /\ Tail(sockOut[c]) \in Seq(Answers)
      BY <1>4, <3>1, HeadTail DEF ClientRecv
    <3> QED BY <1>4, <3>1, <3>2 DEF ClientRecv
  <2>2. ready' \in [Conns -> SUBSET Edges]
    BY <1>4, RaiseType DEF ClientRecv, Edges, TypeOK
  <2> QED BY <1>4, <2>1, <2>2 DEF TypeOK, ClientRecv
<1>5. ASSUME NEW w \in Workers, TakeClient(w) PROVE TypeOK'
  <2>1. CASE newq[w] = <<>>
    BY <1>5, <2>1 DEF TakeClient, TypeOK
  <2>2. CASE newq[w] # <<>>
    <3>1. Head(newq[w]) \in Conns /\ newq' \in [Workers -> Seq(Conns)]
      <4>1. newq \in [Workers -> Seq(Conns)]
        BY DEF TypeOK
      <4>2. Head(newq[w]) \in Conns /\ Tail(newq[w]) \in Seq(Conns)
        BY <2>2, <4>1, HeadTail
      <4> QED BY <1>5, <2>2, <4>1, <4>2 DEF TakeClient
    <3>2. EdgesAtStart(Head(newq[w])) \subseteq Edges
      BY DEF EdgesAtStart, Edges
    <3>3. [NoClient EXCEPT !.here = TRUE] \in Clients
      BY NewClientType
    <3>4. ready' \in [Conns -> SUBSET Edges] /\ cl' \in [Conns -> Clients]
      <4>1. ready \in [Conns -> SUBSET Edges] /\ cl \in [Conns -> Clients]
        BY DEF TypeOK
      <4>2. /\ cl' = [cl EXCEPT ![Head(newq[w])] = [NoClient EXCEPT !.here = TRUE]]
            /\ ready' = [ready EXCEPT ![Head(newq[w])] = EdgesAtStart(Head(newq[w]))]
        BY <1>5, <2>2 DEF TakeClient
      <4> QED BY <3>1, <3>2, <3>3, <4>1, <4>2
    <3> QED BY <1>5, <2>2, <3>1, <3>4 DEF TypeOK, TakeClient
  <2> QED BY <2>1, <2>2
<1>6. ASSUME NEW w \in Workers, TakeAnswer(w) PROVE TypeOK'
  <2> DEFINE a == Head(writeq[w])
  <2>1. a \in Items /\ writeq' \in [Workers -> Seq(Items)]
    <3>1. writeq \in [Workers -> Seq(Items)] /\ writeq[w] # <<>>
      BY <1>6 DEF TakeAnswer, TypeOK
    <3>2. a \in Items /\ Tail(writeq[w]) \in Seq(Items)
      BY <3>1, HeadTail
    <3> QED BY <1>6, <3>1, <3>2 DEF TakeAnswer
  <2>2. a.slot \in Conns /\ <<a.num, a.ans>> \in Answers
    BY <2>1 DEF Items, Answers
  <2>3. ready' \in [Conns -> SUBSET Edges]
    BY <1>6, <2>2, RaiseType DEF TakeAnswer, ArmedEdge, Edges, TypeOK
  <2>4. [cl[a.slot] EXCEPT !.wbuf = Append(@, <<a.num, a.ans>>), !.armed = TRUE] \in Clients
    <3>1. cl[a.slot] \in Clients /\ cl[a.slot].wbuf \in Seq(Answers)
      BY <2>2, ConnTypes
    <3>2. Append(cl[a.slot].wbuf, <<a.num, a.ans>>) \in Seq(Answers)
      BY <2>2, <3>1, Appended
    <3> QED BY <3>1, <3>2, ArmedClient
  <2>5. cl' \in [Conns -> Clients]
    BY <1>6, <2>2, <2>4 DEF TakeAnswer, TypeOK
  <2> QED BY <1>6, <2>1, <2>3, <2>5 DEF TypeOK, TakeAnswer
<1>7. ASSUME NEW w \in Workers, AnswersTaken(w) PROVE TypeOK'
  BY <1>7 DEF TypeOK, AnswersTaken
<1>8. ASSUME NEW w \in Workers, PollReady(w) PROVE TypeOK'
  <2>1. \A c \in Conns : Reported(c) \in SUBSET Edges
    BY DEF Reported, Edges
  <2>2. evs' \in [Workers -> SUBSET (Conns \X Edges)]
    <3>1. evs \in [Workers -> SUBSET (Conns \X Edges)]
      BY DEF TypeOK
    <3>2. UNION {{c} \X Reported(c) : c \in {c \in Conns : Owner(c) = w /\ cl[c].here}}
            \subseteq Conns \X Edges
      BY <2>1
    <3> QED BY <1>8, <3>1, <3>2 DEF PollReady
  <2>3. ready' \in [Conns -> SUBSET Edges]
    BY <1>8 DEF PollReady, TypeOK
  <2> QED BY <1>8, <2>2, <2>3 DEF TypeOK, PollReady
<1>9. ASSUME NEW w \in Workers, NEW c \in Conns, Readable(w, c) PROVE TypeOK'
  <2>1. evs' \in [Workers -> SUBSET (Conns \X Edges)] /\ cur' \in [Workers -> Nat]
    <3>1. c \in Nat /\ evs \in [Workers -> SUBSET (Conns \X Edges)] /\ cur \in [Workers -> Nat]
      BY ConnsAreNat DEF TypeOK
    <3> QED BY <1>9, <3>1 DEF Readable
  <2>2. [cl[c] EXCEPT !.rbuf = @ \o sockIn[c]] \in Clients /\ [cl[c] EXCEPT !.closed = TRUE] \in Clients
    BY ConnTypes, Joined, ClientWith
  <2>3. cl' \in [Conns -> Clients] /\ sockIn' \in [Conns -> Seq(Frames)]
    <3>1. cl \in [Conns -> Clients] /\ sockIn \in [Conns -> Seq(Frames)]
      BY DEF TypeOK
    <3>2. <<>> \in Seq(Frames)
      OBVIOUS
    <3> QED BY <1>9, <2>2, <3>1, <3>2 DEF Readable, ReadInto
  <2> QED BY <1>9, <2>1, <2>3 DEF TypeOK, Readable
<1>10. ASSUME NEW w \in Workers, NEW c \in Conns, Writable(w, c) PROVE TypeOK'
  <2>1. evs' \in [Workers -> SUBSET (Conns \X Edges)]
    BY <1>10 DEF Writable, TypeOK
  <2>2. cl[c].wbuf \in Seq(Answers) /\ cl[c].armed \in BOOLEAN
    BY ConnTypes
  <2>3. /\ SubSeq(cl[c].wbuf, 1, Room(c)) \in Seq(Answers)
        /\ SubSeq(cl[c].wbuf, Room(c) + 1, Len(cl[c].wbuf)) \in Seq(Answers)
    BY <2>2, RoomType, Parts
  <2>4. sockOut' \in [Conns -> Seq(Answers)]
    <3>1. sockOut \in [Conns -> Seq(Answers)]
      BY DEF TypeOK
    <3>2. sockOut[c] \o SubSeq(cl[c].wbuf, 1, Room(c)) \in Seq(Answers)
      BY <2>3, <3>1
    <3> QED BY <1>10, <3>1, <3>2 DEF Writable, Flushed
  <2>5. [cl[c] EXCEPT !.wbuf = SubSeq(@, Room(c) + 1, Len(@)),
                      !.armed = @ /\ MoreToWrite(c)] \in Clients
    BY <2>2, <2>3, ConnTypes, ClientWith, RoomType
  <2>6. cl' \in [Conns -> Clients]
    BY <1>10, <2>5 DEF Writable, Flushed, TypeOK
  <2> QED BY <1>10, <2>1, <2>4, <2>6 DEF TypeOK, Writable
<1>11. ASSUME NEW w \in Workers, NEW c \in Conns, WriteErr(w, c) PROVE TypeOK'
  <2>1. [cl[c] EXCEPT !.closed = TRUE] \in Clients
    BY ConnTypes, ClientWith
  <2> QED BY <1>11, <2>1 DEF TypeOK, WriteErr
<1>12. ASSUME NEW w \in Workers, NEW c \in Conns, HungUp(w, c) PROVE TypeOK'
  BY <1>12 DEF TypeOK, HungUp
<1>13. ASSUME NEW w \in Workers, ParseAndPush(w) PROVE TypeOK'
  <2> DEFINE c == cur[w]
             f == Head(cl[c].rbuf)
  <2>0. c \in Conns
    BY <1>13 DEF ParseAndPush
  <2>1. cl[c].rbuf \in Seq(Frames) /\ cl[c].rbuf # <<>> /\ cl[c].wbuf \in Seq(Answers)
    BY <1>13, <2>0, ConnTypes DEF ParseAndPush
  <2>2. f \in Frames /\ Tail(cl[c].rbuf) \in Seq(Frames)
    BY <2>1, HeadTail
  <2>3. [slot |-> c % SlotWrap, num |-> f[1], ans |-> IF f[2] = "req" THEN "ok" ELSE "err"] \in Items
    BY <2>0, <2>2, SlotIsConn DEF Items, Frames
  <2>4. readq' \in Seq(Items)
    <3>1. readq \in Seq(Items)
      BY DEF TypeOK
    <3> QED BY <1>13, <2>3, <3>1 DEF ParseAndPush
  <2>5. TooLargeInto(cl[c].wbuf, f[1]) \in Seq(Answers)
    <3>1. <<f[1], "toolarge">> \in Answers
      BY <2>2 DEF Frames, Answers
    <3> QED BY <2>1, <3>1, Appended DEF TooLargeInto
  <2>6. [cl[c] EXCEPT !.rbuf = Tail(@), !.closed = f[2] # "req",
                      !.wbuf = IF f[2] = "big" THEN TooLargeInto(@, f[1]) ELSE @] \in Clients
    <3>1. (IF f[2] = "big" THEN TooLargeInto(cl[c].wbuf, f[1]) ELSE cl[c].wbuf) \in Seq(Answers)
      BY <2>1, <2>5
    <3>2. (f[2] # "req") \in BOOLEAN
      OBVIOUS
    <3> QED BY <2>0, <2>2, <3>1, <3>2, ConnTypes, ClientWith
  <2>7. cl' \in [Conns -> Clients]
    <3>1. cl \in [Conns -> Clients]
      BY DEF TypeOK
    <3> HIDE DEF f
    <3> QED BY <1>13, <2>0, <2>6, <3>1 DEF ParseAndPush, f
  <2> QED BY <1>13, <2>4, <2>7 DEF TypeOK, ParseAndPush
<1>14. ASSUME NEW w \in Workers, Parsed(w) PROVE TypeOK'
  BY <1>14 DEF TypeOK, Parsed
<1>15. ASSUME NEW w \in Workers, EndIteration(w) PROVE TypeOK'
  <2>1. \A c \in Conns : SubSeq(cl[c].wbuf, 1, Room(c)) \in Seq(Answers)
    <3> TAKE c \in Conns
    <3>1. cl[c].wbuf \in Seq(Answers)
      BY ConnTypes
    <3> QED BY <3>1, RoomType, Parts
  <2>2. sockOut' \in [Conns -> Seq(Answers)]
    <3>1. sockOut \in [Conns -> Seq(Answers)]
      BY DEF TypeOK
    <3>2. \A c \in Conns : sockOut[c] \o SubSeq(cl[c].wbuf, 1, Room(c)) \in Seq(Answers)
      BY <2>1, <3>1
    <3> QED BY <1>15, <3>1, <3>2 DEF EndIteration
  <2>3. cl' \in [Conns -> Clients] /\ ready' \in [Conns -> SUBSET Edges]
    BY <1>15, NoClientType DEF EndIteration, TypeOK
  <2> QED BY <1>15, <2>2, <2>3 DEF TypeOK, EndIteration
<1>16. CASE Drain
  <2>1. Dispatched \in Seq(Items) /\ readq' \in Seq(Items)
    BY <1>16, HeadTail, Appended DEF Drain, Dispatched, TypeOK
  <2> QED BY <1>16, <2>1, FlushType DEF TypeOK, Drain
<1>17. CASE Drained
  BY <1>17 DEF TypeOK, Drained
<1>18. CASE TimeFlush
  BY <1>18, FlushType DEF TypeOK, TimeFlush
<1>19. CASE NoTimeFlush
  BY <1>19 DEF TypeOK, NoTimeFlush
<1>20. CASE FlushSend
  <2>1. PICK i \in DOMAIN outbox :
          /\ outbox' = RemoveAt(outbox, i)
          /\ \/ UNCHANGED writeq
             \/ writeq' = [writeq EXCEPT ![Owner(outbox[i].slot)] = Append(@, outbox[i])]
    BY <1>20 DEF FlushSend
  <2>2. outbox[i] \in Items /\ outbox' \in Seq(Items)
    BY <2>1, Removed DEF TypeOK
  <2>3. writeq' \in [Workers -> Seq(Items)]
    <3>1. writeq \in [Workers -> Seq(Items)]
      BY DEF TypeOK
    <3>2. Owner(outbox[i].slot) \in Workers
      BY <2>2, ConnsAreNat DEF Items
    <3>3. Append(writeq[Owner(outbox[i].slot)], outbox[i]) \in Seq(Items)
      BY <2>2, <3>1, <3>2, Appended
    <3> QED BY <2>1, <3>1, <3>2, <3>3
  <2> QED BY <1>20, <2>2, <2>3 DEF TypeOK, FlushSend
<1>21. CASE FlushEnd
  BY <1>21 DEF TypeOK, FlushEnd
<1>22. CASE Accept
  <2>1. accepted \in Conns /\ accepted' \in 0 .. nconn
    BY <1>22, ConstantTypes DEF Accept, Conns, TypeOK
  <2>2. newq' \in [Workers -> Seq(Conns)]
    <3>1. newq \in [Workers -> Seq(Conns)]
      BY DEF TypeOK
    <3>2. Owner(accepted) \in Workers
      BY <2>1, ConnsAreNat
    <3>3. Append(newq[Owner(accepted)], accepted) \in Seq(Conns)
      BY <2>1, <3>1, <3>2, Appended
    <3> QED BY <1>22, <3>1, <3>2, <3>3 DEF Accept
  <2> QED BY <1>22, <2>1, <2>2 DEF TypeOK, Accept
<1>23. CASE Listened
  <2>1. readq # <<>> => Dispatched \in Seq(Items) /\ Tail(readq) \in Seq(Items)
    BY HeadTail, Appended DEF Dispatched, TypeOK
  <2> QED BY <1>23, <2>1, FlushType DEF TypeOK, Listened
<1>24. CASE StopCheck
  BY <1>24, FlushType DEF TypeOK, StopCheck
<1>25. CASE Join
  BY <1>25 DEF TypeOK, Join
<1>26. CASE Shutdown
  BY <1>26 DEF TypeOK, Shutdown
<1>27. CASE UNCHANGED vars
  BY <1>27 DEF TypeOK, vars
<1> QED BY <1>1, <1>2, <1>3, <1>4, <1>5, <1>6, <1>7, <1>8, <1>9, <1>10, <1>11, <1>12, <1>13, <1>14, <1>15, <1>16, <1>17, <1>18, <1>19, <1>20, <1>21, <1>22, <1>23, <1>24, <1>25, <1>26, <1>27 DEF Next, Apply, Worker, Outside

-----------------------------------------------------------------------------
(* A connection the worker does not have is one without buffers; a worker   *)
(* handles only connections it has and owns.                                *)
WorkerHas ==
  /\ \A c \in Conns : ~cl[c].here => cl[c] = NoClient
  /\ \A w \in Workers : \A c \in Conns : \A e \in Edges :
       <<c, e>> \in evs[w] => Owner(c) = w /\ cl[c].here
  /\ \A w \in Workers : \A c \in toClose[w] : Owner(c) = w
  /\ \A w \in Workers : wpc[w] = "parse" => cur[w] \in Conns /\ Owner(cur[w]) = w

(* Worker w is between poll and the end of its iteration, and will look at  *)
(* connection c because of e, or drop it.                                   *)
Pending(c, e) ==
  /\ wpc[Owner(c)] \in {"events", "parse"}
  /\ \/ <<c, e>> \in evs[Owner(c)] \/ <<c, "h">> \in evs[Owner(c)]
     \/ c \in toClose[Owner(c)] \/ cl[c].closed

(* Whoever asked for writability has been told, will be told when there is  *)
(* room, or is being looked at; and bytes to write mean asking, except for  *)
(* the last words on a connection that is being closed.                     *)
OutputWatched(c) ==
  /\ Len(sockOut[c]) <= SockCap
  /\ cl[c].closed => wpc[Owner(c)] \in {"events", "parse"}
  /\ cl[c].wbuf # <<>> => cl[c].armed \/ cl[c].closed
  /\ cl[c].armed => "w" \in ready[c] \/ Len(sockOut[c]) = SockCap \/ Pending(c, "w")

(* Unread input of a registered connection has its edge, or is being        *)
(* looked at.                                                               *)
InputWatched(c) ==
  sockIn[c] # <<>> /\ cl[c].here =>
    "r" \in ready[c] \/ "h" \in ready[c] \/ Pending(c, "r")

Watched(c) == OutputWatched(c) /\ InputWatched(c)

EdgeInv == TypeOK /\ WorkerHas /\ \A c \in Conns : Watched(c)

LEMMA WorkerHasNext ==
  ASSUME TypeOK, WorkerHas, [Next]_vars
  PROVE  WorkerHas'
<1> USE DEF netVars, workVars, applyVars
<1>1. ASSUME UNCHANGED <<cl, evs, toClose, cur, wpc>> PROVE WorkerHas'
  BY <1>1 DEF WorkerHas
<1>2. ASSUME NEW w \in Workers, TakeClient(w) PROVE WorkerHas'
  <2>1. /\ \A d \in Conns : cl'[d] = cl[d] \/ (cl'[d].here /\ cl'[d].here = TRUE)
    <3>1. CASE newq[w] = <<>>
      BY <1>2, <3>1 DEF TakeClient
    <3>2. CASE newq[w] # <<>>
      <4>1. PICK h : cl' = [cl EXCEPT ![h] = [NoClient EXCEPT !.here = TRUE]]
        BY <1>2, <3>2 DEF TakeClient
      <4>2. [NoClient EXCEPT !.here = TRUE].here = TRUE
        BY DEF NoClient
      <4> HIDE DEF NoClient
      <4> QED BY <4>1, <4>2 DEF TypeOK
    <3> QED BY <3>1, <3>2
  <2>2. \A v \in Workers : wpc'[v] = "parse" => wpc[v] = "parse"
    BY <1>2 DEF TakeClient, TypeOK
  <2>3. UNCHANGED <<evs, toClose, cur>>
    BY <1>2 DEF TakeClient
  <2> QED BY <2>1, <2>2, <2>3 DEF WorkerHas
<1>3. ASSUME NEW w \in Workers, TakeAnswer(w) PROVE WorkerHas'
  <2> DEFINE s == Head(writeq[w]).slot
  <2>1. \A d \in Conns : cl'[d] = cl[d] \/ (cl[d].here /\ cl'[d].here)
    <3>1. cl \in [Conns -> Clients]
      BY DEF TypeOK
    <3>2. CASE ~cl[s].here
      BY <1>3, <3>2 DEF TakeAnswer
    <3>3. CASE cl[s].here
      <4>1. PICK x : cl' = [cl EXCEPT ![s].wbuf = x, ![s].armed = TRUE]
        BY <1>3, <3>3 DEF TakeAnswer
      <4> QED BY <3>1, <3>3, <4>1 DEF Clients
    <3> QED BY <3>2, <3>3
  <2>2. UNCHANGED <<evs, toClose, cur, wpc>>
    BY <1>3 DEF TakeAnswer
  <2> QED BY <2>1, <2>2 DEF WorkerHas
<1>4. ASSUME NEW w \in Workers, AnswersTaken(w) PROVE WorkerHas'
  BY <1>4 DEF AnswersTaken, WorkerHas, TypeOK
<1>5. ASSUME NEW w \in Workers, PollReady(w) PROVE WorkerHas'
  <2>1. ASSUME NEW c \in Conns, NEW e \in Edges, <<c, e>> \in evs'[w]
        PROVE  Owner(c) = w /\ cl[c].here
    BY <1>5, <2>1 DEF PollReady, TypeOK
  <2>2. \A v \in Workers : v # w => evs'[v] = evs[v]
    BY <1>5 DEF PollReady, TypeOK
  <2>3. /\ cl' = cl /\ cur' = cur
        /\ \A v \in Workers : toClose'[v] = {} \/ toClose'[v] = toClose[v]
        /\ \A v \in Workers : wpc'[v] = "parse" => wpc[v] = "parse"
    BY <1>5 DEF PollReady, TypeOK
  <2> QED BY <2>1, <2>2, <2>3 DEF WorkerHas
<1>6. ASSUME NEW w \in Workers, NEW c \in Conns, Readable(w, c) PROVE WorkerHas'
  <2>1. Owner(c) = w /\ cl[c].here
    BY <1>6 DEF Readable, WorkerHas, Edges
  <2>2. \A d \in Conns : cl'[d] = cl[d] \/ (cl[d].here /\ cl'[d].here)
    <3>1. cl \in [Conns -> Clients]
      BY DEF TypeOK
    <3>2. CASE cl' = [cl EXCEPT ![c].closed = TRUE]
      BY <2>1, <3>1, <3>2 DEF Clients
    <3>3. CASE cl' = [cl EXCEPT ![c].rbuf = @ \o sockIn[c]]
      BY <2>1, <3>1, <3>3 DEF Clients
    <3> QED BY <1>6, <3>2, <3>3 DEF Readable, ReadInto
  <2>3. \A v \in Workers : wpc'[v] = "parse" => (wpc[v] = "parse" /\ cur'[v] = cur[v]) \/ (v = w /\ cur'[v] = c)
    BY <1>6 DEF Readable, TypeOK
  <2>4. toClose' = toClose /\ \A v \in Workers : evs'[v] \subseteq evs[v]
    BY <1>6 DEF Readable, TypeOK
  <2> QED BY <2>1, <2>2, <2>3, <2>4 DEF WorkerHas
<1>7. ASSUME NEW w \in Workers, NEW c \in Conns, Writable(w, c) \/ WriteErr(w, c) PROVE WorkerHas'
  <2>1. Owner(c) = w /\ cl[c].here
    BY <1>7 DEF Writable, WriteErr, WorkerHas, Edges
  <2>2. \A d \in Conns : cl'[d] = cl[d] \/ (cl[d].here /\ cl'[d].here)
    <3>1. cl \in [Conns -> Clients]
      BY DEF TypeOK
    <3>2. CASE cl' = [cl EXCEPT ![c].closed = TRUE]
      BY <2>1, <3>1, <3>2 DEF Clients
    <3>3. ASSUME NEW x, NEW y, cl' = [cl EXCEPT ![c].wbuf = x, ![c].armed = y]
          PROVE  \A d \in Conns : cl'[d] = cl[d] \/ (cl[d].here /\ cl'[d].here)
      BY <2>1, <3>1, <3>3 DEF Clients
    <3> QED BY <1>7, <3>2, <3>3 DEF Writable, WriteErr, Flushed
  <2>3. /\ toClose' = toClose /\ wpc' = wpc /\ cur' = cur
        /\ \A v \in Workers : evs'[v] \subseteq evs[v]
    BY <1>7 DEF Writable, WriteErr, TypeOK
  <2> QED BY <2>1, <2>2, <2>3 DEF WorkerHas
<1>8. ASSUME NEW w \in Workers, NEW c \in Conns, HungUp(w, c) PROVE WorkerHas'
  <2>1. Owner(c) = w
    BY <1>8 DEF HungUp, WorkerHas, Edges
  <2>2. /\ cl' = cl /\ wpc' = wpc /\ cur' = cur
        /\ \A v \in Workers : evs'[v] \subseteq evs[v]
        /\ \A v \in Workers : toClose'[v] = toClose[v] \/ (v = w /\ toClose'[v] = toClose[v] \cup {c})
    BY <1>8 DEF HungUp, TypeOK
  <2> QED BY <2>1, <2>2 DEF WorkerHas
<1>9. ASSUME NEW w \in Workers, ParseAndPush(w) PROVE WorkerHas'
  <2>1. cur[w] \in Conns /\ (cl[cur[w]].here \/ cl[cur[w]] = NoClient)
    BY <1>9 DEF ParseAndPush, WorkerHas
  <2>2. cl[cur[w]].here
    BY <1>9, <2>1 DEF ParseAndPush, NoClient
  <2>3. \A d \in Conns : cl'[d] = cl[d] \/ (cl[d].here /\ cl'[d].here)
    <3>1. cl \in [Conns -> Clients]
      BY DEF TypeOK
    <3>2. PICK x, y, z : cl' = [cl EXCEPT ![cur[w]].rbuf = x, ![cur[w]].closed = y, ![cur[w]].wbuf = z]
      BY <1>9 DEF ParseAndPush
    <3> QED BY <2>1, <2>2, <3>1, <3>2 DEF Clients
  <2>4. toClose' = toClose /\ wpc' = wpc /\ cur' = cur /\ evs' = evs
    BY <1>9 DEF ParseAndPush
  <2> QED BY <2>3, <2>4 DEF WorkerHas
<1>10. ASSUME NEW w \in Workers, Parsed(w) PROVE WorkerHas'
  BY <1>10 DEF Parsed, WorkerHas, TypeOK
<1>11. ASSUME NEW w \in Workers, EndIteration(w) PROVE WorkerHas'
  <2>1. evs' = evs /\ toClose' = toClose /\ cur' = cur /\ evs[w] = {}
    BY <1>11 DEF EndIteration
  <2>2. \A v \in Workers : wpc'[v] = "parse" => wpc[v] = "parse"
    BY <1>11 DEF EndIteration, TypeOK
  <2>3. \A d \in Conns : cl'[d] = NoClient \/ cl'[d] = cl[d]
    BY <1>11 DEF EndIteration
  <2>4. \A d \in Conns : Owner(d) # w => cl'[d] = cl[d]
    BY <1>11 DEF EndIteration, Gone, WorkerHas
  <2>5. ASSUME NEW v \in Workers, NEW d \in Conns, NEW e \in Edges, <<d, e>> \in evs'[v]
        PROVE  Owner(d) = v /\ cl'[d].here
    <3>1. v # w /\ Owner(d) = v /\ cl[d].here
      BY <2>1, <2>5 DEF WorkerHas
    <3> QED BY <2>4, <3>1
  <2> QED BY <2>1, <2>2, <2>3, <2>5 DEF WorkerHas
<1>12. ASSUME \/ Apply \/ Outside \/ Shutdown \/ UNCHANGED vars
       PROVE  WorkerHas'
  <2>1. UNCHANGED <<cl, evs, toClose, cur, wpc>>
    BY <1>12 DEF Apply, Outside, Drain, Drained, TimeFlush, NoTimeFlush, FlushSend, FlushEnd,
       Accept, Listened, StopCheck, Join, Shutdown, Connect, ClientSend, ClientHalfClose,
       ClientRecv, vars
  <2> QED BY <1>1, <2>1
<1> QED BY <1>2, <1>3, <1>4, <1>5, <1>6, <1>7, <1>8, <1>9, <1>10, <1>11, <1>12 DEF Next, Worker

(* A step that leaves a connection, its worker and its buffers alone keeps  *)
(* it watched; more edges do no harm.                                       *)
LEMMA WatchKept ==
  ASSUME NEW d \in Conns, Watched(d), cl'[d] = cl[d], sockOut'[d] = sockOut[d],
         sockIn'[d] = sockIn[d], ready[d] \subseteq ready'[d],
         wpc'[Owner(d)] = wpc[Owner(d)], evs'[Owner(d)] = evs[Owner(d)],
         toClose'[Owner(d)] = toClose[Owner(d)]
  PROVE  Watched(d)'
  BY DEF Watched, OutputWatched, InputWatched, Pending

LEMMA WatchedByClients ==
  ASSUME EdgeInv, NEW c \in Conns, NEW d \in Conns,
         \/ \E k \in Kinds : ClientSend(c, k)
         \/ ClientHalfClose(c)
         \/ ClientRecv(c)
  PROVE  Watched(d)'
<1>0. TypeOK /\ Watched(d) /\ WorkerHas
  BY DEF EdgeInv
<1>1. UNCHANGED <<cl, wpc, evs, toClose>>
  BY DEF ClientSend, ClientHalfClose, ClientRecv
<1>2. ready[d] \subseteq ready'[d]
  BY <1>0, RaiseType DEF ClientSend, ClientHalfClose, ClientRecv, Edges
<1>3. CASE d # c
  <2>1. sockIn'[d] = sockIn[d] /\ sockOut'[d] = sockOut[d]
    BY <1>0, <1>3 DEF ClientSend, ClientHalfClose, ClientRecv, TypeOK
  <2> QED BY <1>0, <1>1, <1>2, <2>1, WatchKept
<1>4. CASE d = c /\ \E k \in Kinds : ClientSend(c, k)
  <2>1. sockOut'[d] = sockOut[d]
    BY <1>4 DEF ClientSend
  <2>2. cl[d].here => "r" \in ready'[d]
    BY <1>0, <1>4, RaiseType DEF ClientSend, Edges
  <2> QED BY <1>0, <1>1, <1>2, <2>1, <2>2 DEF Watched, OutputWatched, InputWatched, Pending
<1>5. CASE d = c /\ ClientHalfClose(c)
  BY <1>0, <1>1, <1>2, <1>5, WatchKept DEF ClientHalfClose
<1>6. CASE d = c /\ ClientRecv(c)
  <2>1. sockIn'[d] = sockIn[d]
    BY <1>6 DEF ClientRecv
  <2>2. sockOut[d] \in Seq(Answers) /\ sockOut[d] # <<>> /\ sockOut'[d] = Tail(sockOut[d])
    BY <1>0, <1>6 DEF ClientRecv, TypeOK
  <2>3. Len(sockOut[d]) \in Nat /\ Len(sockOut'[d]) = Len(sockOut[d]) - 1
    BY <2>2, HeadTail
  <2>4. cl[d].armed => cl[d].here
    BY <1>0 DEF WorkerHas, NoClient
  <2>5. cl[d].armed /\ Len(sockOut[d]) = SockCap => "w" \in ready'[d]
    BY <1>0, <1>6, <2>4, RaiseType DEF ClientRecv, Edges
  <2>6. Len(sockOut'[d]) <= SockCap
    BY <1>0, <2>3, ConstantTypes DEF Watched, OutputWatched
  <2> QED BY <1>0, <1>1, <1>2, <2>1, <2>5, <2>6 DEF Watched, OutputWatched, InputWatched, Pending
<1> QED BY <1>3, <1>4, <1>5, <1>6

LEMMA WatchedTaking ==
  ASSUME EdgeInv, NEW w \in Workers, NEW d \in Conns,
         TakeClient(w) \/ TakeAnswer(w) \/ AnswersTaken(w)
  PROVE  Watched(d)'
<1>0. TypeOK /\ Watched(d) /\ WorkerHas
  BY DEF EdgeInv
<1>1. UNCHANGED <<sockIn, sockOut, evs, toClose>>
  BY DEF TakeClient, TakeAnswer, AnswersTaken
<1>2. wpc'[Owner(d)] = wpc[Owner(d)] \/ wpc[Owner(d)] \notin {"events", "parse"}
  <2>1. wpc[w] \in {"new", "writes"} /\ (wpc' = wpc \/ \E p : wpc' = [wpc EXCEPT ![w] = p])
    BY DEF TakeClient, TakeAnswer, AnswersTaken
  <2>2. wpc \in [Workers -> {"new", "writes", "poll", "events", "parse", "exited"}]
    BY <1>0 DEF TypeOK
  <2> QED BY <2>1, <2>2, ConnsAreNat
<1>3. cl'[d] = cl[d] /\ ready[d] \subseteq ready'[d] => Watched(d)'
  BY <1>0, <1>1, <1>2 DEF Watched, OutputWatched, InputWatched, Pending
<1>4. CASE TakeClient(w)
  <2>1. CASE newq[w] = <<>>
    BY <1>3, <1>4, <2>1 DEF TakeClient
  <2>2. CASE newq[w] # <<>>
    <3> DEFINE h == Head(newq[w])
    <3>1. /\ cl' = [cl EXCEPT ![h] = [NoClient EXCEPT !.here = TRUE]]
          /\ ready' = [ready EXCEPT ![h] = EdgesAtStart(h)]
      BY <1>4, <2>2 DEF TakeClient
    <3> HIDE DEF h
    <3>2. CASE d # h
      BY <1>0, <1>3, <3>1, <3>2 DEF TypeOK
    <3>3. CASE d = h
      <4>1. cl'[d] = [NoClient EXCEPT !.here = TRUE] /\ ready'[d] = EdgesAtStart(d)
        BY <1>0, <3>1, <3>3 DEF TypeOK
      <4>2. cl'[d].wbuf = <<>> /\ cl'[d].armed = FALSE /\ cl'[d].closed = FALSE
        BY <4>1 DEF NoClient
      <4>3. sockIn'[d] # <<>> => "r" \in ready'[d]
        BY <1>1, <4>1 DEF EdgesAtStart
      <4>4. OutputWatched(d)'
        BY <1>0, <1>1, <4>2 DEF Watched, OutputWatched
      <4>5. InputWatched(d)'
        BY <4>3 DEF InputWatched
      <4> QED BY <4>4, <4>5 DEF Watched
    <3> QED BY <3>2, <3>3
  <2> QED BY <2>1, <2>2
<1>5. CASE TakeAnswer(w)
  <2> DEFINE a == Head(writeq[w])
             s == a.slot
  <2>1. s \in Conns
    <3>1. writeq[w] \in Seq(Items) /\ writeq[w] # <<>>
      BY <1>0, <1>5 DEF TypeOK, TakeAnswer
    <3>2. a \in Items
      BY <3>1, HeadTail
    <3> QED BY <3>2 DEF Items
  <2>2. ready' = ArmedEdge(s) /\ wpc' = wpc
    BY <1>5 DEF TakeAnswer
  <2>3. ready[d] \subseteq ready'[d]
    BY <1>0, <2>1, <2>2, RaiseType DEF ArmedEdge, Edges
  <2>4. CASE ~cl[s].here
    BY <1>3, <1>5, <2>3, <2>4 DEF TakeAnswer
  <2>5. CASE cl[s].here
    <3>1. PICK x : cl' = [cl EXCEPT ![s].wbuf = x, ![s].armed = TRUE]
      BY <1>5, <2>5 DEF TakeAnswer
    <3> HIDE DEF s
    <3>2. CASE d # s
      <4>1. cl'[d] = cl[d]
        BY <1>0, <3>1, <3>2 DEF TypeOK
      <4> QED BY <1>3, <2>3, <4>1
    <3>3. CASE d = s
      <4>1. cl[d] \in Clients /\ cl'[d] = [cl[d] EXCEPT !.wbuf = x, !.armed = TRUE]
        BY <1>0, <2>1, <3>1, <3>3 DEF TypeOK
      <4>2. cl'[d].armed = TRUE /\ cl'[d].here = cl[d].here /\ cl'[d].closed = cl[d].closed
        BY <4>1 DEF Clients
      <4>3. ~cl[d].armed => "w" \in ready'[d] \/ Len(sockOut[d]) = SockCap
        <5>1. Len(sockOut[d]) \in Nat /\ Len(sockOut[d]) <= SockCap
          BY <1>0, ConnTypes DEF Watched, OutputWatched
        <5>2. Len(sockOut[d]) < SockCap \/ Len(sockOut[d]) = SockCap
          BY <5>1, ConstantTypes
        <5> QED BY <1>0, <2>2, <2>5, <3>3, <5>2, RaiseType DEF ArmedEdge, Edges
      <4>4. OutputWatched(d)'
        BY <1>0, <1>1, <2>2, <2>3, <4>2, <4>3 DEF Watched, OutputWatched, Pending
      <4>5. InputWatched(d)'
        BY <1>0, <1>1, <2>2, <2>3, <4>2 DEF Watched, InputWatched, Pending
      <4> QED BY <4>4, <4>5 DEF Watched
    <3> QED BY <3>2, <3>3
  <2> QED BY <2>4, <2>5
<1>6. CASE AnswersTaken(w)
  BY <1>3, <1>6 DEF AnswersTaken
<1> QED BY <1>4, <1>5, <1>6

LEMMA WatchedByPoll ==
  ASSUME EdgeInv, NEW w \in Workers, NEW d \in Conns, PollReady(w)
  PROVE  Watched(d)'
<1>0. TypeOK /\ Watched(d) /\ WorkerHas
  BY DEF EdgeInv
<1>1. UNCHANGED <<sockIn, sockOut, cl>> /\ wpc[w] = "poll"
  BY DEF PollReady
<1>2. CASE Owner(d) # w
  <2>1. /\ wpc'[Owner(d)] = wpc[Owner(d)] /\ evs'[Owner(d)] = evs[Owner(d)]
        /\ toClose'[Owner(d)] = toClose[Owner(d)]
    BY <1>0, <1>2, ConnsAreNat DEF PollReady, TypeOK
  <2>2. ready'[d] = ready[d]
    BY <1>2 DEF PollReady
  <2> QED BY <1>0, <1>1, <2>1, <2>2, WatchKept
<1>3. CASE Owner(d) = w /\ ~cl[d].here
  <2>1. cl'[d].wbuf = <<>> /\ cl'[d].armed = FALSE /\ cl'[d].closed = FALSE /\ ~cl'[d].here
    BY <1>0, <1>1, <1>3 DEF WorkerHas, NoClient
  <2> QED BY <1>0, <1>1, <2>1 DEF Watched, OutputWatched, InputWatched
<1>4. CASE Owner(d) = w /\ cl[d].here
  <2>1. ~Pending(d, "r") /\ ~Pending(d, "w") /\ ~cl[d].closed
    BY <1>0, <1>1, <1>4 DEF Pending, Watched, OutputWatched
  <2>2. wpc'[w] = "events"
    BY <1>0 DEF PollReady, TypeOK
  <2>3. \A e \in Reported(d) : <<d, e>> \in evs'[w]
    <3>1. evs'[w] = UNION {{c} \X Reported(c) : c \in {c \in Conns : Owner(c) = w /\ cl[c].here}}
      BY <1>0 DEF PollReady, TypeOK
    <3>2. d \in {c \in Conns : Owner(c) = w /\ cl[c].here}
      BY <1>4
    <3> HIDE DEF Reported
    <3> QED BY <3>1, <3>2
  <2>4. /\ "h" \in ready[d] => <<d, "h">> \in evs'[w]
        /\ "w" \in ready[d] => <<d, "h">> \in evs'[w] \/ <<d, "w">> \in evs'[w]
        /\ "r" \in ready[d] /\ sockIn[d] # <<>> => <<d, "h">> \in evs'[w] \/ <<d, "r">> \in evs'[w]
    BY <2>3 DEF Reported
  <2>5. OutputWatched(d)'
    BY <1>0, <1>1, <1>4, <2>1, <2>2, <2>4 DEF Watched, OutputWatched, Pending
  <2>6. InputWatched(d)'
    BY <1>0, <1>1, <1>4, <2>1, <2>2, <2>4 DEF Watched, InputWatched, Pending
  <2> QED BY <2>5, <2>6 DEF Watched
<1> QED BY <1>2, <1>3, <1>4

(* The events of one poll: of another connection nothing changes that the   *)
(* watch depends on.                                                        *)
LEMMA WatchedInLoop ==
  ASSUME EdgeInv, NEW w \in Workers, NEW c \in Conns, NEW d \in Conns,
         Readable(w, c) \/ Writable(w, c) \/ WriteErr(w, c) \/ HungUp(w, c)
  PROVE  Watched(d)'
<1>0. TypeOK /\ Watched(d) /\ WorkerHas /\ ready' = ready
  BY DEF EdgeInv, Readable, Writable, WriteErr, HungUp
<1>1. Owner(c) = w /\ cl[c].here /\ wpc[w] = "events"
  BY <1>0 DEF Readable, Writable, WriteErr, HungUp, WorkerHas, Edges
<1>2. \A v \in Workers : wpc'[v] = wpc[v] \/ (v = w /\ wpc'[v] = "parse")
  BY <1>0 DEF Readable, Writable, WriteErr, HungUp, TypeOK
<1>3. \A e \in Edges : d # c /\ <<d, e>> \in evs[Owner(d)] => <<d, e>> \in evs'[Owner(d)]
  <2>1. \A e \in Edges : d # c => <<d, e>> # <<c, "r">> /\ <<d, e>> # <<c, "w">> /\ <<d, e>> # <<c, "h">>
    OBVIOUS
  <2>2. evs \in [Workers -> SUBSET (Conns \X Edges)] /\ Owner(d) \in Workers
    BY <1>0, ConnsAreNat DEF TypeOK
  <2>3. \E e \in {"r", "w", "h"} : evs' = [evs EXCEPT ![w] = @ \ {<<c, e>>}]
    BY DEF Readable, Writable, WriteErr, HungUp
  <2> QED BY <2>1, <2>2, <2>3
<1>4. toClose[Owner(d)] \subseteq toClose'[Owner(d)]
  BY <1>0, ConnsAreNat DEF Readable, Writable, WriteErr, HungUp, TypeOK
<1>5. CASE d # c
  <2>1. cl'[d] = cl[d]
    BY <1>0, <1>5 DEF Readable, Writable, WriteErr, HungUp, ReadInto, Flushed, TypeOK
  <2>2. sockIn'[d] = sockIn[d] /\ sockOut'[d] = sockOut[d]
    BY <1>0, <1>5 DEF Readable, Writable, WriteErr, HungUp, Flushed, TypeOK
  <2>3. wpc'[Owner(d)] = wpc[Owner(d)] \/ (wpc[Owner(d)] = "events" /\ wpc'[Owner(d)] = "parse")
    BY <1>1, <1>2, ConnsAreNat
  <2>4. Pending(d, "r") => Pending(d, "r")'
    BY <1>3, <1>4, <1>5, <2>1, <2>3 DEF Pending, Edges
  <2>5. Pending(d, "w") => Pending(d, "w")'
    BY <1>3, <1>4, <1>5, <2>1, <2>3 DEF Pending, Edges
  <2> QED BY <1>0, <2>1, <2>2, <2>3, <2>4, <2>5 DEF Watched, OutputWatched, InputWatched
<1>6. CASE d = c /\ Readable(w, c)
  <2>1. \A e \in {"w", "h"} : <<d, e>> \in evs[w] => <<d, e>> \in evs'[w]
    BY <1>0, <1>6 DEF Readable, TypeOK
  <2>2. wpc'[w] \in {"events", "parse"}
    BY <1>1, <1>2
  <2>3. sockOut' = sockOut /\ toClose' = toClose
    BY <1>6 DEF Readable
  <2>4. cl[d] \in Clients
    BY <1>0, ConnTypes
  <2>5. CASE cl[c].closed
    <3>1. cl' = cl /\ sockIn' = sockIn
      BY <1>6, <2>5 DEF Readable
    <3> QED BY <1>0, <1>1, <1>6, <2>2, <2>3, <2>5, <3>1 DEF Watched, OutputWatched, InputWatched, Pending
  <2>6. CASE ~cl[c].closed /\ sockIn[c] = <<>>
    <3>1. cl'[d] = [cl[d] EXCEPT !.closed = TRUE] /\ sockIn' = sockIn
      BY <1>0, <1>6, <2>6 DEF Readable, TypeOK
    <3>2. cl'[d].closed
      BY <2>4, <3>1 DEF Clients
    <3> QED BY <1>0, <1>1, <1>6, <2>2, <2>3, <3>1, <3>2 DEF Watched, OutputWatched, InputWatched, Pending
  <2>7. CASE ~cl[c].closed /\ sockIn[c] # <<>>
    <3>1. cl'[d] = [cl[d] EXCEPT !.rbuf = @ \o sockIn[c]] /\ sockIn'[d] = <<>>
      BY <1>0, <1>6, <2>7 DEF Readable, ReadInto, TypeOK
    <3>2. cl'[d].closed = cl[d].closed /\ cl'[d].armed = cl[d].armed /\ cl'[d].wbuf = cl[d].wbuf
      BY <2>4, <3>1 DEF Clients
    <3>3. Pending(d, "w") => Pending(d, "w")'
      BY <1>1, <1>6, <2>1, <2>2, <2>3, <3>2 DEF Pending
    <3> QED BY <1>0, <1>1, <1>6, <2>2, <2>3, <3>1, <3>2, <3>3 DEF Watched, OutputWatched, InputWatched
  <2> QED BY <2>5, <2>6, <2>7
<1>7. CASE d = c /\ Writable(w, c)
  <2> DEFINE n == Room(c)
  <2>1. /\ cl[d] \in Clients /\ cl[d].wbuf \in Seq(Answers) /\ sockOut[d] \in Seq(Answers)
        /\ Len(sockOut[d]) <= SockCap /\ Len(sockOut[d]) \in Nat /\ Len(cl[d].wbuf) \in Nat
    BY <1>0, ConnTypes DEF Watched, OutputWatched
  <2>2. /\ n \in 0 .. Len(cl[d].wbuf) /\ Len(sockOut[d]) + n <= SockCap
        /\ MoreToWrite(c) => Len(sockOut[d]) + n = SockCap
    BY <1>0, <1>7, <2>1, RoomType
  <2>3. /\ cl'[d] = [cl[d] EXCEPT !.wbuf = SubSeq(@, n + 1, Len(@)), !.armed = @ /\ MoreToWrite(c)]
        /\ sockOut'[d] = sockOut[d] \o SubSeq(cl[d].wbuf, 1, n)
    BY <1>0, <1>7 DEF Writable, Flushed, TypeOK
  <2>4. Len(sockOut'[d]) = Len(sockOut[d]) + n
    <3>1. SubSeq(cl[d].wbuf, 1, n) \in Seq(Answers) /\ Len(SubSeq(cl[d].wbuf, 1, n)) = n
      BY <2>1, <2>2, Parts
    <3> QED BY <2>1, <2>3, <3>1, Joined
  <2>5. /\ cl'[d].closed = cl[d].closed /\ cl'[d].here = cl[d].here
        /\ cl'[d].armed = (cl[d].armed /\ MoreToWrite(c))
        /\ cl'[d].wbuf = SubSeq(cl[d].wbuf, n + 1, Len(cl[d].wbuf))
    BY <2>1, <2>3 DEF Clients
  <2>6. cl'[d].wbuf # <<>> => MoreToWrite(c) /\ cl[d].wbuf # <<>>
    <3>1. Len(cl'[d].wbuf) = Len(cl[d].wbuf) - n /\ cl'[d].wbuf \in Seq(Answers)
      BY <2>1, <2>2, <2>5, Parts
    <3>2. cl'[d].wbuf # <<>> => Len(cl[d].wbuf) - n > 0
      BY <3>1
    <3>3. cl'[d].wbuf # <<>> => n < Len(cl[d].wbuf)
      BY <2>1, <2>2, <3>2
    <3>4. cl'[d].wbuf # <<>> => Len(cl[d].wbuf) # 0
      BY <2>1, <2>2, <3>3
    <3> QED BY <1>7, <3>3, <3>4 DEF MoreToWrite
  <2>7. UNCHANGED <<sockIn, wpc, toClose>>
    BY <1>7 DEF Writable
  <2>8. \A e \in {"r", "h"} : <<d, e>> \in evs[w] => <<d, e>> \in evs'[w]
    BY <1>0, <1>7 DEF Writable, TypeOK
  <2>9. OutputWatched(d)'
    <3> HIDE DEF n
    <3> QED BY <1>0, <2>2, <2>4, <2>5, <2>6, <2>7 DEF Watched, OutputWatched
  <2>10. InputWatched(d)'
    BY <1>0, <1>1, <1>7, <2>5, <2>7, <2>8 DEF Watched, InputWatched, Pending
  <2> QED BY <2>9, <2>10 DEF Watched
<1>8. CASE d = c /\ WriteErr(w, c)
  <2>1. cl[d] \in Clients /\ cl'[d] = [cl[d] EXCEPT !.closed = TRUE]
    BY <1>0, <1>8 DEF WriteErr, TypeOK
  <2>2. cl'[d].closed
    BY <2>1 DEF Clients
  <2>3. UNCHANGED <<sockIn, sockOut, wpc>>
    BY <1>8 DEF WriteErr
  <2> QED BY <1>0, <1>1, <1>8, <2>2, <2>3 DEF Watched, OutputWatched, InputWatched, Pending
<1>9. CASE d = c /\ HungUp(w, c)
  <2>1. d \in toClose'[w] /\ UNCHANGED <<sockIn, sockOut, wpc, cl>>
    BY <1>0, <1>9 DEF HungUp, TypeOK
  <2> QED BY <1>0, <1>1, <1>9, <2>1 DEF Watched, OutputWatched, InputWatched, Pending
<1> QED BY <1>5, <1>6, <1>7, <1>8, <1>9

LEMMA WatchedParsing ==
  ASSUME EdgeInv, NEW w \in Workers, NEW d \in Conns, ParseAndPush(w) \/ Parsed(w)
  PROVE  Watched(d)'
<1>0. TypeOK /\ Watched(d) /\ WorkerHas /\ wpc[w] = "parse"
  BY DEF EdgeInv, ParseAndPush, Parsed
<1>1. UNCHANGED <<sockIn, sockOut, ready, evs, toClose>>
  BY DEF ParseAndPush, Parsed
<1>2. cur[w] \in Conns /\ Owner(cur[w]) = w
  BY <1>0 DEF WorkerHas
<1>3. CASE Parsed(w)
  <2>1. wpc'[Owner(d)] = wpc[Owner(d)] \/ (wpc[Owner(d)] = "parse" /\ wpc'[Owner(d)] = "events")
    BY <1>0, <1>3, ConnsAreNat DEF Parsed, TypeOK
  <2>2. cl' = cl
    BY <1>3 DEF Parsed
  <2> QED BY <1>0, <1>1, <2>1, <2>2 DEF Watched, OutputWatched, InputWatched, Pending
<1>4. CASE ParseAndPush(w) /\ d # cur[w]
  <2>1. cl'[d] = cl[d] /\ wpc' = wpc
    BY <1>0, <1>4 DEF ParseAndPush, TypeOK
  <2> QED BY <1>0, <1>1, <2>1, WatchKept
<1>5. CASE ParseAndPush(w) /\ d = cur[w]
  <2> DEFINE f == Head(cl[d].rbuf)
  <2>1. /\ cl[d] \in Clients
        /\ cl'[d] = [cl[d] EXCEPT !.rbuf = Tail(@), !.closed = f[2] # "req",
                       !.wbuf = IF f[2] = "big" THEN TooLargeInto(@, f[1]) ELSE @]
    BY <1>0, <1>5 DEF ParseAndPush, TypeOK
  <2> HIDE DEF f
  <2>2. /\ cl'[d].here = cl[d].here /\ cl'[d].armed = cl[d].armed
        /\ cl'[d].closed = (f[2] # "req")
        /\ cl'[d].wbuf = IF f[2] = "big" THEN TooLargeInto(cl[d].wbuf, f[1]) ELSE cl[d].wbuf
    BY <2>1 DEF Clients
  <2>3. wpc' = wpc /\ ~cl[d].closed
    BY <1>5 DEF ParseAndPush
  <2>4. cl'[d].wbuf = cl[d].wbuf \/ cl'[d].closed
    BY <2>2
  <2>5. wpc'[Owner(d)] = "parse"
    BY <1>0, <1>2, <1>5, <2>3
  <2>6. Pending(d, "w") => Pending(d, "w")'
    BY <1>1, <2>3, <2>5 DEF Pending
  <2>7. Pending(d, "r") => Pending(d, "r")'
    BY <1>1, <2>3, <2>5 DEF Pending
  <2>8. OutputWatched(d)'
    <3>1. cl'[d].armed = cl[d].armed
      BY <2>2
    <3> QED BY <1>0, <1>1, <2>3, <2>4, <2>5, <2>6, <3>1 DEF Watched, OutputWatched
  <2>9. InputWatched(d)'
    <3>1. cl'[d].here = cl[d].here
      BY <2>2
    <3> QED BY <1>0, <1>1, <2>7, <3>1 DEF Watched, InputWatched
  <2> QED BY <2>8, <2>9 DEF Watched
<1> QED BY <1>3, <1>4, <1>5

LEMMA WatchedAtEnd ==
  ASSUME EdgeInv, NEW w \in Workers, NEW d \in Conns, EndIteration(w)
  PROVE  Watched(d)'
<1>0. TypeOK /\ Watched(d) /\ WorkerHas /\ Len(sockOut[d]) <= SockCap
  BY DEF EdgeInv, Watched, OutputWatched
<1>1. UNCHANGED <<sockIn, evs, toClose>> /\ wpc[w] = "events" /\ evs[w] = {}
  BY DEF EndIteration
<1>2. CASE d \in Gone(w)
  <2>1. cl'[d].wbuf = <<>> /\ cl'[d].armed = FALSE /\ cl'[d].closed = FALSE /\ ~cl'[d].here
    BY <1>2 DEF EndIteration, NoClient
  <2>2. Len(sockOut'[d]) <= SockCap
    <3>1. sockOut'[d] = sockOut[d] \/ sockOut'[d] = sockOut[d] \o SubSeq(cl[d].wbuf, 1, Room(d))
      BY DEF EndIteration
    <3>2. /\ cl[d].wbuf \in Seq(Answers) /\ sockOut[d] \in Seq(Answers)
          /\ Room(d) \in 0 .. Len(cl[d].wbuf) /\ Len(sockOut[d]) + Room(d) <= SockCap
      BY <1>0, ConnTypes, RoomType
    <3>3. SubSeq(cl[d].wbuf, 1, Room(d)) \in Seq(Answers) /\ Len(SubSeq(cl[d].wbuf, 1, Room(d))) = Room(d)
      BY <3>2, Parts
    <3>4. Len(sockOut[d] \o SubSeq(cl[d].wbuf, 1, Room(d))) = Len(sockOut[d]) + Room(d)
      BY <3>2, <3>3, Joined
    <3> QED BY <1>0, <3>1, <3>2, <3>4
  <2> QED BY <2>1, <2>2 DEF Watched, OutputWatched, InputWatched
<1>3. CASE d \notin Gone(w)
  <2>1. cl'[d] = cl[d] /\ sockOut'[d] = sockOut[d] /\ ready'[d] = ready[d]
    BY <1>3 DEF EndIteration
  <2>2. CASE Owner(d) # w
    <3>1. wpc'[Owner(d)] = wpc[Owner(d)]
      BY <1>0, <2>2, ConnsAreNat DEF EndIteration, TypeOK
    <3> QED BY <1>0, <1>1, <2>1, <3>1, WatchKept
  <2>3. CASE Owner(d) = w
    <3>1. d \notin toClose[w] /\ ~cl[d].closed
      BY <1>3, <2>3 DEF Gone
    <3>2. ~Pending(d, "r") /\ ~Pending(d, "w")
      BY <1>1, <2>3, <3>1 DEF Pending
    <3> QED BY <1>0, <1>1, <2>1, <3>1, <3>2 DEF Watched, OutputWatched, InputWatched
  <2> QED BY <2>2, <2>3
<1> QED BY <1>2, <1>3

LEMMA EdgeInvInit == Init => EdgeInv
<1> SUFFICES ASSUME Init PROVE EdgeInv
  OBVIOUS
<1>1. \A c \in Conns : cl[c] = NoClient /\ sockOut[c] = <<>> /\ sockIn[c] = <<>>
  BY DEF Init
<1>2. \A w \in Workers : evs[w] = {} /\ toClose[w] = {} /\ wpc[w] = "new"
  BY DEF Init
<1>3. WorkerHas
  BY <1>1, <1>2 DEF WorkerHas
<1>4. ASSUME NEW c \in Conns PROVE Watched(c)
  <2>1. Len(sockOut[c]) = 0 /\ 0 <= SockCap
    BY <1>1, ConstantTypes
  <2>2. cl[c].wbuf = <<>> /\ cl[c].armed = FALSE /\ cl[c].closed = FALSE /\ ~cl[c].here
    BY <1>1 DEF NoClient
  <2> QED BY <2>1, <2>2 DEF Watched, OutputWatched, InputWatched
<1> QED BY <1>3, <1>4, TypeInit DEF EdgeInv

LEMMA EdgeInvNext == EdgeInv /\ [Next]_vars => EdgeInv'
<1> SUFFICES ASSUME EdgeInv, [Next]_vars PROVE EdgeInv'
  OBVIOUS
<1>1. TypeOK' /\ WorkerHas'
  <2>1. \A c \in Conns : Len(sockOut[c]) <= SockCap
    BY DEF EdgeInv, Watched, OutputWatched
  <2>2. \A w \in Workers : wpc[w] = "parse" => cur[w] \in Conns
    BY DEF EdgeInv, WorkerHas
  <2> QED BY <2>1, <2>2, TypeNext, WorkerHasNext DEF EdgeInv
<1>2. ASSUME NEW d \in Conns PROVE Watched(d)'
  <2>1. ASSUME NEW w \in Workers, Worker(w) PROVE Watched(d)'
    BY <2>1, WatchedTaking, WatchedByPoll, WatchedInLoop, WatchedParsing, WatchedAtEnd DEF Worker
  <2>2. CASE Outside /\ ~Connect
    BY <2>2, WatchedByClients DEF Outside
  <2>3. CASE Apply \/ Connect \/ Shutdown \/ UNCHANGED vars
    <3>1. UNCHANGED <<cl, sockIn, sockOut, ready, wpc, evs, toClose>>
      BY <2>3 DEF Apply, Drain, Drained, TimeFlush, NoTimeFlush, FlushSend, FlushEnd, Accept,
         Listened, StopCheck, Join, Shutdown, Connect, vars, workVars
    <3> QED BY <3>1, WatchKept DEF EdgeInv
  <2> QED BY <2>1, <2>2, <2>3 DEF Next
<1> QED BY <1>1, <1>2 DEF EdgeInv

(* The types of the pipeline's state, for every number of workers and       *)
(* connections and all capacities.                                          *)
THEOREM PipelineTypes == Spec => []TypeOK
<1>1. EdgeInv => TypeOK
  BY DEF EdgeInv
<1> QED BY <1>1, EdgeInvInit, EdgeInvNext, PTL DEF Spec

(* io_thread_worker.rs: with edge-triggered readiness a worker is told once *)
(* that a socket is readable or writable.  Whenever a worker sleeps in its  *)
(* poll, none of its connections has bytes to write without an edge that is *)
(* pending or sure to come, nor input without a pending edge.               *)
THEOREM NoBytesStuck == Spec => []NoStuckBytes
<1>1. EdgeInv => NoStuckBytes
  <2> SUFFICES ASSUME EdgeInv, NEW c \in Conns, wpc[Owner(c)] = "poll"
               PROVE  /\ cl[c].wbuf # <<>> =>
                           cl[c].armed /\ ("w" \in ready[c] \/ Len(sockOut[c]) = SockCap)
                      /\ sockIn[c] # <<>> /\ cl[c].here => ready[c] \cap {"r", "h"} # {}
    BY DEF NoStuckBytes, NoStuckOutput, NoStuckInput
  <2>1. Watched(c) /\ ~Pending(c, "r") /\ ~Pending(c, "w")
    BY DEF EdgeInv, Pending
  <2> QED BY <2>1 DEF Watched, OutputWatched, InputWatched
<1> QED BY <1>1, EdgeInvInit, EdgeInvNext, PTL DEF Spec

-----------------------------------------------------------------------------
(* Queue q holds, of connection c, the numbers above lo up to hi, each      *)
(* once and in order; what else it holds does not matter.                   *)
Carries(q, c, lo, hi) ==
  /\ lo <= hi
  /\ \A i \in DOMAIN q : q[i].slot = c => lo < q[i].num /\ q[i].num <= hi
  /\ \A n \in lo + 1 .. hi : \E i \in DOMAIN q : q[i].slot = c /\ q[i].num = n
  /\ \A i, j \in DOMAIN q :
       i < j /\ q[i].slot = c /\ q[j].slot = c => q[i].num < q[j].num

Absent(q, c) == \A i \in DOMAIN q : q[i].slot # c

(* r is q without its k-th element.                                         *)
Without(q, k, r) ==
  /\ \A i \in DOMAIN r : \E m \in DOMAIN q : m # k /\ r[i] = q[m]
  /\ \A m \in DOMAIN q : m # k => \E i \in DOMAIN r : r[i] = q[m]
  /\ \A i, j \in DOMAIN r : i < j =>
       \E m, n \in DOMAIN q : m < n /\ m # k /\ n # k /\ r[i] = q[m] /\ r[j] = q[n]

LEMMA ItemNums ==
  ASSUME NEW q \in Seq(Items), NEW j \in DOMAIN q
  PROVE  j \in Nat /\ q[j] \in Items /\ q[j].num \in Nat /\ q[j].slot \in Conns
<1>1. j \in Nat /\ q[j] \in Items
  OBVIOUS
<1> QED BY <1>1 DEF Items

LEMMA TailIsWithout ==
  ASSUME NEW q \in Seq(Items), q # <<>>
  PROVE  Without(q, 1, Tail(q))
<1>1. /\ Tail(q) \in Seq(Items) /\ Len(Tail(q)) = Len(q) - 1 /\ Len(q) \in Nat \ {0}
      /\ \A i \in DOMAIN Tail(q) : i + 1 \in DOMAIN q /\ Tail(q)[i] = q[i + 1]
  BY HeadTail
<1>2. DOMAIN Tail(q) = 1 .. Len(q) - 1 /\ DOMAIN q = 1 .. Len(q)
  BY <1>1
<1> DEFINE r == Tail(q)
<1> HIDE DEF r
<1>3. \A i \in DOMAIN r : i \in Nat \ {0} /\ i + 1 \in DOMAIN q /\ r[i] = q[i + 1]
  BY <1>1, <1>2 DEF r
<1>4. \A m \in DOMAIN q : m # 1 => m - 1 \in DOMAIN r /\ r[m - 1] = q[m]
  <2> TAKE m \in DOMAIN q
  <2> HAVE m # 1
  <2>1. m - 1 \in DOMAIN r /\ (m - 1) + 1 = m
    BY <1>1, <1>2 DEF r
  <2> QED BY <1>3, <2>1
<1>5. \A i \in DOMAIN r : \E m \in DOMAIN q : m # 1 /\ r[i] = q[m]
  BY <1>3
<1>6. ASSUME NEW i \in DOMAIN r, NEW j \in DOMAIN r, i < j
      PROVE  \E m, n \in DOMAIN q : m < n /\ m # 1 /\ n # 1 /\ r[i] = q[m] /\ r[j] = q[n]
  <2>1. i + 1 < j + 1 /\ i + 1 # 1 /\ j + 1 # 1
    BY <1>3, <1>6
  <2> QED BY <1>3, <2>1
<1> QED BY <1>4, <1>5, <1>6 DEF Without, r

LEMMA RemovedIsWithout ==
  ASSUME NEW q \in Seq(Items), NEW k \in DOMAIN q
  PROVE  Without(q, k, RemoveAt(q, k))
<1> DEFINE r == RemoveAt(q, k)
<1>1. /\ DOMAIN r = 1 .. Len(q) - 1
      /\ \A i \in 1 .. Len(q) - 1 : r[i] = IF i < k THEN q[i] ELSE q[i + 1]
  BY Removed
<1>2. Len(q) \in Nat /\ DOMAIN q = 1 .. Len(q) /\ k \in 1 .. Len(q)
  OBVIOUS
<1> HIDE DEF r
<1>3. ASSUME NEW i \in DOMAIN r, i < k PROVE i \in DOMAIN q /\ i # k /\ r[i] = q[i]
  BY <1>1, <1>2, <1>3
<1>4. ASSUME NEW i \in DOMAIN r, ~(i < k) PROVE i + 1 \in DOMAIN q /\ i + 1 # k /\ r[i] = q[i + 1]
  BY <1>1, <1>2, <1>4
<1>5. ASSUME NEW m \in DOMAIN q, m < k PROVE m \in DOMAIN r /\ r[m] = q[m]
  BY <1>1, <1>2, <1>5
<1>6. ASSUME NEW m \in DOMAIN q, m > k PROVE m - 1 \in DOMAIN r /\ r[m - 1] = q[m]
  <2>1. m - 1 \in DOMAIN r /\ ~(m - 1 < k) /\ (m - 1) + 1 = m
    BY <1>1, <1>2, <1>6
  <2> QED BY <1>4, <2>1
<1>7. \A i \in DOMAIN r : \E m \in DOMAIN q : m # k /\ r[i] = q[m]
  BY <1>3, <1>4
<1>8. \A m \in DOMAIN q : m # k => \E i \in DOMAIN r : r[i] = q[m]
  <2> TAKE m \in DOMAIN q
  <2> HAVE m # k
  <2>1. m < k \/ m > k
    BY <1>2
  <2> QED BY <1>5, <1>6, <2>1
<1>9. ASSUME NEW i \in DOMAIN r, NEW j \in DOMAIN r, i < j
      PROVE  \E m, n \in DOMAIN q : m < n /\ m # k /\ n # k /\ r[i] = q[m] /\ r[j] = q[n]
  <2>0. i \in Nat /\ j \in Nat /\ k \in Nat
    BY <1>1, <1>2
  <2>1. CASE j < k
    <3>1. i < k
      BY <1>9, <2>0, <2>1
    <3> QED BY <1>3, <1>9, <2>1, <3>1
  <2>2. CASE ~(j < k) /\ i < k
    <3>1. i < j + 1
      BY <1>9, <2>0
    <3> QED BY <1>3, <1>4, <2>2, <3>1
  <2>3. CASE ~(i < k)
    <3>1. ~(j < k) /\ i + 1 < j + 1
      BY <1>9, <2>0, <2>3
    <3> QED BY <1>4, <2>3, <3>1
  <2> QED BY <2>1, <2>2, <2>3
<1> QED BY <1>7, <1>8, <1>9 DEF Without, r

(* Taking an element of another connection out, or appending one.           *)
LEMMA OtherTaken ==
  ASSUME NEW q, NEW r, NEW k, NEW c, Without(q, k, r), NEW lo, NEW hi
  PROVE  /\ Absent(q, c) => Absent(r, c)
         /\ q[k].slot # c /\ Carries(q, c, lo, hi) => Carries(r, c, lo, hi)
<1>1. Absent(q, c) => Absent(r, c)
  BY DEF Without, Absent
<1>2. ASSUME q[k].slot # c, Carries(q, c, lo, hi) PROVE Carries(r, c, lo, hi)
  <2>1. \A i \in DOMAIN r : r[i].slot = c => lo < r[i].num /\ r[i].num <= hi
    BY <1>2 DEF Without, Carries
  <2>2. \A n \in lo + 1 .. hi : \E i \in DOMAIN r : r[i].slot = c /\ r[i].num = n
    BY <1>2 DEF Without, Carries
  <2>3. \A i, j \in DOMAIN r :
          i < j /\ r[i].slot = c /\ r[j].slot = c => r[i].num < r[j].num
    BY <1>2 DEF Without, Carries
  <2> QED BY <1>2, <2>1, <2>2, <2>3 DEF Carries
<1> QED BY <1>1, <1>2

LEMMA OtherAppended ==
  ASSUME NEW q \in Seq(Items), NEW x \in Items, NEW c, x.slot # c, NEW lo, NEW hi
  PROVE  /\ Absent(q, c) => Absent(Append(q, x), c)
         /\ Carries(q, c, lo, hi) => Carries(Append(q, x), c, lo, hi)
<1> DEFINE r == Append(q, x)
<1>1. /\ \A i \in DOMAIN r : (i \in DOMAIN q /\ r[i] = q[i]) \/ r[i] = x
      /\ \A i \in DOMAIN q : i \in DOMAIN r /\ r[i] = q[i]
  BY Appended
<1> HIDE DEF r
<1>2. Absent(q, c) => Absent(r, c)
  BY <1>1 DEF Absent
<1>3. ASSUME Carries(q, c, lo, hi) PROVE Carries(r, c, lo, hi)
  <2>1. \A i \in DOMAIN r : r[i].slot = c => i \in DOMAIN q /\ r[i] = q[i]
    BY <1>1
  <2> QED BY <1>1, <1>3, <2>1 DEF Carries
<1> QED BY <1>2, <1>3 DEF r

(* The first element of a connection carries the next number, and what is   *)
(* left carries on from there.                                              *)
LEMMA FirstTaken ==
  ASSUME NEW q \in Seq(Items), NEW r, NEW k \in DOMAIN q, NEW c, Without(q, k, r),
         NEW lo \in Nat, NEW hi \in Nat, Carries(q, c, lo, hi), q[k].slot = c,
         \A j \in DOMAIN q : q[j].slot = c => k <= j
  PROVE  /\ q[k].num = lo + 1 /\ lo + 1 <= hi
         /\ Carries(r, c, lo + 1, hi)
<1>0. \A j \in DOMAIN q : j \in Nat /\ q[j].num \in Nat
  BY ItemNums
<1>1. lo < q[k].num /\ q[k].num <= hi
  BY DEF Carries
<1>2. lo + 1 \in lo + 1 .. hi /\ lo + 1 <= hi
  BY <1>0, <1>1
<1>3. PICK i \in DOMAIN q : q[i].slot = c /\ q[i].num = lo + 1
  BY <1>2 DEF Carries
<1>4. q[k].num = lo + 1
  <2>1. CASE i = k
    BY <1>3, <2>1
  <2>2. CASE k < i
    <3>1. q[k].num < lo + 1
      BY <1>3, <2>2 DEF Carries
    <3> QED BY <1>0, <1>1, <3>1
  <2>3. k = i \/ k < i
    BY <1>0, <1>3
  <2> QED BY <2>1, <2>2, <2>3
<1>5. \A m \in DOMAIN q : m # k /\ q[m].slot = c => lo + 1 < q[m].num /\ q[m].num <= hi
  <2> TAKE m \in DOMAIN q
  <2> HAVE m # k /\ q[m].slot = c
  <2>1. k < m
    BY <1>0
  <2>2. q[k].num < q[m].num /\ q[m].num <= hi
    BY <2>1 DEF Carries
  <2> QED BY <1>4, <2>2
<1>6. \A n \in lo + 2 .. hi : \E m \in DOMAIN q : m # k /\ q[m].slot = c /\ q[m].num = n
  <2> TAKE n \in lo + 2 .. hi
  <2>1. n \in lo + 1 .. hi /\ n # lo + 1
    OBVIOUS
  <2>2. PICK m \in DOMAIN q : q[m].slot = c /\ q[m].num = n
    BY <2>1 DEF Carries
  <2> QED BY <1>4, <2>1, <2>2
<1>7. \A i1 \in DOMAIN r : r[i1].slot = c => lo + 1 < r[i1].num /\ r[i1].num <= hi
  BY <1>5 DEF Without
<1>8. \A n \in (lo + 1) + 1 .. hi : \E i1 \in DOMAIN r : r[i1].slot = c /\ r[i1].num = n
  <2> TAKE n \in (lo + 1) + 1 .. hi
  <2>1. n \in lo + 2 .. hi
    OBVIOUS
  <2>2. PICK m \in DOMAIN q : m # k /\ q[m].slot = c /\ q[m].num = n
    BY <1>6, <2>1
  <2>3. PICK i1 \in DOMAIN r : r[i1] = q[m]
    BY <2>2 DEF Without
  <2> QED BY <2>2, <2>3
<1>9. ASSUME NEW i1 \in DOMAIN r, NEW j \in DOMAIN r, i1 < j, r[i1].slot = c, r[j].slot = c
      PROVE  r[i1].num < r[j].num
  <2>1. PICK m, n \in DOMAIN q : m < n /\ r[i1] = q[m] /\ r[j] = q[n]
    BY <1>9 DEF Without
  <2>2. q[m].slot = c /\ q[n].slot = c
    BY <1>9, <2>1
  <2>3. q[m].num < q[n].num
    BY <2>1, <2>2 DEF Carries
  <2> QED BY <2>1, <2>3
<1> QED BY <1>2, <1>4, <1>7, <1>8, <1>9 DEF Carries

LEMMA NextAppended ==
  ASSUME NEW q \in Seq(Items), NEW x \in Items, NEW c, NEW lo \in Nat, NEW hi \in Nat,
         Carries(q, c, lo, hi), x.slot = c, x.num = hi + 1
  PROVE  Carries(Append(q, x), c, lo, hi + 1)
<1> DEFINE r == Append(q, x)
           e == Len(q) + 1
<1>1. /\ \A i \in DOMAIN r : (i \in DOMAIN q /\ i < e /\ r[i] = q[i]) \/ (i = e /\ r[i] = x)
      /\ \A i \in DOMAIN q : i \in DOMAIN r /\ r[i] = q[i]
      /\ e \in DOMAIN r /\ r[e] = x
  BY Appended
<1>2. /\ \A i \in DOMAIN q : i \in Nat /\ q[i].num \in Nat
      /\ \A i \in DOMAIN r : i \in Nat
  BY ItemNums, Appended
<1> HIDE DEF r, e
<1>3. \A i \in DOMAIN q : q[i].slot = c => lo < q[i].num /\ q[i].num <= hi
  BY DEF Carries
<1>4. lo <= hi
  BY DEF Carries
<1>5. \A i \in DOMAIN r : r[i].slot = c => lo < r[i].num /\ r[i].num <= hi + 1
  <2> TAKE i \in DOMAIN r
  <2> HAVE r[i].slot = c
  <2>1. CASE i = e
    BY <1>1, <1>4, <2>1
  <2>2. CASE i # e
    <3>1. i \in DOMAIN q /\ r[i] = q[i]
      BY <1>1, <2>2
    <3>2. lo < q[i].num /\ q[i].num <= hi /\ q[i].num \in Nat
      BY <1>2, <1>3, <3>1
    <3> QED BY <3>1, <3>2
  <2> QED BY <2>1, <2>2
<1>6. \A n \in lo + 1 .. hi + 1 : \E i \in DOMAIN r : r[i].slot = c /\ r[i].num = n
  <2> TAKE n \in lo + 1 .. hi + 1
  <2>1. CASE n = hi + 1
    BY <1>1, <2>1
  <2>2. CASE n # hi + 1
    <3>1. n \in lo + 1 .. hi
      BY <2>2
    <3>2. PICK i \in DOMAIN q : q[i].slot = c /\ q[i].num = n
      BY <3>1 DEF Carries
    <3> QED BY <1>1, <3>2
  <2> QED BY <2>1, <2>2
<1>7. ASSUME NEW i \in DOMAIN r, NEW j \in DOMAIN r, i < j, r[i].slot = c, r[j].slot = c
      PROVE  r[i].num < r[j].num
  <2>1. CASE j = e
    <3>1. i # e
      BY <1>2, <1>7, <2>1
    <3>2. i \in DOMAIN q /\ r[i] = q[i] /\ q[i].num \in Nat
      BY <1>1, <1>2, <3>1
    <3>3. q[i].num <= hi
      BY <1>3, <1>7, <3>2
    <3>4. r[j].num = hi + 1
      BY <1>1, <2>1
    <3> QED BY <3>2, <3>3, <3>4
  <2>2. CASE j # e
    <3>1. j \in DOMAIN q /\ j < e /\ r[j] = q[j]
      BY <1>1, <2>2
    <3>2. i # e
      BY <1>2, <1>7, <3>1
    <3>3. i \in DOMAIN q /\ r[i] = q[i]
      BY <1>1, <3>2
    <3> QED BY <1>7, <3>1, <3>3 DEF Carries
  <2> QED BY <2>1, <2>2
<1>8. lo <= hi + 1
  BY <1>4
<1> QED BY <1>5, <1>6, <1>7, <1>8 DEF Carries, r

LEMMA NothingCarried ==
  ASSUME NEW q, NEW c, NEW lo \in Nat
  PROVE  Absent(q, c) => Carries(q, c, lo, lo)
  BY DEF Absent, Carries

LEMMA CarriedByNone ==
  ASSUME NEW c, NEW lo \in Nat, NEW hi \in Nat, Carries(<<>>, c, lo, hi)
  PROVE  lo = hi
<1>1. lo <= hi /\ \A n \in lo + 1 .. hi : FALSE
  BY DEF Carries
<1>2. lo < hi => hi \in lo + 1 .. hi
  OBVIOUS
<1> QED BY <1>1, <1>2

-----------------------------------------------------------------------------
(* The channel of answers a, the flush o, the batch b and the channel of    *)
(* items r together hold the numbers of c above lo up to hi, the oldest     *)
(* ones furthest on.                                                        *)
Stages(a, o, b, r, c, lo, hi) ==
  \E x, y, z \in Nat : /\ Carries(a, c, lo, x) /\ Carries(o, c, x, y)
                       /\ Carries(b, c, y, z) /\ Carries(r, c, z, hi)

LEMMA StagesBound ==
  ASSUME NEW a, NEW o, NEW b, NEW r, NEW c, NEW lo \in Nat, NEW hi \in Int,
         Stages(a, o, b, r, c, lo, hi)
  PROVE  lo <= hi /\ hi \in Nat
<1>1. PICK x, y, z \in Nat : /\ Carries(a, c, lo, x) /\ Carries(o, c, x, y)
                             /\ Carries(b, c, y, z) /\ Carries(r, c, z, hi)
  BY DEF Stages
<1>2. lo <= x /\ x <= y /\ y <= z /\ z <= hi
  BY <1>1 DEF Carries
<1> QED BY <1>2

LEMMA StagesEmpty ==
  ASSUME NEW a, NEW o, NEW b, NEW r, NEW c, NEW lo \in Nat,
         Absent(a, c), Absent(o, c), Absent(b, c), Absent(r, c)
  PROVE  Stages(a, o, b, r, c, lo, lo)
  BY NothingCarried DEF Stages

LEMMA StagesDispatch ==
  ASSUME NEW a, NEW o, NEW b \in Seq(Items), NEW r \in Seq(Items), r # <<>>, NEW c,
         NEW lo \in Nat, NEW hi \in Nat, Stages(a, o, b, r, c, lo, hi)
  PROVE  Stages(a, o, Append(b, Head(r)), Tail(r), c, lo, hi)
<1>1. PICK x, y, z \in Nat : /\ Carries(a, c, lo, x) /\ Carries(o, c, x, y)
                             /\ Carries(b, c, y, z) /\ Carries(r, c, z, hi)
  BY DEF Stages
<1>2. Head(r) = r[1] /\ Head(r) \in Items /\ 1 \in DOMAIN r
  BY HeadTail
<1>3. Without(r, 1, Tail(r))
  BY TailIsWithout
<1>4. CASE Head(r).slot # c
  <2>1. Carries(Tail(r), c, z, hi)
    BY <1>1, <1>2, <1>3, <1>4, OtherTaken
  <2>2. Carries(Append(b, Head(r)), c, y, z)
    BY <1>1, <1>2, <1>4, OtherAppended
  <2> QED BY <1>1, <2>1, <2>2 DEF Stages
<1>5. CASE Head(r).slot = c
  <2>0. \A j \in DOMAIN r : 1 <= j
    OBVIOUS
  <2>1. r[1].num = z + 1 /\ Carries(Tail(r), c, z + 1, hi)
    BY <1>1, <1>2, <1>3, <1>5, <2>0, FirstTaken
  <2>2. Carries(Append(b, Head(r)), c, y, z + 1)
    BY <1>1, <1>2, <1>5, <2>1, NextAppended
  <2>3. z + 1 \in Nat
    OBVIOUS
  <2> QED BY <1>1, <2>1, <2>2, <2>3 DEF Stages
<1> QED BY <1>4, <1>5

LEMMA StagesFlush ==
  ASSUME NEW a, NEW b, NEW r, NEW c, NEW lo \in Nat, NEW hi \in Nat,
         Stages(a, <<>>, b, r, c, lo, hi)
  PROVE  Stages(a, b, <<>>, r, c, lo, hi)
<1>1. PICK x, y, z \in Nat : /\ Carries(a, c, lo, x) /\ Carries(<<>>, c, x, y)
                             /\ Carries(b, c, y, z) /\ Carries(r, c, z, hi)
  BY DEF Stages
<1>2. x = y
  BY <1>1, CarriedByNone
<1>3. Carries(<<>>, c, z, z)
  <2>1. Absent(<<>>, c)
    BY DEF Absent
  <2> QED BY <2>1, NothingCarried
<1> QED BY <1>1, <1>2, <1>3 DEF Stages

(* An answer of c leaves the flush only before its later ones.              *)
LEMMA StagesSend ==
  ASSUME NEW a \in Seq(Items), NEW o \in Seq(Items), NEW b, NEW r, NEW c,
         NEW k \in DOMAIN o, \A j \in DOMAIN o : o[j].slot = o[k].slot => k <= j,
         NEW lo \in Nat, NEW hi \in Nat, Stages(a, o, b, r, c, lo, hi)
  PROVE  /\ Stages(Append(a, o[k]), RemoveAt(o, k), b, r, c, lo, hi)
         /\ o[k].slot # c => Stages(a, RemoveAt(o, k), b, r, c, lo, hi)
<1>1. PICK x, y, z \in Nat : /\ Carries(a, c, lo, x) /\ Carries(o, c, x, y)
                             /\ Carries(b, c, y, z) /\ Carries(r, c, z, hi)
  BY DEF Stages
<1>2. Without(o, k, RemoveAt(o, k)) /\ o[k] \in Items
  BY RemovedIsWithout
<1>3. CASE o[k].slot # c
  <2>1. Carries(RemoveAt(o, k), c, x, y)
    BY <1>1, <1>2, <1>3, OtherTaken
  <2>2. Carries(Append(a, o[k]), c, lo, x)
    BY <1>1, <1>2, <1>3, OtherAppended
  <2> QED BY <1>1, <2>1, <2>2 DEF Stages
<1>4. CASE o[k].slot = c
  <2>1. o[k].num = x + 1 /\ Carries(RemoveAt(o, k), c, x + 1, y)
    BY <1>1, <1>2, <1>4, FirstTaken
  <2>2. Carries(Append(a, o[k]), c, lo, x + 1)
    BY <1>1, <1>2, <1>4, <2>1, NextAppended
  <2>3. x + 1 \in Nat
    OBVIOUS
  <2> QED BY <1>1, <1>4, <2>1, <2>2, <2>3 DEF Stages
<1> QED BY <1>3, <1>4

LEMMA StagesTake ==
  ASSUME NEW a \in Seq(Items), a # <<>>, NEW o, NEW b, NEW r, NEW c,
         NEW lo \in Nat, NEW hi \in Nat, Stages(a, o, b, r, c, lo, hi)
  PROVE  /\ Head(a).slot # c => Stages(Tail(a), o, b, r, c, lo, hi)
         /\ Head(a).slot = c => /\ Head(a).num = lo + 1 /\ lo + 1 <= hi
                                /\ Stages(Tail(a), o, b, r, c, lo + 1, hi)
<1>1. PICK x, y, z \in Nat : /\ Carries(a, c, lo, x) /\ Carries(o, c, x, y)
                             /\ Carries(b, c, y, z) /\ Carries(r, c, z, hi)
  BY DEF Stages
<1>2. Head(a) = a[1] /\ 1 \in DOMAIN a /\ Without(a, 1, Tail(a))
  BY HeadTail, TailIsWithout
<1>3. CASE Head(a).slot # c
  <2>1. Carries(Tail(a), c, lo, x)
    BY <1>1, <1>2, <1>3, OtherTaken
  <2> QED BY <1>1, <1>3, <2>1 DEF Stages
<1>4. CASE Head(a).slot = c
  <2>0. \A j \in DOMAIN a : 1 <= j
    OBVIOUS
  <2>1. a[1].num = lo + 1 /\ lo + 1 <= x /\ Carries(Tail(a), c, lo + 1, x)
    BY <1>1, <1>2, <1>4, <2>0, FirstTaken
  <2>2. x <= y /\ y <= z /\ z <= hi
    BY <1>1 DEF Carries
  <2>3. lo + 1 <= hi
    BY <2>1, <2>2
  <2>4. Stages(Tail(a), o, b, r, c, lo + 1, hi)
    BY <1>1, <2>1 DEF Stages
  <2> QED BY <1>2, <1>4, <2>1, <2>3, <2>4
<1> QED BY <1>3, <1>4

LEMMA StagesPush ==
  ASSUME NEW a, NEW o, NEW b, NEW r \in Seq(Items), NEW i \in Items, NEW c,
         NEW lo \in Nat, NEW hi \in Nat, Stages(a, o, b, r, c, lo, hi)
  PROVE  /\ i.slot # c => Stages(a, o, b, Append(r, i), c, lo, hi)
         /\ i.slot = c /\ i.num = hi + 1 => Stages(a, o, b, Append(r, i), c, lo, hi + 1)
<1>1. PICK x, y, z \in Nat : /\ Carries(a, c, lo, x) /\ Carries(o, c, x, y)
                             /\ Carries(b, c, y, z) /\ Carries(r, c, z, hi)
  BY DEF Stages
<1>2. CASE i.slot # c
  <2>1. Carries(Append(r, i), c, z, hi)
    BY <1>1, <1>2, OtherAppended
  <2> QED BY <1>1, <1>2, <2>1 DEF Stages
<1>3. CASE i.slot = c /\ i.num = hi + 1
  <2>1. Carries(Append(r, i), c, z, hi + 1)
    BY <1>1, <1>3, NextAppended
  <2> QED BY <1>1, <1>3, <2>1 DEF Stages
<1> QED BY <1>2, <1>3

(* What was written to a connection is numbered from 1 on, over what the    *)
(* client has read (g), the send buffer (s) and the write buffer (b).       *)
Counted(g, s, b, hi) ==
  /\ \A i \in DOMAIN g : g[i][1] = i
  /\ \A i \in DOMAIN s : s[i][1] = Len(g) + i
  /\ \A i \in DOMAIN b : b[i][1] = Len(g) + Len(s) + i
  /\ Len(g) + Len(s) + Len(b) <= hi

LEMMA CountedRead ==
  ASSUME NEW g \in Seq(Answers), NEW s \in Seq(Answers), NEW b \in Seq(Answers), NEW hi \in Nat,
         Counted(g, s, b, hi), s # <<>>
  PROVE  /\ Counted(Append(g, Head(s)), Tail(s), b, hi)
         /\ Len(Append(g, Head(s))) + Len(Tail(s)) + Len(b) = Len(g) + Len(s) + Len(b)
<1> DEFINE h == Append(g, Head(s))
           t == Tail(s)
<1>1. /\ Len(g) \in Nat /\ Len(s) \in Nat \ {0} /\ Len(b) \in Nat
      /\ Len(h) = Len(g) + 1 /\ Len(t) = Len(s) - 1
  BY HeadTail, Appended
<1>2. /\ \A i \in DOMAIN h : (i \in DOMAIN g /\ h[i] = g[i]) \/ (i = Len(g) + 1 /\ h[i] = s[1])
      /\ \A i \in DOMAIN t : i + 1 \in DOMAIN s /\ t[i] = s[i + 1]
      /\ 1 \in DOMAIN s
  BY HeadTail, Appended
<1>2a. (\A i \in DOMAIN t : i \in Nat) /\ (\A i \in DOMAIN b : i \in Nat)
  BY HeadTail
<1> HIDE DEF h, t
<1>3. \A i \in DOMAIN h : h[i][1] = i
  BY <1>1, <1>2 DEF Counted
<1>4. \A i \in DOMAIN t : t[i][1] = Len(h) + i
  <2> TAKE i \in DOMAIN t
  <2>1. s[i + 1][1] = Len(g) + (i + 1) /\ i \in Nat
    BY <1>2, <1>2a DEF Counted
  <2>2. Len(g) + (i + 1) = Len(h) + i
    BY <1>1, <2>1
  <2> QED BY <1>2, <2>1, <2>2
<1>5. Len(h) + Len(t) = Len(g) + Len(s)
  BY <1>1
<1> QED BY <1>3, <1>4, <1>5 DEF Counted, h, t

LEMMA CountedFlush ==
  ASSUME NEW g \in Seq(Answers), NEW s \in Seq(Answers), NEW b \in Seq(Answers), NEW hi \in Nat,
         Counted(g, s, b, hi), NEW n \in 0 .. Len(b)
  PROVE  /\ Counted(g, s \o SubSeq(b, 1, n), SubSeq(b, n + 1, Len(b)), hi)
         /\ Counted(g, s \o SubSeq(b, 1, n), <<>>, hi) /\ Counted(g, s, <<>>, hi)
<1> DEFINE p == SubSeq(b, 1, n)
           q == SubSeq(b, n + 1, Len(b))
           t == s \o p
<1>1. /\ p \in Seq(Answers) /\ Len(p) = n /\ \A i \in 1 .. n : p[i] = b[i]
      /\ q \in Seq(Answers) /\ Len(q) = Len(b) - n /\ \A i \in 1 .. Len(b) - n : q[i] = b[n + i]
  BY Parts
<1>2. Len(g) \in Nat /\ Len(s) \in Nat /\ Len(b) \in Nat /\ DOMAIN b = 1 .. Len(b) /\ DOMAIN s = 1 .. Len(s)
  OBVIOUS
<1>3. DOMAIN q = 1 .. Len(b) - n
  BY <1>1
<1> HIDE DEF p, q
<1>4. /\ t \in Seq(Answers) /\ Len(t) = Len(s) + n
      /\ \A i \in 1 .. Len(s) : t[i] = s[i]
      /\ \A i \in 1 .. n : t[Len(s) + i] = p[i]
  <2>1. p \in Seq(Answers) /\ Len(p) = n
    BY <1>1
  <2>2. t \in Seq(Answers) /\ Len(t) = Len(s) + n
    BY <2>1, Joined
  <2>3. \A i \in 1 .. Len(s) : t[i] = s[i]
    BY <2>1, Joined
  <2>4. \A i \in 1 .. n : t[Len(s) + i] = p[i]
    BY <2>1, Joined
  <2> QED BY <2>2, <2>3, <2>4
<1>5. DOMAIN t = 1 .. Len(s) + n
  BY <1>4
<1> HIDE DEF t
<1>6. \A i \in DOMAIN t : t[i][1] = Len(g) + i
  <2> TAKE i \in DOMAIN t
  <2>1. CASE i \in 1 .. Len(s)
    <3>1. t[i] = s[i] /\ s[i][1] = Len(g) + i
      BY <1>2, <1>4, <2>1 DEF Counted
    <3> QED BY <3>1
  <2>2. CASE i \notin 1 .. Len(s)
    <3>1. i - Len(s) \in 1 .. n /\ Len(s) + (i - Len(s)) = i
      BY <1>2, <1>5, <2>2
    <3>2. t[i] = b[i - Len(s)] /\ i - Len(s) \in DOMAIN b
      BY <1>1, <1>2, <1>4, <3>1
    <3>3. b[i - Len(s)][1] = Len(g) + Len(s) + (i - Len(s))
      BY <3>2 DEF Counted
    <3>4. Len(g) + Len(s) + (i - Len(s)) = Len(g) + i
      BY <1>2, <1>5
    <3> QED BY <3>2, <3>3, <3>4
  <2> QED BY <2>1, <2>2
<1>7. \A i \in DOMAIN q : q[i][1] = Len(g) + Len(t) + i
  <2> TAKE i \in DOMAIN q
  <2>1. q[i] = b[n + i] /\ n + i \in DOMAIN b
    BY <1>1, <1>2, <1>3
  <2>2. b[n + i][1] = Len(g) + Len(s) + (n + i)
    BY <2>1 DEF Counted
  <2>3. Len(g) + Len(s) + (n + i) = Len(g) + Len(t) + i
    BY <1>2, <1>3, <1>4
  <2> QED BY <2>1, <2>2, <2>3
<1>8. Len(g) + Len(t) + Len(q) = Len(g) + Len(s) + Len(b)
  BY <1>1, <1>2, <1>4
<1>9. Len(g) + Len(t) + Len(<<>>) <= hi /\ Len(g) + Len(s) + Len(<<>>) <= hi
  <2>1. Len(g) + Len(s) + Len(b) <= hi /\ Len(<<>>) = 0
    BY DEF Counted
  <2> QED BY <1>2, <1>4, <2>1
<1>10. Counted(g, t, q, hi)
  BY <1>6, <1>7, <1>8 DEF Counted
<1>11. Counted(g, t, <<>>, hi) /\ Counted(g, s, <<>>, hi)
  BY <1>6, <1>9 DEF Counted
<1> QED BY <1>10, <1>11 DEF t, p, q

LEMMA CountedAnswer ==
  ASSUME NEW g \in Seq(Answers), NEW s \in Seq(Answers), NEW b \in Seq(Answers), NEW hi \in Nat,
         Counted(g, s, b, hi), NEW x \in Answers, x[1] = Len(g) + Len(s) + Len(b) + 1,
         x[1] <= hi
  PROVE  /\ Counted(g, s, Append(b, x), hi)
         /\ Len(g) + Len(s) + Len(Append(b, x)) = Len(g) + Len(s) + Len(b) + 1
<1>1. Len(g) \in Nat /\ Len(s) \in Nat /\ Len(b) \in Nat /\ Len(Append(b, x)) = Len(b) + 1
  BY Appended
<1>2. \A i \in DOMAIN Append(b, x) : (i \in DOMAIN b /\ Append(b, x)[i] = b[i])
                                     \/ (i = Len(b) + 1 /\ Append(b, x)[i] = x)
  BY Appended
<1>3. Len(g) + Len(s) + Len(Append(b, x)) = x[1]
  BY <1>1
<1>4. Len(g) + Len(s) + (Len(b) + 1) = x[1]
  BY <1>1
<1> DEFINE t == Append(b, x)
<1>5. \A i \in DOMAIN t : t[i][1] = Len(g) + Len(s) + i
  <2> HIDE DEF t
  <2> QED BY <1>2, <1>4 DEF Counted, t
<1> QED BY <1>3, <1>5 DEF Counted

LEMMA CountedStream ==
  ASSUME NEW g \in Seq(Answers), NEW s \in Seq(Answers), NEW b \in Seq(Answers), NEW hi \in Nat,
         Counted(g, s, b, hi)
  PROVE  /\ Len(g \o s \o b) <= hi
         /\ \A i \in 1 .. Len(g \o s \o b) : (g \o s \o b)[i][1] = i
<1> DEFINE t == g \o s
           u == t \o b
<1>1. Len(g) \in Nat /\ Len(s) \in Nat /\ Len(b) \in Nat
  OBVIOUS
<1>2. DOMAIN g = 1 .. Len(g) /\ DOMAIN s = 1 .. Len(s) /\ DOMAIN b = 1 .. Len(b)
  OBVIOUS
<1>3. /\ t \in Seq(Answers) /\ Len(t) = Len(g) + Len(s)
      /\ \A i \in 1 .. Len(g) : t[i] = g[i]
  BY Joined
<1>3a. \A j \in 1 .. Len(s) : t[Len(g) + j] = s[j]
  BY Joined
<1> HIDE DEF t
<1>4. /\ Len(u) = Len(t) + Len(b)
      /\ \A i \in 1 .. Len(t) : u[i] = t[i]
  BY <1>3, Joined
<1>4a. \A i \in 1 .. Len(b) : u[Len(t) + i] = b[i]
  BY <1>3, Joined
<1> HIDE DEF u
<1>5. ASSUME NEW i \in 1 .. Len(u) PROVE u[i][1] = i
  <2>1. CASE i \in 1 .. Len(g)
    <3>1. u[i] = g[i] /\ i \in DOMAIN g
      BY <1>1, <1>2, <1>3, <1>4, <2>1
    <3> QED BY <3>1 DEF Counted
  <2>2. CASE i \notin 1 .. Len(g) /\ i \in 1 .. Len(t)
    <3>1. i - Len(g) \in 1 .. Len(s) /\ Len(g) + (i - Len(g)) = i
      BY <1>1, <1>3, <2>2
    <3>2. u[i] = s[i - Len(g)] /\ i - Len(g) \in DOMAIN s
      BY <1>2, <1>3a, <1>4, <2>2, <3>1
    <3>3. s[i - Len(g)][1] = Len(g) + (i - Len(g))
      BY <3>2 DEF Counted
    <3> QED BY <3>1, <3>2, <3>3
  <2>3. CASE i \notin 1 .. Len(t)
    <3>1. i - Len(t) \in 1 .. Len(b) /\ Len(t) + (i - Len(t)) = i
      BY <1>1, <1>3, <1>4, <1>5, <2>3
    <3>2. u[i] = b[i - Len(t)] /\ i - Len(t) \in DOMAIN b
      BY <1>2, <1>4a, <3>1
    <3>3. b[i - Len(t)][1] = Len(g) + Len(s) + (i - Len(t))
      BY <3>2 DEF Counted
    <3> QED BY <1>3, <3>1, <3>2, <3>3
  <2> QED BY <2>1, <2>2, <2>3
<1>6. Len(u) <= hi
  BY <1>1, <1>3, <1>4 DEF Counted
<1> QED BY <1>5, <1>6 DEF t, u

(* The frames not yet passed on, in the read buffer (b) and the socket (s), *)
(* are numbered from p + 1 on.                                              *)
Incoming(b, s, p) ==
  /\ \A i \in DOMAIN b : b[i][1] = p + i
  /\ \A i \in DOMAIN s : s[i][1] = p + Len(b) + i

LEMMA IncomingSent ==
  ASSUME NEW b \in Seq(Frames), NEW s \in Seq(Frames), NEW p \in Int, Incoming(b, s, p),
         NEW x \in Frames, x[1] = p + Len(b) + Len(s) + 1
  PROVE  Incoming(b, Append(s, x), p)
<1>1. Len(b) \in Nat /\ Len(s) \in Nat
  OBVIOUS
<1>2. \A i \in DOMAIN Append(s, x) : (i \in DOMAIN s /\ Append(s, x)[i] = s[i])
                                     \/ (i = Len(s) + 1 /\ Append(s, x)[i] = x)
  BY Appended
<1>3. p + Len(b) + (Len(s) + 1) = x[1]
  BY <1>1
<1> DEFINE t == Append(s, x)
<1>4. \A i \in DOMAIN t : t[i][1] = p + Len(b) + i
  <2> HIDE DEF t
  <2> QED BY <1>2, <1>3 DEF Incoming, t
<1> QED BY <1>4 DEF Incoming

LEMMA IncomingRead ==
  ASSUME NEW b \in Seq(Frames), NEW s \in Seq(Frames), NEW p \in Int, Incoming(b, s, p)
  PROVE  Incoming(b \o s, <<>>, p) /\ Len(b \o s) = Len(b) + Len(s)
<1> DEFINE t == b \o s
<1>1. Len(b) \in Nat /\ Len(s) \in Nat /\ DOMAIN b = 1 .. Len(b) /\ DOMAIN s = 1 .. Len(s)
  OBVIOUS
<1>2. t \in Seq(Frames) /\ Len(t) = Len(b) + Len(s)
  BY Joined
<1>3. \A i \in 1 .. Len(b) : t[i] = b[i]
  BY Joined
<1>4. \A i \in 1 .. Len(s) : t[Len(b) + i] = s[i]
  BY Joined
<1>5. DOMAIN t = 1 .. Len(b) + Len(s)
  BY <1>2
<1> HIDE DEF t
<1>6. \A i \in DOMAIN t : t[i][1] = p + i
  <2> TAKE i \in DOMAIN t
  <2>1. CASE i \in 1 .. Len(b)
    BY <1>1, <1>3, <2>1 DEF Incoming
  <2>2. CASE i \notin 1 .. Len(b)
    <3>1. i - Len(b) \in 1 .. Len(s) /\ Len(b) + (i - Len(b)) = i
      BY <1>1, <1>5, <2>2
    <3>2. t[i] = s[i - Len(b)] /\ i - Len(b) \in DOMAIN s
      BY <1>1, <1>4, <3>1
    <3>3. s[i - Len(b)][1] = p + Len(b) + (i - Len(b))
      BY <3>2 DEF Incoming
    <3>4. p + Len(b) + (i - Len(b)) = p + i
      BY <1>1, <1>5
    <3> QED BY <3>2, <3>3, <3>4
  <2> QED BY <2>1, <2>2
<1> QED BY <1>2, <1>6 DEF Incoming, t

LEMMA IncomingPassed ==
  ASSUME NEW b \in Seq(Frames), NEW s, NEW p \in Int, Incoming(b, s, p), b # <<>>,
         \A i \in DOMAIN s : i \in Nat
  PROVE  Head(b)[1] = p + 1 /\ Incoming(Tail(b), s, p + 1)
<1>1. /\ Len(b) \in Nat \ {0} /\ Head(b) = b[1] /\ 1 \in DOMAIN b /\ Len(Tail(b)) = Len(b) - 1
      /\ \A i \in DOMAIN Tail(b) : i \in Nat /\ i + 1 \in DOMAIN b /\ Tail(b)[i] = b[i + 1]
  BY HeadTail
<1>2. Head(b)[1] = p + 1
  BY <1>1 DEF Incoming
<1> DEFINE t == Tail(b)
<1> HIDE DEF t
<1>3. \A i \in DOMAIN t : t[i][1] = (p + 1) + i
  <2> TAKE i \in DOMAIN t
  <2>1. t[i] = b[i + 1] /\ b[i + 1][1] = p + (i + 1) /\ i \in Nat
    BY <1>1 DEF Incoming, t
  <2>2. p + (i + 1) = (p + 1) + i
    BY <2>1
  <2> QED BY <2>1, <2>2
<1>4. \A i \in DOMAIN s : s[i][1] = (p + 1) + Len(t) + i
  <2> TAKE i \in DOMAIN s
  <2>1. s[i][1] = p + Len(b) + i /\ i \in Nat
    BY DEF Incoming
  <2>2. p + Len(b) + i = (p + 1) + Len(t) + i
    BY <1>1, <2>1 DEF t
  <2> QED BY <2>1, <2>2
<1> QED BY <1>2, <1>3, <1>4 DEF Incoming, t

-----------------------------------------------------------------------------
(* What was written to a connection, and what its worker has passed on to   *)
(* the apply thread.                                                        *)
Written(c) == Len(got[c]) + Len(sockOut[c]) + Len(cl[c].wbuf)
Passed(c) == sent[c] - Len(sockIn[c]) - Len(cl[c].rbuf)

Numbered(c) == Counted(got[c], sockOut[c], cl[c].wbuf, sent[c])

(* The frames of a connection, in the order sent, are on their way through  *)
(* the pipeline: written, in the channel of answers, the flush, the batch,  *)
(* the channel of items, the read buffer, the socket.                       *)
InStages(c) ==
  /\ Stages(writeq[Owner(c)], outbox, batch, readq, c, Written(c), Passed(c))
  /\ Incoming(cl[c].rbuf, sockIn[c], Passed(c))

Served(c) == cl[c].here /\ wpc[Owner(c)] # "exited"

(* A connection its worker has not taken yet has left no trace.             *)
Fresh(c) == c >= accepted \/ \E i \in DOMAIN newq[Owner(c)] : newq[Owner(c)][i] = c
Nowhere(c) ==
  /\ \A w \in Workers : Absent(writeq[w], c)
  /\ Absent(outbox, c) /\ Absent(batch, c) /\ Absent(readq, c)
Untouched(c) ==
  /\ cl[c] = NoClient /\ got[c] = <<>> /\ sockOut[c] = <<>> /\ Nowhere(c)
  /\ Len(sockIn[c]) = sent[c] /\ \A i \in DOMAIN sockIn[c] : sockIn[c][i][1] = i

Ordered(c) ==
  Numbered(c) /\ (Fresh(c) => Untouched(c)) /\ (Served(c) => InStages(c))

(* New connections are handed over once each, to their worker, and answers  *)
(* go to the worker of their connection.                                    *)
HandedOver ==
  \A w \in Workers :
    /\ \A i \in DOMAIN newq[w] : newq[w][i] < accepted /\ Owner(newq[w][i]) = w
    /\ \A i, j \in DOMAIN newq[w] : i < j => newq[w][i] < newq[w][j]
Routed ==
  \A w \in Workers : \A i \in DOMAIN writeq[w] : Owner(writeq[w][i].slot) = w

FlushPcs == {"flush-drain", "flush-listen", "flush-stop", "flush-join"}

OrderInv ==
  /\ apc \notin FlushPcs => outbox = <<>>
  /\ HandedOver /\ Routed
  /\ \A c \in Conns : Ordered(c)

(* A step that leaves the buffers of a connection alone.                    *)
SameBuffers(d) ==
  /\ got'[d] = got[d] /\ sockOut'[d] = sockOut[d] /\ sent'[d] = sent[d]
  /\ sockIn'[d] = sockIn[d] /\ cl'[d].rbuf = cl[d].rbuf /\ cl'[d].wbuf = cl[d].wbuf
  /\ cl[d] = NoClient => cl'[d] = NoClient

NotNewer(d) == (Fresh(d)' => Fresh(d)) /\ (Served(d)' => Served(d))

LEMMA CountTypes ==
  ASSUME TypeOK, NEW c \in Conns
  PROVE  Written(c) \in Nat /\ Passed(c) \in Int
<1>1. /\ Len(got[c]) \in Nat /\ Len(sockOut[c]) \in Nat /\ Len(cl[c].wbuf) \in Nat
      /\ sent[c] \in Nat /\ Len(sockIn[c]) \in Nat /\ Len(cl[c].rbuf) \in Nat
  BY ConnTypes
<1>2. \A x, y, z \in Nat : x + y + z \in Nat /\ x - y - z \in Int
  OBVIOUS
<1> QED BY <1>1, <1>2, Zenon DEF Written, Passed

LEMMA PassedNat ==
  ASSUME TypeOK, NEW c \in Conns, InStages(c)
  PROVE  Passed(c) \in Nat /\ Written(c) <= Passed(c)
  BY CountTypes, StagesBound DEF InStages

LEMMA OrderMoved ==
  ASSUME NEW d \in Conns, Ordered(d), SameBuffers(d), NotNewer(d),
         Nowhere(d) => Nowhere(d)',
         InStages(d) /\ Served(d)' =>
           Stages(writeq'[Owner(d)], outbox', batch', readq', d, Written(d), Passed(d))
  PROVE  Ordered(d)'
<1>1. Written(d)' = Written(d) /\ Passed(d)' = Passed(d)
  BY DEF SameBuffers, Written, Passed
<1>2. Numbered(d)'
  BY DEF Ordered, Numbered, SameBuffers
<1>3. Fresh(d)' => Untouched(d)'
  <2> SUFFICES ASSUME Fresh(d)' PROVE Untouched(d)'
    OBVIOUS
  <2>1. Untouched(d)
    BY DEF Ordered, NotNewer
  <2> QED BY <2>1 DEF Untouched, SameBuffers
<1>4. Served(d)' => InStages(d)'
  <2> SUFFICES ASSUME Served(d)' PROVE InStages(d)'
    OBVIOUS
  <2>1. InStages(d)
    BY DEF Ordered, NotNewer
  <2>2. Incoming(cl[d].rbuf, sockIn[d], Passed(d))'
    <3>1. Incoming(cl[d].rbuf, sockIn[d], Passed(d))
      BY <2>1 DEF InStages
    <3> QED BY <1>1, <3>1 DEF Incoming, SameBuffers
  <2>3. Stages(writeq[Owner(d)], outbox, batch, readq, d, Written(d), Passed(d))'
    BY <1>1, <2>1
  <2> QED BY <2>2, <2>3 DEF InStages
<1> QED BY <1>2, <1>3, <1>4 DEF Ordered

LEMMA OrderKept ==
  ASSUME NEW d \in Conns, Ordered(d), SameBuffers(d), NotNewer(d),
         UNCHANGED <<writeq, outbox, batch, readq>>
  PROVE  Ordered(d)'
<1>1. Nowhere(d) => Nowhere(d)'
  BY DEF Nowhere
<1>2. InStages(d) /\ Served(d)' =>
        Stages(writeq'[Owner(d)], outbox', batch', readq', d, Written(d), Passed(d))
  BY DEF InStages
<1> QED BY <1>1, <1>2, OrderMoved

(* The apply thread never touches the buffers of a connection.              *)
LEMMA OrderByApply ==
  ASSUME EdgeInv, OrderInv, Apply \/ Connect \/ Shutdown \/ UNCHANGED vars
  PROVE  OrderInv'
<1> USE DEF netVars, workVars, applyVars
<1>0. TypeOK /\ WorkerHas
  BY DEF EdgeInv
<1>1. UNCHANGED <<got, sockOut, sent, sockIn, cl, wpc>>
  BY DEF Apply, Drain, Drained, TimeFlush, NoTimeFlush, FlushSend, FlushEnd, Accept,
     Listened, StopCheck, Join, Shutdown, Connect, vars
<1>2. \A d \in Conns : SameBuffers(d) /\ (Served(d)' => Served(d))
  BY <1>1 DEF SameBuffers, Served
<1>3. UNCHANGED <<newq, accepted>> => HandedOver' /\ \A d \in Conns : Fresh(d)' => Fresh(d)
  BY DEF OrderInv, HandedOver, Fresh
<1>4. /\ readq \in Seq(Items) /\ batch \in Seq(Items) /\ outbox \in Seq(Items)
      /\ \A w \in Workers : writeq[w] \in Seq(Items)
  BY <1>0 DEF TypeOK
<1>5. \A d \in Conns : InStages(d) => Written(d) \in Nat /\ Passed(d) \in Nat
  BY <1>0, CountTypes, PassedNat
<1>6. CASE UNCHANGED <<writeq, outbox, batch, readq, newq, accepted>>
  <2>1. apc' \notin FlushPcs => outbox' = <<>>
    <3>1. \/ apc \notin FlushPcs \/ apc' = apc \/ outbox = <<>>
      BY DEF Apply, Drain, Drained, TimeFlush, NoTimeFlush, FlushSend, FlushEnd, Accept,
        Listened, StopCheck, Join, Shutdown, Connect, vars, FlushPcs
    <3> QED BY <1>6, <3>1 DEF OrderInv
  <2>2. \A d \in Conns : Ordered(d)'
    BY <1>2, <1>3, <1>6, OrderKept DEF OrderInv, NotNewer
  <2>3. Routed'
    BY <1>6 DEF OrderInv, Routed
  <2> QED BY <1>3, <1>6, <2>1, <2>2, <2>3 DEF OrderInv
<1>7. ASSUME NEW b, NEW q, \/ b = batch /\ q = readq
                           \/ readq # <<>> /\ b = Dispatched /\ q = Tail(readq)
      PROVE  \A d \in Conns :
               /\ Nowhere(d) => Absent(b, d) /\ Absent(q, d)
               /\ InStages(d) => Stages(writeq[Owner(d)], outbox, b, q, d, Written(d), Passed(d))
  <2> TAKE d \in Conns
  <2>1. CASE b = batch /\ q = readq
    BY <2>1 DEF Nowhere, InStages
  <2>2. CASE readq # <<>> /\ b = Append(batch, Head(readq)) /\ q = Tail(readq)
    <3>1. Head(readq) = readq[1] /\ 1 \in DOMAIN readq /\ Head(readq) \in Items
      BY <1>4, <2>2, HeadTail
    <3>2. Nowhere(d) => Absent(b, d) /\ Absent(q, d)
      <4>1. Absent(readq, d) => Absent(Tail(readq), d)
        BY <1>4, <2>2, TailIsWithout, OtherTaken
      <4>2. Absent(readq, d) => Head(readq).slot # d
        BY <3>1 DEF Absent
      <4>3. Absent(readq, d) /\ Absent(batch, d) => Absent(Append(batch, Head(readq)), d)
        BY <1>4, <3>1, <4>2, OtherAppended
      <4> QED BY <2>2, <4>1, <4>3 DEF Nowhere
    <3>3. InStages(d) => Stages(writeq[Owner(d)], outbox, b, q, d, Written(d), Passed(d))
      BY <1>4, <1>5, <2>2, StagesDispatch DEF InStages
    <3> QED BY <3>2, <3>3
  <2> QED BY <1>7, <2>1, <2>2 DEF Dispatched
<1>8. ASSUME readq # <<>>, readq' = Tail(readq), batch' = Dispatched,
             UNCHANGED <<writeq, outbox, newq, accepted, apc>>
      PROVE  OrderInv'
  <2>1. ASSUME NEW d \in Conns PROVE Ordered(d)'
    <3>1. Nowhere(d) => Nowhere(d)'
      BY <1>7, <1>8 DEF Nowhere
    <3>2. InStages(d) => Stages(writeq'[Owner(d)], outbox', batch', readq', d, Written(d), Passed(d))
      BY <1>7, <1>8
    <3> QED BY <1>2, <1>3, <1>8, <3>1, <3>2, OrderMoved DEF OrderInv, NotNewer
  <2> QED BY <1>3, <1>8, <2>1 DEF OrderInv, Routed
<1>9. ASSUME NEW b, NEW to \in FlushPcs, Flush(b, to), outbox = <<>>,
             \/ b = batch /\ readq' = readq
             \/ readq # <<>> /\ b = Dispatched /\ readq' = Tail(readq),
             UNCHANGED <<writeq, newq, accepted>>
      PROVE  OrderInv'
  <2>0. outbox' = b /\ batch' = <<>> /\ apc' \in FlushPcs
    BY <1>9 DEF Flush
  <2>1. ASSUME NEW d \in Conns PROVE Ordered(d)'
    <3>0. /\ Nowhere(d) => Absent(b, d) /\ Absent(readq', d)
          /\ InStages(d) => Stages(writeq[Owner(d)], outbox, b, readq', d, Written(d), Passed(d))
      BY <1>7, <1>9
    <3>1. Nowhere(d) => Nowhere(d)'
      <4>1. Absent(<<>>, d)
        BY DEF Absent
      <4> QED BY <1>9, <2>0, <3>0, <4>1 DEF Nowhere
    <3>2. InStages(d) => Stages(writeq'[Owner(d)], outbox', batch', readq', d, Written(d), Passed(d))
      BY <1>5, <1>9, <2>0, <3>0, StagesFlush
    <3> QED BY <1>2, <1>3, <1>9, <3>1, <3>2, OrderMoved DEF OrderInv, NotNewer
  <2> QED BY <1>3, <1>9, <2>0, <2>1 DEF OrderInv, Routed
<1>10. CASE Drain
  <2>1. readq # <<>> /\ readq' = Tail(readq) /\ outbox = <<>> /\ UNCHANGED <<writeq, newq, accepted>>
    BY <1>10 DEF Drain, OrderInv, FlushPcs
  <2>2. CASE Flush(Dispatched, "flush-drain")
    BY <1>9, <2>1, <2>2 DEF FlushPcs
  <2>3. CASE batch' = Dispatched /\ UNCHANGED <<outbox, apc>>
    BY <1>8, <2>1, <2>3
  <2> QED BY <1>10, <2>2, <2>3 DEF Drain
<1>11. CASE TimeFlush
  <2>1. Flush(batch, "flush-listen") /\ outbox = <<>> /\ UNCHANGED <<readq, writeq, newq, accepted>>
    BY <1>11 DEF TimeFlush, OrderInv, FlushPcs
  <2> QED BY <1>9, <2>1 DEF FlushPcs
<1>12. CASE Listened
  <2>1. outbox = <<>> /\ UNCHANGED <<writeq, newq, accepted>>
    BY <1>12 DEF Listened, OrderInv, FlushPcs
  <2>2. CASE UNCHANGED <<batch, outbox, readq>>
    BY <1>6, <2>1, <2>2
  <2>3. CASE readq # <<>> /\ readq' = Tail(readq) /\ Flush(Dispatched, "flush-stop")
    BY <1>9, <2>1, <2>3 DEF FlushPcs
  <2> QED BY <1>12, <2>2, <2>3 DEF Listened
<1>13. CASE StopCheck
  <2>1. outbox = <<>> /\ UNCHANGED <<readq, writeq, newq, accepted>>
    BY <1>13 DEF StopCheck, OrderInv, FlushPcs
  <2>2. CASE UNCHANGED <<batch, outbox>>
    BY <1>6, <2>1, <2>2
  <2>3. CASE Flush(batch, "flush-join")
    BY <1>9, <2>1, <2>3 DEF FlushPcs
  <2> QED BY <1>13, <2>2, <2>3 DEF StopCheck
<1>14. CASE FlushSend
  <2>0. apc \in FlushPcs /\ UNCHANGED <<apc, batch, readq, newq, accepted>>
    BY <1>14 DEF FlushSend, FlushPcs
  <2>1. PICK k \in DOMAIN outbox :
          /\ \A j \in DOMAIN outbox : ByWorker(k, j)
          /\ outbox' = RemoveAt(outbox, k)
          /\ \/ wpc[Owner(outbox[k].slot)] = "exited" /\ writeq' = writeq
             \/ writeq' = [writeq EXCEPT ![Owner(outbox[k].slot)] = Append(@, outbox[k])]
    BY <1>14 DEF FlushSend
  <2> DEFINE i == outbox[k]
             v == Owner(i.slot)
  <2>2. i \in Items /\ i.slot \in Conns /\ v \in Workers
    BY <1>4, ItemNums, ConnsAreNat
  <2>3. \A j \in DOMAIN outbox : outbox[j].slot = i.slot => k <= j
    <3> TAKE j \in DOMAIN outbox
    <3> HAVE outbox[j].slot = i.slot
    <3>1. v \in Nat /\ Owner(outbox[j].slot) = v
      BY <2>2, ConstantTypes DEF Workers
    <3>2. ~(v < v)
      BY <3>1
    <3> QED BY <2>1, <3>1, <3>2 DEF ByWorker
  <2> HIDE DEF i, v
  <2>4. \A u \in Workers : writeq'[u] = writeq[u] \/ (u = v /\ writeq'[u] = Append(writeq[u], i))
    BY <1>0, <2>1, <2>2 DEF i, v, TypeOK
  <2>5. ASSUME NEW d \in Conns PROVE Ordered(d)'
    <3>0. Owner(d) \in Workers
      BY ConnsAreNat
    <3>1. Nowhere(d) => Nowhere(d)'
      <4> SUFFICES ASSUME Nowhere(d) PROVE Nowhere(d)'
        OBVIOUS
      <4>1. i.slot # d
        BY <2>1 DEF Nowhere, Absent, i
      <4>2. ASSUME NEW u \in Workers PROVE Absent(writeq'[u], d)
        BY <1>4, <2>2, <2>4, <4>1, OtherAppended DEF Nowhere
      <4>3. Absent(outbox', d)
        BY <1>4, <2>1, RemovedIsWithout, OtherTaken DEF Nowhere
      <4> QED BY <2>0, <4>2, <4>3 DEF Nowhere
    <3>2. InStages(d) /\ Served(d)' =>
            Stages(writeq'[Owner(d)], outbox', batch', readq', d, Written(d), Passed(d))
      <4> SUFFICES ASSUME InStages(d), Served(d)'
                   PROVE  Stages(writeq'[Owner(d)], outbox', batch', readq', d, Written(d), Passed(d))
        OBVIOUS
      <4>1. Stages(writeq[Owner(d)], outbox, batch, readq, d, Written(d), Passed(d))
        BY DEF InStages
      <4>2. /\ Stages(Append(writeq[Owner(d)], i), outbox', batch, readq, d, Written(d), Passed(d))
            /\ i.slot # d => Stages(writeq[Owner(d)], outbox', batch, readq, d, Written(d), Passed(d))
        BY <1>4, <1>5, <2>1, <2>3, <3>0, <4>1, StagesSend DEF i
      <4>3. CASE i.slot # d
        BY <2>0, <2>4, <3>0, <4>2, <4>3
      <4>4. CASE i.slot = d
        <5>1. wpc[v] # "exited" /\ v = Owner(d)
          BY <1>1, <4>4 DEF Served, v
        <5>2. writeq'[v] = Append(writeq[v], i)
          BY <1>0, <2>1, <2>2, <5>1 DEF i, v, TypeOK
        <5> QED BY <2>0, <4>2, <5>1, <5>2
      <4> QED BY <4>3, <4>4
    <3> QED BY <1>2, <1>3, <2>0, <3>1, <3>2, OrderMoved DEF OrderInv, NotNewer
  <2>6. Routed'
    <3> SUFFICES ASSUME NEW u \in Workers, NEW j \in DOMAIN writeq'[u]
                 PROVE  Owner(writeq'[u][j].slot) = u
      BY DEF Routed
    <3>1. CASE writeq'[u] = writeq[u]
      BY <3>1 DEF OrderInv, Routed
    <3>2. CASE u = v /\ writeq'[u] = Append(writeq[u], i)
      <4>1. (j \in DOMAIN writeq[u] /\ writeq'[u][j] = writeq[u][j]) \/ writeq'[u][j] = i
        BY <1>4, <2>2, <3>2, Appended
      <4> QED BY <3>2, <4>1 DEF OrderInv, Routed, v
    <3> QED BY <2>4, <3>1, <3>2
  <2> QED BY <1>3, <2>0, <2>5, <2>6 DEF OrderInv
<1>15. CASE Accept
  <2>1. /\ accepted' = accepted + 1 /\ apc' = apc /\ UNCHANGED <<writeq, outbox, batch, readq>>
        /\ accepted \in Nat /\ accepted < MaxConn
    BY <1>0, <1>15, ConstantTypes DEF Accept, TypeOK
  <2> DEFINE v == Owner(accepted)
  <2>2. v \in Workers /\ accepted \in Conns
    BY <2>1, OwnerIsWorker, ConstantTypes DEF Conns
  <2> HIDE DEF v
  <2>3. \A u \in Workers : newq[u] \in Seq(Conns)
    BY <1>0 DEF TypeOK
  <2>4. ASSUME NEW u \in Workers
        PROVE  \/ newq'[u] = newq[u]
               \/ u = v /\ newq'[u] = Append(newq[u], accepted)
    BY <1>0, <1>15, <2>2 DEF Accept, TypeOK, v
  <2>5. ASSUME NEW u \in Workers, NEW j \in DOMAIN newq'[u]
        PROVE  \/ j \in DOMAIN newq[u] /\ newq'[u][j] = newq[u][j] /\ j <= Len(newq[u])
               \/ newq'[u][j] = accepted /\ u = v /\ j = Len(newq[u]) + 1
    <3>1. CASE newq'[u] = newq[u]
      BY <2>3, <2>5, <3>1
    <3>2. CASE u = v /\ newq'[u] = Append(newq[u], accepted)
      BY <2>2, <2>3, <2>5, <3>2, Appended
    <3> QED BY <2>4, <3>1, <3>2
  <2>6. \A u \in Workers : \A j \in DOMAIN newq[u] : newq[u][j] < accepted /\ Owner(newq[u][j]) = u
                                                     /\ newq[u][j] \in Nat /\ j \in Nat
    BY <2>3, ConnsAreNat DEF OrderInv, HandedOver
  <2>7. HandedOver'
    <3>1. ASSUME NEW u \in Workers, NEW j \in DOMAIN newq'[u]
          PROVE  newq'[u][j] < accepted' /\ Owner(newq'[u][j]) = u
      BY <2>1, <2>5, <2>6, <3>1 DEF v
    <3>2. ASSUME NEW u \in Workers, NEW i \in DOMAIN newq'[u], NEW j \in DOMAIN newq'[u], i < j
          PROVE  newq'[u][i] < newq'[u][j]
      <4>0. Len(newq[u]) \in Nat
        BY <2>3
      <4>1. CASE j = Len(newq[u]) + 1 /\ newq'[u][j] = accepted
        <5>1. i \in DOMAIN newq[u] /\ newq'[u][i] = newq[u][i]
          BY <2>5, <3>2, <4>0, <4>1
        <5> QED BY <2>6, <4>1, <5>1
      <4>2. CASE j \in DOMAIN newq[u] /\ newq'[u][j] = newq[u][j] /\ j <= Len(newq[u])
        <5>1. i \in DOMAIN newq[u] /\ newq'[u][i] = newq[u][i]
          BY <2>5, <2>6, <3>2, <4>0, <4>2
        <5> QED BY <3>2, <4>2, <5>1 DEF OrderInv, HandedOver
      <4> QED BY <2>5, <3>2, <4>1, <4>2
    <3> QED BY <3>1, <3>2 DEF HandedOver
  <2>8. ASSUME NEW d \in Conns, Fresh(d)' PROVE Fresh(d)
    <3>1. CASE d >= accepted'
      <4>1. d \in Nat
        BY ConnsAreNat
      <4> QED BY <2>1, <3>1, <4>1 DEF Fresh
    <3>2. CASE \E i \in DOMAIN newq'[Owner(d)] : newq'[Owner(d)][i] = d
      <4>1. PICK i \in DOMAIN newq'[Owner(d)] : newq'[Owner(d)][i] = d
        BY <3>2
      <4>2. d \in Nat /\ Owner(d) \in Workers
        BY ConnsAreNat
      <4>3. (i \in DOMAIN newq[Owner(d)] /\ newq[Owner(d)][i] = d) \/ d = accepted
        BY <2>5, <4>1, <4>2
      <4>4. d = accepted => d >= accepted
        BY <4>2
      <4> QED BY <4>3, <4>4 DEF Fresh
    <3> QED BY <2>8, <3>1, <3>2 DEF Fresh
  <2>9. \A d \in Conns : Ordered(d)'
    BY <1>2, <2>1, <2>8, OrderKept DEF OrderInv, NotNewer
  <2> QED BY <2>1, <2>7, <2>9 DEF OrderInv, Routed
<1>16. CASE Drained \/ NoTimeFlush \/ FlushEnd \/ Join \/ Connect \/ Shutdown \/ UNCHANGED vars
  <2>1. UNCHANGED <<writeq, outbox, batch, readq, newq, accepted>>
    BY <1>16 DEF Drained, NoTimeFlush, FlushEnd, Join, Connect, Shutdown, vars
  <2> QED BY <1>6, <2>1
<1> QED BY <1>10, <1>11, <1>12, <1>13, <1>14, <1>15, <1>16 DEF Apply

(* For the steps of the clients and the workers the flush and the hand-over *)
(* rest, and it is enough to look at each connection.                       *)
LEMMA OrderPointwise ==
  ASSUME OrderInv, UNCHANGED <<apc, outbox, accepted>>,
         newq' = newq \/ HandedOver', writeq' = writeq \/ Routed',
         \A d \in Conns : Ordered(d)'
  PROVE  OrderInv'
<1>1. HandedOver'
  BY DEF OrderInv, HandedOver
<1>2. Routed'
  BY DEF OrderInv, Routed
<1> QED BY <1>1, <1>2 DEF OrderInv

LEMMA OrderByClients ==
  ASSUME EdgeInv, OrderInv, NEW c \in Conns,
         \/ \E k \in Kinds : ClientSend(c, k)
         \/ ClientHalfClose(c)
         \/ ClientRecv(c)
  PROVE  OrderInv'
<1> USE DEF applyVars
<1>0. TypeOK /\ WorkerHas
  BY DEF EdgeInv
<1>1. UNCHANGED <<cl, wpc, newq, writeq, readq, apc, batch, outbox, accepted>>
  BY DEF ClientSend, ClientHalfClose, ClientRecv
<1>2. \A d \in Conns : NotNewer(d)
  BY <1>1 DEF NotNewer, Fresh, Served
<1>3. ASSUME NEW d \in Conns, d # c \/ ClientHalfClose(c) PROVE Ordered(d)'
  <2>1. sent'[d] = sent[d] /\ got'[d] = got[d]
    BY <1>0, <1>3 DEF ClientSend, ClientHalfClose, ClientRecv, TypeOK
  <2>2. sockIn'[d] = sockIn[d] /\ sockOut'[d] = sockOut[d]
    BY <1>0, <1>3 DEF ClientSend, ClientHalfClose, ClientRecv, TypeOK
  <2>3. SameBuffers(d)
    BY <1>1, <2>1, <2>2 DEF SameBuffers
  <2> QED BY <1>1, <1>2, <2>3, OrderKept DEF OrderInv
<1>4. ASSUME NEW k \in Kinds, ClientSend(c, k) PROVE Ordered(c)'
  <2>0. Ordered(c)
    BY DEF OrderInv
  <2>1. /\ sent[c] \in Nat /\ sent[c] < MaxReq /\ MaxReq \in Nat
        /\ sockIn[c] \in Seq(Frames) /\ cl[c].rbuf \in Seq(Frames)
        /\ Len(sockIn[c]) \in Nat /\ Len(cl[c].rbuf) \in Nat
    BY <1>0, <1>4, ConnTypes, ConstantTypes DEF ClientSend
  <2> DEFINE x == <<sent[c] + 1, k>>
  <2>2. x \in Frames /\ x[1] = sent[c] + 1
    BY <2>1 DEF Frames
  <2>3. /\ sent'[c] = sent[c] + 1 /\ sockIn'[c] = Append(sockIn[c], x)
        /\ got' = got /\ sockOut' = sockOut
    BY <1>0, <1>4 DEF ClientSend, TypeOK
  <2> HIDE DEF x
  <2>4. Len(sockIn'[c]) = Len(sockIn[c]) + 1
    BY <2>1, <2>2, <2>3, Appended
  <2>5. Written(c)' = Written(c) /\ Passed(c)' = Passed(c)
    <3>1. \A s, a, b \in Nat : (s + 1) - (a + 1) - b = s - a - b
      OBVIOUS
    <3>2. (sent[c] + 1) - (Len(sockIn[c]) + 1) - Len(cl[c].rbuf)
            = sent[c] - Len(sockIn[c]) - Len(cl[c].rbuf)
      BY <2>1, <3>1
    <3> QED BY <1>1, <2>3, <2>4, <3>2 DEF Written, Passed
  <2>6. Numbered(c)'
    <3>1. Numbered(c) /\ Written(c) \in Nat
      BY <1>0, <2>0, CountTypes DEF Ordered
    <3>2. Written(c) <= sent[c]
      BY <3>1 DEF Numbered, Counted, Written
    <3>3. Written(c) <= sent[c] + 1
      BY <2>1, <3>1, <3>2
    <3>4. Len(got[c]) + Len(sockOut[c]) + Len(cl[c].wbuf) <= sent[c] + 1
      BY <3>3 DEF Written
    <3>5. Counted(got[c], sockOut[c], cl[c].wbuf, sent[c] + 1)
      BY <3>1, <3>4 DEF Numbered, Counted
    <3> QED BY <1>1, <2>3, <3>5 DEF Numbered
  <2>7. Fresh(c)' => Untouched(c)'
    <3> SUFFICES ASSUME Fresh(c)' PROVE Untouched(c)'
      OBVIOUS
    <3>1. Untouched(c)
      BY <1>2, <2>0 DEF Ordered, NotNewer
    <3>2. \A i \in DOMAIN sockIn'[c] : (i \in DOMAIN sockIn[c] /\ sockIn'[c][i] = sockIn[c][i])
                                       \/ (i = sent[c] + 1 /\ sockIn'[c][i] = x)
      BY <2>1, <2>2, <2>3, <3>1, Appended DEF Untouched
    <3>3. \A i \in DOMAIN sockIn'[c] : sockIn'[c][i][1] = i
      BY <2>2, <3>1, <3>2 DEF Untouched
    <3>4. Nowhere(c)'
      BY <1>1, <3>1 DEF Untouched, Nowhere
    <3>5. Len(sockIn'[c]) = sent'[c]
      BY <2>3, <2>4, <3>1 DEF Untouched
    <3> QED BY <1>1, <2>3, <3>1, <3>3, <3>4, <3>5 DEF Untouched
  <2>8. Served(c)' => InStages(c)'
    <3> SUFFICES ASSUME Served(c)' PROVE InStages(c)'
      OBVIOUS
    <3>1. InStages(c)
      BY <1>2, <2>0 DEF Ordered, NotNewer
    <3>2. Passed(c) \in Nat
      BY <1>0, <3>1, PassedNat
    <3>3. x[1] = Passed(c) + Len(cl[c].rbuf) + Len(sockIn[c]) + 1
      <4>1. \A s, a, b \in Nat : (s - a - b) + b + a + 1 = s + 1
        OBVIOUS
      <4> QED BY <2>1, <2>2, <4>1 DEF Passed
    <3>4. Incoming(cl[c].rbuf, Append(sockIn[c], x), Passed(c))
      <4>1. Incoming(cl[c].rbuf, sockIn[c], Passed(c)) /\ Passed(c) \in Int
        BY <3>1, <3>2 DEF InStages
      <4> QED BY <2>1, <2>2, <3>3, <4>1, IncomingSent
    <3>5. Stages(writeq[Owner(c)], outbox, batch, readq, c, Written(c), Passed(c))
      BY <3>1 DEF InStages
    <3> QED BY <1>1, <2>3, <2>5, <3>4, <3>5 DEF InStages
  <2> QED BY <2>6, <2>7, <2>8 DEF Ordered
<1>5. ASSUME ClientRecv(c) PROVE Ordered(c)'
  <2>0. Ordered(c)
    BY DEF OrderInv
  <2>1. /\ sockOut[c] # <<>> /\ sockIn' = sockIn /\ sent' = sent
        /\ got'[c] = Append(got[c], Head(sockOut[c])) /\ sockOut'[c] = Tail(sockOut[c])
    BY <1>0, <1>5 DEF ClientRecv, TypeOK
  <2>2. /\ got[c] \in Seq(Answers) /\ sockOut[c] \in Seq(Answers) /\ cl[c].wbuf \in Seq(Answers)
        /\ sent[c] \in Nat
    BY <1>0, ConnTypes
  <2>3. Counted(got[c], sockOut[c], cl[c].wbuf, sent[c])
    BY <2>0 DEF Ordered, Numbered
  <2>4. /\ Counted(got'[c], sockOut'[c], cl[c].wbuf, sent[c])
        /\ Len(got'[c]) + Len(sockOut'[c]) + Len(cl[c].wbuf) = Written(c)
    <3>1. /\ Counted(Append(got[c], Head(sockOut[c])), Tail(sockOut[c]), cl[c].wbuf, sent[c])
          /\ Len(Append(got[c], Head(sockOut[c]))) + Len(Tail(sockOut[c])) + Len(cl[c].wbuf)
               = Len(got[c]) + Len(sockOut[c]) + Len(cl[c].wbuf)
      BY <2>1, <2>2, <2>3, CountedRead
    <3> QED BY <2>1, <3>1 DEF Written
  <2>5. Written(c)' = Written(c) /\ Passed(c)' = Passed(c)
    BY <1>1, <2>1, <2>4 DEF Written, Passed
  <2>6. ~Fresh(c)
    BY <2>0, <2>1 DEF Ordered, Untouched
  <2>7. Served(c)' => InStages(c)'
    <3> SUFFICES ASSUME Served(c)' PROVE InStages(c)'
      OBVIOUS
    <3>1. InStages(c)
      BY <1>2, <2>0 DEF Ordered, NotNewer
    <3> QED BY <1>1, <2>1, <2>5, <3>1 DEF InStages
  <2>8. Numbered(c)'
    BY <1>1, <2>1, <2>4 DEF Numbered
  <2> QED BY <1>2, <2>6, <2>7, <2>8 DEF Ordered, NotNewer
<1>6. \A d \in Conns : Ordered(d)'
  BY <1>3, <1>4, <1>5
<1> QED BY <1>1, <1>6, OrderPointwise

(* A worker takes a new connection: everything of it is still to be done.   *)
LEMMA OrderTakeClient ==
  ASSUME EdgeInv, OrderInv, NEW w \in Workers, TakeClient(w)
  PROVE  OrderInv'
<1> USE DEF netVars, applyVars
<1>0. TypeOK /\ WorkerHas
  BY DEF EdgeInv
<1>1. /\ UNCHANGED <<got, sent, sockIn, sockOut, writeq, readq, apc, batch, outbox, accepted>>
      /\ wpc[w] = "new"
  BY DEF TakeClient
<1>2. \A v \in Workers : wpc'[v] # "exited" => wpc[v] # "exited"
  BY <1>0, <1>1 DEF TakeClient, TypeOK
<1>3. CASE newq[w] = <<>>
  <2>1. newq' = newq /\ cl' = cl
    BY <1>3 DEF TakeClient
  <2>2. \A d \in Conns : SameBuffers(d) /\ NotNewer(d)
    BY <1>1, <1>2, <2>1, ConnsAreNat DEF SameBuffers, NotNewer, Fresh, Served
  <2>3. \A d \in Conns : Ordered(d)'
    BY <1>1, <2>2, OrderKept DEF OrderInv
  <2> QED BY <1>1, <2>1, <2>3, OrderPointwise
<1>4. CASE newq[w] # <<>>
  <2>0. PICK h : h = Head(newq[w])
    OBVIOUS
  <2>1. /\ cl' = [cl EXCEPT ![h] = [NoClient EXCEPT !.here = TRUE]]
        /\ newq' = [newq EXCEPT ![w] = Tail(@)] /\ wpc' = wpc
    BY <1>4, <2>0 DEF TakeClient
  <2>2. \A u \in Workers : newq[u] \in Seq(Conns)
    BY <1>0 DEF TypeOK
  <2>3. /\ h = newq[w][1] /\ 1 \in DOMAIN newq[w] /\ h \in Conns
        /\ \A i \in DOMAIN Tail(newq[w]) :
             i \in Nat \ {0} /\ i + 1 \in DOMAIN newq[w] /\ Tail(newq[w])[i] = newq[w][i + 1]
    BY <1>4, <2>0, <2>2, HeadTail
  <2>4. Owner(h) = w /\ h < accepted /\ h \in Nat /\ accepted \in Nat
    <3>1. Owner(newq[w][1]) = w /\ newq[w][1] < accepted
      BY <2>3 DEF OrderInv, HandedOver
    <3>2. accepted \in Nat
      BY <1>0 DEF TypeOK
    <3> QED BY <2>3, <3>1, <3>2, ConnsAreNat
  <2>5. newq'[w] = Tail(newq[w]) /\ \A u \in Workers : u # w => newq'[u] = newq[u]
    BY <1>0, <2>1 DEF TypeOK
  <2>6. HandedOver'
    <3>1. ASSUME NEW u \in Workers, NEW i \in DOMAIN newq'[u]
          PROVE  newq'[u][i] < accepted /\ Owner(newq'[u][i]) = u
      <4>1. CASE u # w
        BY <2>5, <3>1, <4>1 DEF OrderInv, HandedOver
      <4>2. CASE u = w
        <5>1. i + 1 \in DOMAIN newq[w] /\ newq'[u][i] = newq[w][i + 1]
          BY <2>3, <2>5, <3>1, <4>2
        <5> QED BY <4>2, <5>1 DEF OrderInv, HandedOver
      <4> QED BY <4>1, <4>2
    <3>2. ASSUME NEW u \in Workers, NEW i \in DOMAIN newq'[u], NEW j \in DOMAIN newq'[u], i < j
          PROVE  newq'[u][i] < newq'[u][j]
      <4>1. CASE u # w
        BY <2>5, <3>2, <4>1 DEF OrderInv, HandedOver
      <4>2. CASE u = w
        <5>0. i \in DOMAIN Tail(newq[w]) /\ j \in DOMAIN Tail(newq[w])
          BY <2>5, <3>2, <4>2
        <5>1. i + 1 < j + 1 /\ i + 1 \in DOMAIN newq[w] /\ j + 1 \in DOMAIN newq[w]
          BY <2>3, <3>2, <5>0
        <5>2. newq[w][i + 1] < newq[w][j + 1]
          BY <5>1 DEF OrderInv, HandedOver
        <5>3. newq'[u][i] = newq[w][i + 1] /\ newq'[u][j] = newq[w][j + 1]
          BY <2>3, <2>5, <4>2, <5>0
        <5> QED BY <5>2, <5>3
      <4> QED BY <4>1, <4>2
    <3> QED BY <1>1, <3>1, <3>2 DEF HandedOver
  <2>7. ASSUME NEW d \in Conns, Fresh(d)' PROVE Fresh(d) /\ d # h
    <3>1. d \in Nat /\ Owner(d) \in Workers
      BY ConnsAreNat
    <3>2. CASE d >= accepted
      BY <2>4, <3>1, <3>2 DEF Fresh
    <3>3. CASE \E i \in DOMAIN newq'[Owner(d)] : newq'[Owner(d)][i] = d
      <4>1. PICK i \in DOMAIN newq'[Owner(d)] : newq'[Owner(d)][i] = d
        BY <3>3
      <4>2. CASE Owner(d) # w
        BY <2>4, <2>5, <3>1, <4>1, <4>2 DEF Fresh
      <4>3. CASE Owner(d) = w
        <5>1. i \in Nat \ {0} /\ i + 1 \in DOMAIN newq[w] /\ newq[w][i + 1] = d
          BY <2>3, <2>5, <4>1, <4>3
        <5>2. 1 < i + 1
          BY <5>1
        <5>3. newq[w][1] < newq[w][i + 1]
          BY <2>3, <5>1, <5>2 DEF OrderInv, HandedOver
        <5> QED BY <2>3, <2>4, <3>1, <4>3, <5>1, <5>3 DEF Fresh
      <4> QED BY <4>2, <4>3
    <3> QED BY <1>1, <2>7, <3>2, <3>3 DEF Fresh
  <2>8. ASSUME NEW d \in Conns, d # h PROVE Ordered(d)'
    <3>1. cl'[d] = cl[d]
      BY <1>0, <2>1, <2>8 DEF TypeOK
    <3>2. SameBuffers(d)
      BY <1>1, <3>1 DEF SameBuffers
    <3>3. Served(d)' => Served(d)
      BY <2>1, <3>1 DEF Served
    <3> QED BY <1>1, <2>7, <3>2, <3>3, OrderKept DEF OrderInv, NotNewer
  <2>9. Ordered(h)'
    <3>0. Ordered(h) /\ Fresh(h)
      BY <2>3, <2>4 DEF OrderInv, Fresh
    <3>1. Untouched(h)
      BY <3>0 DEF Ordered
    <3>2. cl'[h] = [NoClient EXCEPT !.here = TRUE]
      BY <1>0, <2>1, <2>3 DEF TypeOK
    <3>3. cl'[h].wbuf = <<>> /\ cl'[h].rbuf = <<>> /\ cl[h].wbuf = <<>>
      BY <3>1, <3>2 DEF NoClient, Untouched
    <3>4. Numbered(h)'
      <4>1. Counted(got[h], sockOut[h], cl[h].wbuf, sent[h])
        BY <3>0 DEF Ordered, Numbered
      <4> QED BY <1>1, <3>3, <4>1 DEF Numbered
    <3>5. got'[h] = <<>> /\ sockOut'[h] = <<>> /\ Len(sockIn'[h]) = sent'[h]
      BY <1>1, <3>1 DEF Untouched
    <3>6. sent[h] \in Nat /\ Len(<<>>) = 0
      BY <1>0, <2>3, ConnTypes
    <3>7. Written(h)' = 0
      BY <3>3, <3>5, <3>6 DEF Written
    <3>8. Passed(h)' = 0
      <4>1. \A s \in Nat : s - s - 0 = 0
        OBVIOUS
      <4> QED BY <1>1, <3>3, <3>5, <3>6, <4>1 DEF Passed
    <3>9. Stages(writeq[Owner(h)], outbox, batch, readq, h, 0, 0)
      BY <2>4, <3>1, StagesEmpty DEF Untouched, Nowhere
    <3>10. Incoming(<<>>, sockIn[h], 0)
      <4>1. \A i \in DOMAIN sockIn[h] : sockIn[h][i][1] = i /\ i \in Nat
        <5>1. sockIn[h] \in Seq(Frames)
          BY <1>0, <2>3, ConnTypes
        <5> QED BY <3>1, <5>1 DEF Untouched
      <4>2. \A i \in Nat : 0 + Len(<<>>) + i = i
        OBVIOUS
      <4> QED BY <4>1, <4>2 DEF Incoming
    <3>11. InStages(h)'
      BY <1>1, <3>3, <3>7, <3>8, <3>9, <3>10 DEF InStages
    <3> QED BY <2>3, <2>7, <3>4, <3>11 DEF Ordered
  <2>10. \A d \in Conns : Ordered(d)'
    BY <2>8, <2>9
  <2> QED BY <1>1, <2>6, <2>10, OrderPointwise
<1> QED BY <1>3, <1>4

LEMMA OrderTakeAnswer ==
  ASSUME EdgeInv, OrderInv, NEW w \in Workers, TakeAnswer(w)
  PROVE  OrderInv'
<1> USE DEF netVars, applyVars
<1>0. TypeOK /\ WorkerHas
  BY DEF EdgeInv
<1>1. /\ UNCHANGED <<got, sent, sockIn, sockOut, newq, wpc, readq, apc, batch, outbox, accepted>>
      /\ wpc[w] = "writes"
  BY DEF TakeAnswer
<1>1a. PICK a : a = Head(writeq[w])
  OBVIOUS
<1>1b. PICK s : s = a.slot
  OBVIOUS
<1>2. writeq[w] \in Seq(Items) /\ writeq[w] # <<>>
  BY <1>0 DEF TakeAnswer, TypeOK
<1>3. /\ a \in Items /\ a = writeq[w][1] /\ 1 \in DOMAIN writeq[w]
      /\ \A i \in DOMAIN Tail(writeq[w]) : i + 1 \in DOMAIN writeq[w] /\ Tail(writeq[w])[i] = writeq[w][i + 1]
  BY <1>1a, <1>2, HeadTail
<1>4. s \in Conns /\ Owner(s) = w /\ <<a.num, a.ans>> \in Answers
  <2>1. s \in Conns /\ <<a.num, a.ans>> \in Answers
    BY <1>1b, <1>3 DEF Items, Answers
  <2> QED BY <1>1b, <1>3, <2>1 DEF OrderInv, Routed
<1>5. writeq'[w] = Tail(writeq[w]) /\ \A u \in Workers : u # w => writeq'[u] = writeq[u]
  BY <1>0 DEF TakeAnswer, TypeOK
<1>6. cl' = IF cl[s].here THEN [cl EXCEPT ![s].wbuf = Append(@, <<a.num, a.ans>>), ![s].armed = TRUE]
                          ELSE cl
  BY <1>1a, <1>1b DEF TakeAnswer
<1>7. Routed'
  <2> SUFFICES ASSUME NEW u \in Workers, NEW i \in DOMAIN writeq'[u]
               PROVE  Owner(writeq'[u][i].slot) = u
    BY DEF Routed
  <2>1. CASE u # w
    BY <1>5, <2>1 DEF OrderInv, Routed
  <2>2. CASE u = w
    <3>1. i + 1 \in DOMAIN writeq[w] /\ writeq'[u][i] = writeq[w][i + 1]
      BY <1>3, <1>5, <2>2
    <3> QED BY <2>2, <3>1 DEF OrderInv, Routed
  <2> QED BY <2>1, <2>2
<1>8. \A d \in Conns : Nowhere(d) => Nowhere(d)' /\ d # s
  <2> TAKE d \in Conns
  <2> HAVE Nowhere(d)
  <2>1. Absent(writeq[w], d)
    BY DEF Nowhere
  <2>2. Absent(Tail(writeq[w]), d) /\ d # s
    <3>1. Absent(Tail(writeq[w]), d)
      BY <1>2, <2>1, TailIsWithout, OtherTaken
    <3> QED BY <1>1b, <1>3, <2>1, <3>1 DEF Absent
  <2>3. \A u \in Workers : Absent(writeq'[u], d)
    BY <1>5, <2>2 DEF Nowhere
  <2> QED BY <1>1, <2>2, <2>3 DEF Nowhere
<1>9. ASSUME NEW d \in Conns, d # s PROVE Ordered(d)'
  <2>1. cl'[d] = cl[d]
    <3>1. CASE cl[s].here
      BY <1>0, <1>6, <1>9, <3>1 DEF TypeOK
    <3> QED BY <1>6, <3>1
  <2>2. SameBuffers(d) /\ NotNewer(d)
    BY <1>1, <2>1 DEF SameBuffers, NotNewer, Fresh, Served
  <2>3. InStages(d) => Stages(writeq'[Owner(d)], outbox', batch', readq', d, Written(d), Passed(d))
    <3> SUFFICES ASSUME InStages(d)
                 PROVE  Stages(writeq'[Owner(d)], outbox, batch, readq, d, Written(d), Passed(d))
      BY <1>1
    <3>1. Stages(writeq[Owner(d)], outbox, batch, readq, d, Written(d), Passed(d))
      BY DEF InStages
    <3>2. Written(d) \in Nat /\ Passed(d) \in Nat
      BY <1>0, CountTypes, PassedNat
    <3>3. CASE Owner(d) # w
      BY <1>5, <3>1, <3>3, ConnsAreNat
    <3>4. CASE Owner(d) = w
      <4>1. Head(writeq[w]).slot # d
        BY <1>1a, <1>1b, <1>9
      <4> QED BY <1>2, <1>5, <3>1, <3>2, <3>4, <4>1, StagesTake
    <3> QED BY <3>3, <3>4
  <2>4. Ordered(d)
    BY DEF OrderInv
  <2> QED BY <1>8, <2>2, <2>3, <2>4, OrderMoved
<1>10. CASE ~cl[s].here
  <2>1. cl' = cl
    BY <1>6, <1>10
  <2>2. SameBuffers(s) /\ NotNewer(s) /\ ~Served(s)'
    BY <1>1, <1>10, <2>1 DEF SameBuffers, NotNewer, Fresh, Served
  <2>3. Ordered(s)'
    BY <1>4, <1>8, <2>2, OrderMoved DEF OrderInv
  <2> QED BY <1>1, <1>7, <1>9, <2>3, OrderPointwise
<1>11. CASE cl[s].here
  <2> DEFINE x == <<a.num, a.ans>>
             b == Append(cl[s].wbuf, x)
  <2>0. Ordered(s) /\ Served(s)
    BY <1>1, <1>4, <1>11 DEF OrderInv, Served
  <2>1. InStages(s)
    BY <2>0 DEF Ordered
  <2>2. Written(s) \in Nat /\ Passed(s) \in Nat /\ Written(s) <= Passed(s)
    BY <1>0, <1>4, <2>1, CountTypes, PassedNat
  <2>3. /\ a.num = Written(s) + 1 /\ Written(s) + 1 <= Passed(s)
        /\ Stages(Tail(writeq[w]), outbox, batch, readq, s, Written(s) + 1, Passed(s))
    <3>1. Stages(writeq[w], outbox, batch, readq, s, Written(s), Passed(s))
      BY <1>4, <2>1 DEF InStages
    <3>2. Head(writeq[w]).slot = s /\ Head(writeq[w]) = a
      BY <1>1a, <1>1b
    <3> QED BY <1>2, <2>2, <3>1, <3>2, StagesTake
  <2>4. /\ cl[s] \in Clients /\ cl[s].wbuf \in Seq(Answers) /\ got[s] \in Seq(Answers)
        /\ sockOut[s] \in Seq(Answers) /\ sent[s] \in Nat
        /\ Len(sockIn[s]) \in Nat /\ Len(cl[s].rbuf) \in Nat
    BY <1>0, <1>4, ConnTypes
  <2>5. Passed(s) <= sent[s]
    <3>1. \A t, u, v \in Nat : t - u - v <= t
      OBVIOUS
    <3> QED BY <2>4, <3>1 DEF Passed
  <2>6. x \in Answers /\ x[1] = Written(s) + 1 /\ x[1] <= sent[s]
    <3>1. x \in Answers /\ x[1] = Written(s) + 1
      BY <1>4, <2>3
    <3>2. Written(s) + 1 <= sent[s]
      BY <2>2, <2>3, <2>4, <2>5
    <3> QED BY <3>1, <3>2
  <2> HIDE DEF x
  <2>7. /\ Counted(got[s], sockOut[s], b, sent[s])
        /\ Len(got[s]) + Len(sockOut[s]) + Len(b) = Written(s) + 1
    <3>1. Counted(got[s], sockOut[s], cl[s].wbuf, sent[s])
      BY <2>0 DEF Ordered, Numbered
    <3>2. x[1] = Len(got[s]) + Len(sockOut[s]) + Len(cl[s].wbuf) + 1
      BY <2>6 DEF Written
    <3> DEFINE g == got[s]
               o == sockOut[s]
               u == cl[s].wbuf
               hi == sent[s]
    <3>3. /\ g \in Seq(Answers) /\ o \in Seq(Answers) /\ u \in Seq(Answers) /\ hi \in Nat
          /\ Counted(g, o, u, hi) /\ x \in Answers /\ x[1] = Len(g) + Len(o) + Len(u) + 1 /\ x[1] <= hi
      BY <2>4, <2>6, <3>1, <3>2
    <3> HIDE DEF g, o, u, hi
    <3>4. /\ Counted(g, o, Append(u, x), hi)
          /\ Len(g) + Len(o) + Len(Append(u, x)) = Len(g) + Len(o) + Len(u) + 1
      BY <3>3, CountedAnswer
    <3> QED BY <3>4 DEF Written, g, o, u, hi
  <2> HIDE DEF b
  <2>8. cl'[s] = [cl[s] EXCEPT !.wbuf = b, !.armed = TRUE]
    BY <1>0, <1>4, <1>6, <1>11 DEF TypeOK, b, x
  <2>9. cl'[s].wbuf = b /\ cl'[s].rbuf = cl[s].rbuf
    BY <2>4, <2>8 DEF Clients
  <2>10. Written(s)' = Written(s) + 1 /\ Passed(s)' = Passed(s)
    BY <1>1, <2>7, <2>9 DEF Written, Passed
  <2>11. Numbered(s)'
    BY <1>1, <2>7, <2>9 DEF Numbered
  <2>12. InStages(s)'
    <3>1. Stages(writeq[Owner(s)], outbox, batch, readq, s, Written(s), Passed(s))'
      BY <1>1, <1>4, <1>5, <2>3, <2>10
    <3>2. Incoming(cl[s].rbuf, sockIn[s], Passed(s))'
      BY <1>1, <2>1, <2>9, <2>10 DEF InStages
    <3> QED BY <3>1, <3>2 DEF InStages
  <2>13. ~Fresh(s)'
    <3>1. cl[s] # NoClient
      BY <1>11 DEF NoClient
    <3>2. ~Fresh(s)
      BY <2>0, <3>1 DEF Ordered, Untouched
    <3> QED BY <1>1, <3>2 DEF Fresh
  <2>14. Ordered(s)'
    BY <2>11, <2>12, <2>13 DEF Ordered
  <2> QED BY <1>1, <1>7, <1>9, <2>14, OrderPointwise
<1> QED BY <1>10, <1>11

(* Reading the socket, writing to it, and parsing, of one connection.       *)
LEMMA OrderInLoop ==
  ASSUME EdgeInv, OrderInv, NEW w \in Workers, NEW c \in Conns,
         Readable(w, c) \/ Writable(w, c) \/ WriteErr(w, c) \/ HungUp(w, c)
  PROVE  OrderInv'
<1> USE DEF netVars, applyVars
<1>0. TypeOK /\ WorkerHas /\ Ordered(c) /\ Len(sockOut[c]) <= SockCap
  BY DEF EdgeInv, OrderInv, Watched, OutputWatched
<1>1. /\ UNCHANGED <<got, sent, newq, writeq, readq, apc, batch, outbox, accepted>>
      /\ wpc[w] = "events"
  BY DEF Readable, Writable, WriteErr, HungUp
<1>2. Owner(c) = w /\ cl[c].here
  BY <1>0 DEF Readable, Writable, WriteErr, HungUp, WorkerHas, Edges
<1>3. \A v \in Workers : wpc'[v] # "exited" => wpc[v] # "exited"
  BY <1>0, <1>1 DEF Readable, Writable, WriteErr, HungUp, TypeOK
<1>4. Served(c) /\ ~Fresh(c) /\ ~Fresh(c)'
  <2>1. Served(c)
    BY <1>1, <1>2 DEF Served
  <2>2. cl[c] # NoClient
    BY <1>2 DEF NoClient
  <2>3. ~Fresh(c)
    BY <1>0, <2>2 DEF Ordered, Untouched
  <2> QED BY <1>1, <2>1, <2>3 DEF Fresh
<1>5. Numbered(c) /\ InStages(c)
  BY <1>0, <1>4 DEF Ordered
<1>6. ASSUME NEW d \in Conns, d # c PROVE Ordered(d)'
  <2>1. cl'[d] = cl[d]
    BY <1>0, <1>6 DEF Readable, Writable, WriteErr, HungUp, ReadInto, Flushed, TypeOK
  <2>2. sockIn'[d] = sockIn[d] /\ sockOut'[d] = sockOut[d]
    BY <1>0, <1>6 DEF Readable, Writable, WriteErr, HungUp, Flushed, TypeOK
  <2>3. SameBuffers(d)
    BY <1>1, <2>1, <2>2 DEF SameBuffers
  <2>4. Fresh(d)' => Fresh(d)
    BY <1>1 DEF Fresh
  <2>5. Served(d)' => Served(d)
    BY <1>3, <2>1, ConnsAreNat DEF Served
  <2> QED BY <1>1, <2>3, <2>4, <2>5, OrderKept DEF OrderInv, NotNewer
<1>7. /\ cl[c] \in Clients /\ cl[c].rbuf \in Seq(Frames) /\ cl[c].wbuf \in Seq(Answers)
      /\ sockIn[c] \in Seq(Frames) /\ sockOut[c] \in Seq(Answers) /\ got[c] \in Seq(Answers)
      /\ Len(cl[c].rbuf) \in Nat /\ Len(sockIn[c]) \in Nat /\ sent[c] \in Nat
  BY <1>0, ConnTypes
<1>8. ASSUME Numbered(c)', Written(c)' = Written(c), Passed(c)' = Passed(c),
             Incoming(cl'[c].rbuf, sockIn'[c], Passed(c))
      PROVE  Ordered(c)'
  <2>1. InStages(c)'
    BY <1>1, <1>5, <1>8 DEF InStages
  <2> QED BY <1>4, <1>8, <2>1 DEF Ordered
<1>9. ASSUME UNCHANGED <<sockIn, sockOut>>, cl'[c].rbuf = cl[c].rbuf, cl'[c].wbuf = cl[c].wbuf
      PROVE  Ordered(c)'
  <2>1. Numbered(c)'
    BY <1>1, <1>5, <1>9 DEF Numbered
  <2>2. Written(c)' = Written(c) /\ Passed(c)' = Passed(c)
    BY <1>1, <1>9 DEF Written, Passed
  <2>3. Incoming(cl'[c].rbuf, sockIn'[c], Passed(c))
    BY <1>5, <1>9 DEF InStages
  <2> QED BY <1>8, <2>1, <2>2, <2>3
<1>10. ASSUME WriteErr(w, c) \/ HungUp(w, c) PROVE Ordered(c)'
  <2>1. cl' = cl \/ cl'[c] = [cl[c] EXCEPT !.closed = TRUE]
    BY <1>0, <1>10 DEF WriteErr, HungUp, TypeOK
  <2>2. cl'[c].rbuf = cl[c].rbuf /\ cl'[c].wbuf = cl[c].wbuf
    BY <1>7, <2>1 DEF Clients
  <2>3. UNCHANGED <<sockIn, sockOut>>
    BY <1>10 DEF WriteErr, HungUp
  <2> QED BY <1>9, <2>2, <2>3
<1>11. ASSUME Readable(w, c) PROVE Ordered(c)'
  <2>0. sockOut' = sockOut
    BY <1>11 DEF Readable
  <2>1. CASE cl[c].closed \/ sockIn[c] = <<>>
    <3>1. sockIn' = sockIn /\ (cl' = cl \/ cl'[c] = [cl[c] EXCEPT !.closed = TRUE])
      BY <1>0, <1>11, <2>1 DEF Readable, TypeOK
    <3>2. cl'[c].rbuf = cl[c].rbuf /\ cl'[c].wbuf = cl[c].wbuf
      BY <1>7, <3>1 DEF Clients
    <3> QED BY <1>9, <2>0, <3>1, <3>2
  <2>2. CASE ~cl[c].closed /\ sockIn[c] # <<>>
    <3>1. cl'[c] = [cl[c] EXCEPT !.rbuf = @ \o sockIn[c]] /\ sockIn'[c] = <<>>
      BY <1>0, <1>11, <2>2 DEF Readable, ReadInto, TypeOK
    <3>2. cl'[c].rbuf = cl[c].rbuf \o sockIn[c] /\ cl'[c].wbuf = cl[c].wbuf
      BY <1>7, <3>1 DEF Clients
    <3>3. Incoming(cl[c].rbuf, sockIn[c], Passed(c)) /\ Passed(c) \in Int
      BY <1>0, <1>5, CountTypes DEF InStages
    <3>4. /\ Incoming(cl[c].rbuf \o sockIn[c], <<>>, Passed(c))
          /\ Len(cl[c].rbuf \o sockIn[c]) = Len(cl[c].rbuf) + Len(sockIn[c])
      BY <1>7, <3>3, IncomingRead
    <3>5. Passed(c)' = Passed(c)
      <4>1. \A s, a, b \in Nat : s - 0 - (b + a) = s - a - b
        OBVIOUS
      <4>2. Len(<<>>) = 0
        OBVIOUS
      <4>3. sent[c] - Len(<<>>) - (Len(cl[c].rbuf) + Len(sockIn[c]))
              = sent[c] - Len(sockIn[c]) - Len(cl[c].rbuf)
        BY <1>7, <4>1, <4>2
      <4> QED BY <1>1, <3>1, <3>2, <3>4, <4>3 DEF Passed
    <3>6. Numbered(c)' /\ Written(c)' = Written(c)
      BY <1>1, <1>5, <2>0, <3>2 DEF Numbered, Written
    <3> QED BY <1>8, <3>1, <3>2, <3>4, <3>5, <3>6
  <2> QED BY <2>1, <2>2
<1>12. ASSUME Writable(w, c) PROVE Ordered(c)'
  <2>0. PICK n : n = Room(c)
    OBVIOUS
  <2>1. n \in 0 .. Len(cl[c].wbuf)
    BY <1>0, <2>0, RoomType
  <2>2. /\ cl'[c] = [cl[c] EXCEPT !.wbuf = SubSeq(@, n + 1, Len(@)), !.armed = @ /\ MoreToWrite(c)]
        /\ sockOut'[c] = sockOut[c] \o SubSeq(cl[c].wbuf, 1, n) /\ sockIn' = sockIn
    BY <1>0, <1>12, <2>0 DEF Writable, Flushed, TypeOK
  <2>3. cl'[c].wbuf = SubSeq(cl[c].wbuf, n + 1, Len(cl[c].wbuf)) /\ cl'[c].rbuf = cl[c].rbuf
    BY <1>7, <2>2 DEF Clients
  <2> DEFINE g == got[c]
             s == sockOut[c]
             u == cl[c].wbuf
             hi == sent[c]
             t == s \o SubSeq(u, 1, n)
             b == SubSeq(u, n + 1, Len(u))
  <2>4. /\ g \in Seq(Answers) /\ s \in Seq(Answers) /\ u \in Seq(Answers) /\ hi \in Nat
        /\ Counted(g, s, u, hi) /\ n \in 0 .. Len(u)
    BY <1>5, <1>7, <2>1 DEF Numbered
  <2> HIDE DEF g, s, u, hi
  <2>5. Counted(g, t, b, hi) /\ Len(g) + Len(t) + Len(b) = Len(g) + Len(s) + Len(u)
    <3>1. Counted(g, t, b, hi)
      BY <2>4, CountedFlush
    <3>2. /\ SubSeq(u, 1, n) \in Seq(Answers) /\ Len(SubSeq(u, 1, n)) = n
          /\ Len(b) = Len(u) - n
      BY <2>4, Parts
    <3>3. Len(t) = Len(s) + n
      BY <2>4, <3>2, Joined
    <3>4. Len(g) \in Nat /\ Len(s) \in Nat /\ Len(u) \in Nat
      BY <2>4
    <3> HIDE DEF t, b
    <3> QED BY <2>4, <3>1, <3>2, <3>3, <3>4
  <2>6. Numbered(c)'
    BY <1>1, <2>2, <2>3, <2>5 DEF Numbered, g, s, u, hi
  <2>7. Written(c)' = Written(c)
    BY <1>1, <2>2, <2>3, <2>5 DEF Written, g, s, u
  <2>8. Passed(c)' = Passed(c)
    BY <1>1, <2>2, <2>3 DEF Passed
  <2>9. Incoming(cl'[c].rbuf, sockIn'[c], Passed(c))
    BY <1>5, <2>2, <2>3 DEF InStages
  <2> QED BY <1>8, <2>6, <2>7, <2>8, <2>9
<1>13. \A d \in Conns : Ordered(d)'
  BY <1>6, <1>10, <1>11, <1>12
<1> QED BY <1>1, <1>13, OrderPointwise

(* Passing a frame on.  Here the slot must not wrap, and the worker must    *)
(* not write an error of its own past the answers that are on their way.    *)
LEMMA OrderParse ==
  ASSUME EdgeInv, OrderInv, NEW w \in Workers, ParseAndPush(w),
         MaxConn <= SlotWrap, "big" \notin Kinds
  PROVE  OrderInv'
<1> USE DEF netVars, applyVars
<1>0. TypeOK /\ WorkerHas
  BY DEF EdgeInv
<1>1. /\ UNCHANGED <<got, sent, newq, writeq, apc, batch, outbox, accepted, sockIn, sockOut, wpc>>
      /\ wpc[w] = "parse"
  BY DEF ParseAndPush
<1>2. PICK c : c = cur[w]
  OBVIOUS
<1>3. c \in Conns /\ Owner(c) = w /\ cl[c].rbuf # <<>>
  BY <1>0, <1>1, <1>2 DEF WorkerHas, ParseAndPush
<1>4. Ordered(c) /\ cl[c].here
  <2>1. cl[c] # NoClient
    BY <1>3 DEF NoClient
  <2> QED BY <1>0, <1>3, <2>1 DEF OrderInv, WorkerHas
<1>5. Served(c) /\ ~Fresh(c) /\ ~Fresh(c)'
  <2>1. cl[c] # NoClient
    BY <1>3 DEF NoClient
  <2>2. ~Fresh(c)
    BY <1>4, <2>1 DEF Ordered, Untouched
  <2> QED BY <1>1, <1>3, <1>4, <2>2 DEF Served, Fresh
<1>6. Numbered(c) /\ InStages(c)
  BY <1>4, <1>5 DEF Ordered
<1>7. /\ cl[c] \in Clients /\ cl[c].rbuf \in Seq(Frames) /\ cl[c].wbuf \in Seq(Answers)
      /\ sockIn[c] \in Seq(Frames)
      /\ Len(cl[c].rbuf) \in Nat /\ Len(sockIn[c]) \in Nat /\ sent[c] \in Nat
  BY <1>0, <1>3, ConnTypes
<1>8. c % SlotWrap = c
  <2>1. c \in Nat /\ c < SlotWrap /\ SlotWrap \in Nat
    <3>1. c \in Nat /\ c < MaxConn /\ MaxConn \in Nat /\ SlotWrap \in Nat
      BY <1>3, ConnsAreNat, ConstantTypes
    <3> QED BY <3>1
  <2> QED BY <2>1
<1>9. PICK f : f = Head(cl[c].rbuf)
  OBVIOUS
<1>10. f \in Frames /\ f[2] # "big"
  <2>1. f \in Frames
    BY <1>3, <1>7, <1>9, HeadTail
  <2>2. f[2] \in Kinds
    BY <2>1 DEF Frames
  <2> QED BY <2>1, <2>2
<1>11. PICK i : i = [slot |-> c % SlotWrap, num |-> f[1], ans |-> IF f[2] = "req" THEN "ok" ELSE "err"]
  OBVIOUS
<1>12. i.slot = c /\ i.num = f[1] /\ i \in Items
  <2>1. i.slot = c /\ i.num = f[1]
    BY <1>8, <1>11
  <2>2. i.slot \in Conns
    BY <1>3, <2>1
  <2>3. f[1] \in 1 .. MaxReq
    BY <1>10 DEF Frames
  <2> QED BY <1>8, <1>3, <1>11, <2>1, <2>3 DEF Items
<1>13. readq' = Append(readq, i) /\ readq \in Seq(Items)
  BY <1>0, <1>2, <1>9, <1>11 DEF ParseAndPush, TypeOK
<1>14. cl' = [cl EXCEPT ![c].rbuf = Tail(@), ![c].closed = f[2] # "req",
                        ![c].wbuf = IF f[2] = "big" THEN TooLargeInto(@, f[1]) ELSE @]
  BY <1>2, <1>9 DEF ParseAndPush
<1>15. ASSUME NEW d \in Conns, d # c PROVE Ordered(d)'
  <2>1. cl'[d] = cl[d]
    BY <1>0, <1>14, <1>15 DEF TypeOK
  <2>2. SameBuffers(d) /\ NotNewer(d)
    BY <1>1, <2>1 DEF SameBuffers, NotNewer, Fresh, Served
  <2>3. Nowhere(d) => Nowhere(d)'
    BY <1>1, <1>12, <1>13, <1>15, OtherAppended DEF Nowhere
  <2>4. InStages(d) => Stages(writeq'[Owner(d)], outbox', batch', readq', d, Written(d), Passed(d))
    <3> SUFFICES ASSUME InStages(d)
                 PROVE  Stages(writeq[Owner(d)], outbox, batch, readq', d, Written(d), Passed(d))
      BY <1>1
    <3>1. Stages(writeq[Owner(d)], outbox, batch, readq, d, Written(d), Passed(d))
      BY DEF InStages
    <3>2. Written(d) \in Nat /\ Passed(d) \in Nat
      BY <1>0, CountTypes, PassedNat
    <3> QED BY <1>12, <1>13, <1>15, <3>1, <3>2, StagesPush
  <2>5. Ordered(d)
    BY DEF OrderInv
  <2> QED BY <2>2, <2>3, <2>4, <2>5, OrderMoved
<1>16. Ordered(c)'
  <2>1. cl'[c] = [cl[c] EXCEPT !.rbuf = Tail(@), !.closed = f[2] # "req",
                     !.wbuf = IF f[2] = "big" THEN TooLargeInto(@, f[1]) ELSE @]
    BY <1>0, <1>3, <1>14 DEF TypeOK
  <2>2. cl'[c].rbuf = Tail(cl[c].rbuf) /\ cl'[c].wbuf = cl[c].wbuf
    BY <1>7, <1>10, <2>1 DEF Clients
  <2>3. Len(Tail(cl[c].rbuf)) = Len(cl[c].rbuf) - 1
    BY <1>3, <1>7, HeadTail
  <2>4. Passed(c)' = Passed(c) + 1
    <3>1. \A s, a, b \in Nat : s - a - (b - 1) = (s - a - b) + 1
      OBVIOUS
    <3>2. sent[c] - Len(sockIn[c]) - (Len(cl[c].rbuf) - 1)
            = (sent[c] - Len(sockIn[c]) - Len(cl[c].rbuf)) + 1
      BY <1>7, <3>1
    <3> QED BY <1>1, <2>2, <2>3, <3>2 DEF Passed
  <2>5. Numbered(c)' /\ Written(c)' = Written(c)
    BY <1>1, <1>6, <2>2 DEF Numbered, Written
  <2>6. Written(c) \in Nat /\ Passed(c) \in Nat
    BY <1>0, <1>3, <1>6, CountTypes, PassedNat
  <2>7. f[1] = Passed(c) + 1 /\ Incoming(Tail(cl[c].rbuf), sockIn[c], Passed(c) + 1)
    <3>1. Incoming(cl[c].rbuf, sockIn[c], Passed(c)) /\ Passed(c) \in Int
      BY <1>6, <2>6 DEF InStages
    <3>2. \A j \in DOMAIN sockIn[c] : j \in Nat
      BY <1>7
    <3> QED BY <1>3, <1>7, <1>9, <3>1, <3>2, IncomingPassed
  <2>8. Stages(writeq[Owner(c)], outbox, batch, Append(readq, i), c, Written(c), Passed(c) + 1)
    <3>1. Stages(writeq[Owner(c)], outbox, batch, readq, c, Written(c), Passed(c))
      BY <1>6 DEF InStages
    <3> QED BY <1>12, <1>13, <2>6, <2>7, <3>1, StagesPush
  <2>9. InStages(c)'
    BY <1>1, <1>13, <2>2, <2>4, <2>5, <2>7, <2>8 DEF InStages
  <2> QED BY <1>5, <2>5, <2>9 DEF Ordered
<1>17. \A d \in Conns : Ordered(d)'
  BY <1>15, <1>16
<1> QED BY <1>1, <1>17, OrderPointwise

(* The end of an iteration drops connections, the closed ones after one     *)
(* last write.                                                              *)
LEMMA OrderAtEnd ==
  ASSUME EdgeInv, OrderInv, NEW w \in Workers, EndIteration(w)
  PROVE  OrderInv'
<1> USE DEF netVars, applyVars
<1>0. TypeOK
  BY DEF EdgeInv
<1>1. /\ UNCHANGED <<got, sent, newq, writeq, readq, apc, batch, outbox, accepted, sockIn>>
      /\ wpc[w] = "events"
  BY DEF EndIteration
<1>2. \A v \in Workers : wpc'[v] # "exited" => wpc[v] # "exited"
  BY <1>0, <1>1 DEF EndIteration, TypeOK
<1>3. ASSUME NEW d \in Conns PROVE Ordered(d)'
  <2>0. Ordered(d) /\ (Fresh(d)' => Fresh(d)) /\ Len(sockOut[d]) <= SockCap
    BY <1>1 DEF OrderInv, Fresh, EdgeInv, Watched, OutputWatched
  <2>1. CASE d \notin Gone(w)
    <3>1. cl'[d] = cl[d] /\ sockOut'[d] = sockOut[d]
      BY <2>1 DEF EndIteration
    <3>2. SameBuffers(d) /\ (Served(d)' => Served(d))
      BY <1>1, <1>2, <3>1, ConnsAreNat DEF SameBuffers, Served
    <3> QED BY <1>1, <2>0, <3>2, OrderKept DEF NotNewer
  <2>2. CASE d \in Gone(w)
    <3>1. cl'[d] = NoClient
      BY <2>2 DEF EndIteration
    <3>2. cl'[d].wbuf = <<>> /\ ~cl'[d].here
      BY <3>1 DEF NoClient
    <3>3. \/ sockOut'[d] = sockOut[d]
          \/ sockOut'[d] = sockOut[d] \o SubSeq(cl[d].wbuf, 1, Room(d)) /\ cl[d].closed
      BY <2>2 DEF EndIteration, Gone
    <3>4. Numbered(d)'
      <4>1. /\ cl[d].wbuf \in Seq(Answers) /\ sockOut[d] \in Seq(Answers) /\ got[d] \in Seq(Answers)
            /\ sent[d] \in Nat
        BY <1>0, ConnTypes
      <4>2. Counted(got[d], sockOut[d], cl[d].wbuf, sent[d])
        BY <2>0 DEF Ordered, Numbered
      <4>3. Room(d) \in 0 .. Len(cl[d].wbuf)
        BY <1>0, <2>0, RoomType
      <4>4. /\ Counted(got[d], sockOut[d] \o SubSeq(cl[d].wbuf, 1, Room(d)), <<>>, sent[d])
            /\ Counted(got[d], sockOut[d], <<>>, sent[d])
        BY <4>1, <4>2, <4>3, CountedFlush
      <4> QED BY <1>1, <3>2, <3>3, <4>4 DEF Numbered
    <3>5. Fresh(d)' => Untouched(d)'
      <4> SUFFICES ASSUME Fresh(d)' PROVE Untouched(d)'
        OBVIOUS
      <4>1. Untouched(d)
        BY <2>0 DEF Ordered
      <4>2. sockOut'[d] = sockOut[d]
        BY <3>3, <4>1 DEF Untouched, NoClient
      <4>3. Nowhere(d)'
        BY <1>1, <4>1 DEF Untouched, Nowhere
      <4> QED BY <1>1, <3>1, <4>1, <4>2, <4>3 DEF Untouched
    <3> QED BY <3>2, <3>4, <3>5 DEF Ordered, Served
  <2> QED BY <2>1, <2>2
<1> QED BY <1>1, <1>3, OrderPointwise

LEMMA OrderInvNext ==
  ASSUME MaxConn <= SlotWrap, "big" \notin Kinds
  PROVE  EdgeInv /\ OrderInv /\ [Next]_vars => OrderInv'
<1> SUFFICES ASSUME EdgeInv, OrderInv, [Next]_vars PROVE OrderInv'
  OBVIOUS
<1>1. ASSUME NEW w \in Workers, AnswersTaken(w) \/ PollReady(w) \/ Parsed(w) PROVE OrderInv'
  <2>0. TypeOK
    BY DEF EdgeInv
  <2>1. UNCHANGED <<got, sent, newq, writeq, readq, apc, batch, outbox, accepted, sockIn, sockOut, cl>>
    BY <1>1 DEF AnswersTaken, PollReady, Parsed, netVars, applyVars
  <2>2. \A v \in Workers : wpc'[v] # "exited" => wpc[v] # "exited"
    BY <1>1, <2>0 DEF AnswersTaken, PollReady, Parsed, TypeOK
  <2>3. \A d \in Conns : SameBuffers(d) /\ NotNewer(d)
    BY <2>1, <2>2, ConnsAreNat DEF SameBuffers, NotNewer, Fresh, Served
  <2>4. \A d \in Conns : Ordered(d)'
    BY <2>1, <2>3, OrderKept DEF OrderInv
  <2> QED BY <2>1, <2>4, OrderPointwise
<1>2. ASSUME NEW w \in Workers, Worker(w) PROVE OrderInv'
  BY <1>1, <1>2, OrderTakeClient, OrderTakeAnswer, OrderInLoop, OrderParse, OrderAtEnd DEF Worker
<1>3. CASE Outside /\ ~Connect
  BY <1>3, OrderByClients DEF Outside
<1>4. CASE Apply \/ Connect \/ Shutdown \/ UNCHANGED vars
  BY <1>4, OrderByApply
<1> QED BY <1>2, <1>3, <1>4 DEF Next

LEMMA OrderInvInit == Init => OrderInv
<1> SUFFICES ASSUME Init PROVE OrderInv
  OBVIOUS
<1>1. /\ \A w \in Workers : newq[w] = <<>> /\ writeq[w] = <<>>
      /\ outbox = <<>> /\ batch = <<>> /\ readq = <<>>
  BY DEF Init
<1>2. HandedOver /\ Routed
  BY <1>1 DEF HandedOver, Routed
<1>3. ASSUME NEW c \in Conns PROVE Ordered(c)
  <2>1. /\ cl[c] = NoClient /\ got[c] = <<>> /\ sockOut[c] = <<>> /\ sockIn[c] = <<>> /\ sent[c] = 0
    BY DEF Init
  <2>2. cl[c].wbuf = <<>> /\ cl[c].here = FALSE
    BY <2>1 DEF NoClient
  <2>3. Numbered(c)
    BY <2>1, <2>2 DEF Numbered, Counted
  <2>4. Nowhere(c)
    BY <1>1 DEF Nowhere, Absent
  <2>5. Untouched(c)
    BY <2>1, <2>4 DEF Untouched
  <2> QED BY <2>2, <2>3, <2>5 DEF Ordered, Served
<1> QED BY <1>1, <1>2, <1>3 DEF OrderInv

(* io_thread_worker.rs, server.rs: every connection reads the answers to    *)
(* its own requests, each once, in the order sent and with none left out,   *)
(* for every number of workers, connections and frames and all capacities,  *)
(* also while clients hang up and the server stops.  The two hypotheses are *)
(* what the code needs: fewer connections than the slot field of RingItem   *)
(* tells apart, and no oversized TCP frame, whose error the worker writes   *)
(* past the answers that are still on their way.                            *)
THEOREM AnswersKeepOrder ==
  ASSUME MaxConn <= SlotWrap, "big" \notin Kinds
  PROVE  Spec => []AnswersInOrder
<1>1. EdgeInv /\ OrderInv => AnswersInOrder
  <2> SUFFICES ASSUME EdgeInv, OrderInv, NEW c \in Conns
               PROVE  /\ Len(Stream(c)) <= sent[c]
                      /\ \A i \in 1 .. Len(Stream(c)) : Stream(c)[i][1] = i
    BY DEF AnswersInOrder
  <2>1. /\ got[c] \in Seq(Answers) /\ sockOut[c] \in Seq(Answers) /\ cl[c].wbuf \in Seq(Answers)
        /\ sent[c] \in Nat
    BY ConnTypes DEF EdgeInv
  <2>2. Counted(got[c], sockOut[c], cl[c].wbuf, sent[c])
    BY DEF OrderInv, Ordered, Numbered
  <2> QED BY <2>1, <2>2, CountedStream DEF Stream
<1> QED BY <1>1, EdgeInvInit, EdgeInvNext, OrderInvInit, OrderInvNext, PTL DEF Spec
=============================================================================
