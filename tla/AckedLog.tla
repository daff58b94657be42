------------------------------ MODULE AckedLog ------------------------------
(***************************************************************************)
(* What the registry log promises its callers, without segments, fsyncs or *)
(* batches: a log of LSNs that grows at its end, loses at most an          *)
(* unacknowledged tail in a crash, and drops a prefix once a snapshot      *)
(* covers it.  An LSN that was acknowledged is never given out again.  All *)
(* of this until a failure damages its files.                              *)
(***************************************************************************)
EXTENDS Naturals

VARIABLES
  log,       \* LSNs of the records a recovery would read
  acked,     \* LSNs whose callers were told "durable"
  covered,   \* LSN up to which a durable snapshot holds everything
  damaged    \* a failure spoiled the log's files; all promises end

lvars == <<log, acked, covered, damaged>>

Init == log = {} /\ acked = {} /\ covered = 0 /\ damaged = FALSE

Append(l) ==
  /\ \A x \in log \cup acked : x < l
  /\ log' = log \cup {l}
  /\ UNCHANGED <<acked, covered>>

Acknowledge(A) ==
  /\ A \subseteq log
  /\ acked' = acked \cup A
  /\ UNCHANGED <<log, covered>>

\* A crash: nothing acknowledged goes, and nothing from the middle.
LoseTail(k) ==
  /\ \A l \in acked : l \in log => l <= k
  /\ log' = {l \in log : l <= k}
  /\ UNCHANGED <<acked, covered>>

Cover(c) ==
  /\ c > covered
  /\ covered' = c
  /\ UNCHANGED <<log, acked>>

Trim(c) ==
  /\ log' = {l \in log : l >= c}
  /\ UNCHANGED <<acked, covered>>

Next ==
  \/ /\ UNCHANGED damaged
     /\ \/ \E l \in log' : Append(l)
        \/ \E A \in SUBSET log : Acknowledge(A)
        \/ \E k \in {0} \cup log : LoseTail(k)
        \/ Cover(covered')
        \/ \E c \in 1..covered : Trim(c)
  \/ damaged' = TRUE

Spec == Init /\ [][Next]_lvars
=============================================================================
