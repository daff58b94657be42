--------------------------- MODULE SnapshotPromise ---------------------------
(***************************************************************************)
(* What the snapshot task is promised of one attempt at a snapshot, however *)
(* it is carried out: the attempt commits at most one complete file, under *)
(* the LSN it captured, and "ok" is reported only when that file is there. *)
(* The caller truncates both logs up to that LSN on "ok" and on nothing    *)
(* else.  An attempt reported as failed may still have left its file, or   *)
(* leave it a moment later.                                                *)
(***************************************************************************)
EXTENDS Naturals

CONSTANTS
  MaxAttempts,  \* bound on attempts
  Lsns          \* LSNs a snapshot may be taken at

VARIABLES
  attempts,    \* attempts begun
  committed,   \* attempt -> the LSN of the file it committed
  outcome      \* attempt -> what its caller was told

pvars == <<attempts, committed, outcome>>

Init ==
  /\ attempts = 0
  /\ committed = <<>>
  /\ outcome = <<>>

Extended(f, a, v) == [x \in DOMAIN f \cup {a} |-> IF x = a THEN v ELSE f[x]]

\* One attempt at a time.
Begin ==
  /\ attempts < MaxAttempts /\ attempts \in DOMAIN outcome \cup {0}
  /\ attempts' = attempts + 1
  /\ UNCHANGED <<committed, outcome>>

Commit(a, lsn) ==
  /\ a \in 1..attempts /\ a \notin DOMAIN committed
  /\ committed' = Extended(committed, a, lsn)
  /\ UNCHANGED <<attempts, outcome>>

Report(result) ==
  /\ attempts > 0 /\ attempts \notin DOMAIN outcome
  /\ result.kind = "ok" => attempts \in DOMAIN committed /\ committed[attempts] = result.lsn
  /\ outcome' = Extended(outcome, attempts, result)
  /\ UNCHANGED <<attempts, committed>>

Results == {[kind |-> "failed"]} \cup [kind : {"ok"}, lsn : Lsns]

Next ==
  \/ Begin
  \/ \E a \in 1..attempts : \E lsn \in Lsns : Commit(a, lsn)
  \/ \E result \in Results : Report(result)

Spec == Init /\ [][Next]_pvars
=============================================================================
