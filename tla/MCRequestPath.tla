---------------------------- MODULE MCRequestPath ----------------------------
(***************************************************************************)
(* RequestPath with every request there is, over both transports, two      *)
(* dedupe keys, a reset and a restart.  The keys are compared and stored   *)
(* and nothing else, so they are interchangeable.                          *)
(***************************************************************************)
EXTENDS RequestPath, TLC

KeySymmetry == Permutations(DKeys)

\* No step reads the answer to the request before it, and the invariants read
\* only which push it acknowledged; the action property is checked of every
\* step, new state or not.
WithoutWording == <<wall, boot, state, resets, resp.acked, resp.val>>
=============================================================================
