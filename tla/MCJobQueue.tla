----------------------------- MODULE MCJobQueue -----------------------------
(***************************************************************************)
(* Small instances of JobQueue: two workers, two jobs, one attempt limit.  *)
(***************************************************************************)
EXTENDS JobQueue, TLC

CONSTANTS w1, w2, server, local, name1, name2, k1, k2

\* Deployments: both workers behind one server, or one of them beside it.
OneProcess == [w \in {w1, w2} |-> server]
TwoProcesses == [w \in {w1, w2} |-> IF w = w1 THEN server ELSE local]
DistinctNames == [w \in {w1, w2} |-> IF w = w1 THEN name1 ELSE name2]

\* Idempotency keys are only compared for equality.
KeySymmetry == Permutations(Keys)
=============================================================================
