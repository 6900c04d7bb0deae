---------------------------- MODULE MCTaskRuntime ----------------------------
EXTENDS TaskRuntime, TLC

Symmetry == Permutations(Task) \cup Permutations(Req \ GrpcReq)
=============================================================================
