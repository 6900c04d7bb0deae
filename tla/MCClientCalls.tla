---------------------------- MODULE MCClientCalls ----------------------------
EXTENDS ClientCalls, TLC

Symmetry == Permutations(Call)
=============================================================================
