---------------------------- MODULE MCIdempotency ----------------------------
EXTENDS Idempotency, TLC

Symmetry == Permutations(Call) \cup Permutations(Payload)
=============================================================================
