-------------------------- MODULE MCRegistryServer --------------------------
(* Health checks are run twice at a time over pages of one agent; polls go *)
(* through a page of two agents one at a time.                              *)
EXTENDS RegistryServer

MCOverlap == [k \in Kinds |-> IF k = "health" THEN 2 ELSE 1]
MCPageSize == [k \in Kinds |-> IF k = "health" THEN 1 ELSE 2]
MCConcurrency == [k \in Kinds |-> 1]
=============================================================================
