------------------------------- MODULE MCSampling -------------------------------
(* Sampling with two intervals and small factors between the tiers.            *)
EXTENDS Sampling
CONSTANT never

MCIntervals == {1, 2}
=============================================================================
