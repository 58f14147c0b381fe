----------------------------- MODULE MCSampler -----------------------------
(* A small instance of Sampler for TLC.                                     *)
EXTENDS Sampler, TLC

CONSTANTS c1, c2, c3, c4

SymCalls == Permutations({c1, c2, c3, c4})
=============================================================================
