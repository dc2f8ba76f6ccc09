------------------------------- MODULE Powers -------------------------------
(* Powers of two: 2 ^ n, as a function, which proofs can unfold. *)
EXTENDS Naturals

Pow2[n \in Nat] == IF n = 0 THEN 1 ELSE 2 * Pow2[n - 1]
=============================================================================
