----------------------------- MODULE MCPayments -----------------------------
(* Small instances of Payments for TLC. *)
EXTENDS Payments, TLC

\* Workers and events are interchangeable.
Symmetry == Permutations(Workers) \union Permutations(Events)
============================================================================
