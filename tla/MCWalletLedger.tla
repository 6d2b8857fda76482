--------------------------- MODULE MCWalletLedger ---------------------------
(* Small instances of WalletLedger for TLC. *)
EXTENDS WalletLedger, TLC

\* Workers, sessions, charges and credits are interchangeable.
Symmetry ==
  Permutations(Workers) \union Permutations(Sessions) \union Permutations(Charges)
  \union Permutations(Credits)
============================================================================
