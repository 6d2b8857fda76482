------------------------------ MODULE Account ------------------------------
(***************************************************************************)
(* What the wallet promises, whatever happens around it: a balance that    *)
(* changes only by posting entries, each key at most once, and never below *)
(* zero.  WalletLedger is shown to implement it.                           *)
(***************************************************************************)
EXTENDS Integers

CONSTANTS
  Opening,   \* the balance before any entry
  Keys       \* idempotency keys of wallet_transactions

VARIABLES
  balance,   \* wallets.balance_cents
  posted     \* the keys posted so far

vars == <<balance, posted>>

Init == balance = Opening /\ posted = {}

\* One entry is posted under a key never used before; its amount may be anything that
\* leaves the balance at or above zero.
Post ==
  \E k \in Keys \ posted :
    /\ posted' = posted \union {k}
    /\ balance' \in Nat

Next == Post

Spec == Init /\ [][Next]_vars
============================================================================
