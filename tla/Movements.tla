------------------------------ MODULE Movements ------------------------------
(***************************************************************************)
(* What a driver and the company may rely on who compare payments with the *)
(* wallet: a payment shown as confirmed has its money in the wallet from   *)
(* that moment on; a top-up puts money there only after it was paid at the *)
(* gateway; a refund takes back only what was put there, or returns what a *)
(* session had taken; and each of these moves happens once.                *)
(* Payments is shown to implement it.                                      *)
(***************************************************************************)
EXTENDS Naturals

CONSTANT Payments

VARIABLES
  internal,   \* payments a session took from the wallet; it never changes
  paid,       \* top-ups paid at the gateway
  confirmed,  \* payments shown as confirmed or completed
  credited,   \* payments with walletCredited
  posted      \* posted[<<move, p>>]: the wallet's entries for a move of p

vars == <<internal, paid, confirmed, credited, posted>>

Init ==
  /\ internal \in SUBSET Payments
  /\ confirmed = internal
  /\ paid = {} /\ credited = {}
  /\ posted = [key \in {"credit", "refund-debit", "refund-credit"} \X Payments |-> 0]

Pay(p) ==
  /\ p \notin internal
  /\ paid' = paid \union {p}
  /\ UNCHANGED <<internal, confirmed, credited, posted>>

\* The wallet's entry, which no earlier one may precede.
Enters(move, p) ==
  /\ posted[<<move, p>>] = 0
  /\ posted' = [posted EXCEPT ![<<move, p>>] = 1]

Credit(p) ==
  /\ p \in paid \union internal /\ p \notin credited
  /\ Enters("credit", p)
  /\ credited' = credited \union {p} /\ confirmed' = confirmed \union {p}
  /\ UNCHANGED <<internal, paid>>

\* A status may come back, as that of a credited payment only.
Confirm(p) ==
  /\ p \in credited
  /\ confirmed' = confirmed \union {p}
  /\ UNCHANGED <<internal, paid, credited, posted>>

Close(p) ==
  /\ confirmed' = confirmed \ {p}
  /\ UNCHANGED <<internal, paid, credited, posted>>

\* A refund: of what was credited, or of what a session had taken.
Refund(p) ==
  /\ \/ p \in credited /\ Enters("refund-debit", p)
     \/ p \in internal /\ Enters("refund-credit", p)
  /\ confirmed' \in {confirmed, confirmed \ {p}}
  /\ UNCHANGED <<internal, paid, credited>>

Next == \E p \in Payments : Pay(p) \/ Credit(p) \/ Confirm(p) \/ Close(p) \/ Refund(p)

Spec == Init /\ [][Next]_vars
=============================================================================
