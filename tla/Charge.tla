------------------------------- MODULE Charge -------------------------------
(***************************************************************************)
(* What the handling of sessions promises to the driver who pays: money is *)
(* reserved once, before the charge point is asked for energy; it is taken *)
(* at most once, and only after the charge point said that a delivery has  *)
(* ended; and once taken or given back it does not move again.             *)
(* OcppSessions is shown to implement it.                                  *)
(***************************************************************************)
CONSTANTS
  Sessions   \* what is paid for: one amount for each

VARIABLES
  money,     \* money[s]: the amount reserved for s, "NONE", "OPEN", "CAPTURED" or "RELEASED"
  asked,     \* sessions the charge point has been asked to serve
  drawing,   \* sessions with a delivery under way
  ended,     \* sessions with a delivery that has ended
  settled    \* sessions the driver has a receipt for

vars == <<money, asked, drawing, ended, settled>>

Init ==
  /\ money = [s \in Sessions |-> "NONE"]
  /\ asked = {} /\ drawing = {} /\ ended = {} /\ settled = {}

Reserve(s) ==
  /\ money[s] = "NONE"
  /\ money' = [money EXCEPT ![s] = "OPEN"]
  /\ UNCHANGED <<asked, drawing, ended, settled>>

\* Energy is asked for once, on an amount that is still reserved.
Ask(s) ==
  /\ money[s] = "OPEN" /\ s \notin asked
  /\ asked' = asked \union {s}
  /\ UNCHANGED <<money, drawing, ended, settled>>

\* The equipment delivers only what it was asked for.  An amount may have been given back since:
\* the equipment may answer after the server stopped waiting.
Draw(s) ==
  /\ s \in asked \ drawing
  /\ drawing' = drawing \union {s}
  /\ UNCHANGED <<money, asked, ended, settled>>

\* A delivery may have been written down twice; then its end leaves the other one under way.
EndDraw(s) ==
  /\ s \in drawing
  /\ drawing' \in {drawing, drawing \ {s}}
  /\ ended' = ended \union {s}
  /\ UNCHANGED <<money, asked, settled>>

\* The receipt is issued whether or not the amount could be taken.
Settle(s) ==
  /\ s \in ended
  /\ settled' = settled \union {s}
  /\ money' \in {money, [money EXCEPT ![s] = IF @ = "OPEN" THEN "CAPTURED" ELSE @]}
  /\ UNCHANGED <<asked, drawing, ended>>

GiveBack(s) ==
  /\ money[s] = "OPEN"
  /\ money' = [money EXCEPT ![s] = "RELEASED"]
  /\ UNCHANGED <<asked, drawing, ended, settled>>

Next ==
  \E s \in Sessions :
    \/ Reserve(s) \/ Ask(s) \/ Draw(s) \/ EndDraw(s) \/ Settle(s) \/ GiveBack(s)

Spec == Init /\ [][Next]_vars
=============================================================================
