------------------------------ MODULE Calendar ------------------------------
(***************************************************************************)
(* What a station promises to the drivers who book and use its connectors: *)
(* a booking is accepted once, with a window that no accepted booking of   *)
(* its connector crosses, it keeps that window, and once it is closed it   *)
(* is closed for good; and a connector serves one session at a time.       *)
(* Reservations is shown to implement it.                                  *)
(***************************************************************************)
EXTENDS Integers

CONSTANTS
  Connectors,     \* the connectors of the station
  Reservations,   \* reservation identifiers
  Sessions,       \* session identifiers
  NoConnector,    \* a booking of the station at large, and of a session that uses none
  NoBooking       \* the slot of a reservation not accepted yet

VARIABLES
  slot,    \* slot[r]: the connector and the window of an accepted reservation
  live,    \* the reservations accepted and not closed
  using    \* using[s]: the connector that serves s

vars == <<slot, live, using>>

Init ==
  /\ slot = [r \in Reservations |-> NoBooking]
  /\ live = {}
  /\ using = [s \in Sessions |-> NoConnector]

Crosses(p, q) ==
  p.con # NoConnector /\ p.con = q.con /\ p.start < q.end /\ q.start < p.end

\* A reservation is accepted at most once, clear of those that are live.
Book(r) ==
  /\ slot[r] = NoBooking
  /\ slot' = [slot EXCEPT ![r] = slot'[r]]
  /\ slot'[r].start < slot'[r].end
  /\ \A q \in live : ~Crosses(slot[q], slot'[r])
  /\ live' = live \union {r}
  /\ UNCHANGED using

Close(r) ==
  /\ r \in live
  /\ live' = live \ {r}
  /\ UNCHANGED <<slot, using>>

Take(s, c) ==
  /\ using[s] = NoConnector
  /\ \A t \in Sessions : using[t] # c
  /\ using' = [using EXCEPT ![s] = c]
  /\ UNCHANGED <<slot, live>>

Leave(s) ==
  /\ using' = [using EXCEPT ![s] = NoConnector]
  /\ UNCHANGED <<slot, live>>

Next ==
  \/ \E r \in Reservations : Book(r) \/ Close(r)
  \/ \E s \in Sessions : Leave(s) \/ \E c \in Connectors : Take(s, c)

Spec == Init /\ [][Next]_vars
=============================================================================
