------------------------- MODULE MaintenanceWindows -------------------------
(***************************************************************************)
(* The rows of maintenance_windows for the connector of ConnectionManager, *)
(* and now with respect to each of them.  The scheduler and the operators  *)
(* who write these rows are in Operations.                                 *)
(***************************************************************************)
EXTENDS ConnectionManager

CONSTANT Windows   \* maintenance windows of the connector

VARIABLES
  window,    \* window[w]: maintenance_windows.status, "NONE" without a row
  phase      \* phase[w]: now is before startsAt, between, or after endsAt

\* isResourceBlocked: a window lasts, by its status and by the clock.
Blocked == \E w \in Windows : window[w] = "ACTIVE" /\ phase[w] = "during"

\* A maintenance window takes effect in its time: it is ACTIVE only from its start, COMPLETED only
\* after its end, and the connector is out of service only by a window that has begun, although a
\* tick works from lists that are older than its writes, and cancellations and crashes intervene.
WindowsInTime ==
  /\ \A w \in Windows : /\ window[w] = "ACTIVE" => phase[w] # "before"
                        /\ window[w] = "COMPLETED" => phase[w] = "after"
  /\ connector = "UNAVAILABLE" =>
       \E w \in Windows : phase[w] # "before" /\ window[w] \notin {"NONE", "SCHEDULED"}
=============================================================================
