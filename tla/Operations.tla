----------------------------- MODULE Operations -----------------------------
(***************************************************************************)
(* The scheduler of src/apps/api/src/operations over one charge point and  *)
(* its sockets: the charger's health, its CHARGER_OFFLINE incident, and    *)
(* the maintenance windows of its connector.                               *)
(*                                                                         *)
(* A tick every 30 s awaits refreshAll, detect and the maintenance tick    *)
(* one after the other, each a series of statements.  A tick is assumed to *)
(* end within the 30 s; it takes longer only when it awaits many commands. *)
(* Commands are seen by their outcome; ChargerCommands has the rest.       *)
(*                                                                         *)
(* At most one incident of a kind and charger has an openKey, which is     *)
(* unique.  A row that has lost it is of interest only while it is live.   *)
(***************************************************************************)
EXTENDS MaintenanceWindows

CONSTANTS
  Tick,        \* the scheduler
  MaxHandled   \* bound: how often people take up the incident, resolve it, or close the station

ASSUME OperationsAssumption == Tick \notin Windows /\ MaxHandled \in Nat

VARIABLES
  station,   \* stations.status; ACTIVE stands for all but MAINTENANCE
  health,    \* chargers.healthStatus; OPERATING stands for all but OFFLINE and MAINTENANCE
  keyed,     \* incidents.status of the row with the openKey, or "none"
  stray,     \* a row without the openKey is live
  handled,   \* what people did so far, against MaxHandled
  at,        \* at[x]: what the tick, or the request that creates window x, does next
  seen,      \* the health that follows from what refreshCharger has read so far
  list,      \* windows the tick has listed and not yet handled
  sends      \* sends[x]: the window and the availability of the command x awaits

desk == <<station, stray, handled>>
opsVars == <<desk, health, keyed, window, phase, at, seen, list, sends>>
vars == <<linkVars, opsVars>>

----------------------------------------------------------------------------
(* Vocabulary *)

Live == {"OPEN", "ACKNOWLEDGED"}
Idle == [of |-> "none", to |-> "none"]

Goes(x, to) == at' = [at EXCEPT ![x] = to]

\* Mutant: a charger that was OFFLINE by health counts as offline, whatever its status says now.
HealthKept(offline) ==
  IF station = "MAINTENANCE" THEN "MAINTENANCE"
  ELSE IF offline \/ health = "OFFLINE" THEN "OFFLINE" ELSE "OPERATING"

\* calculateChargerHealth, as far as it tells these three apart: maintenance first, be it of the
\* station or (Blocked) by a window.
Health(offline) ==
  IF station = "MAINTENANCE" THEN "MAINTENANCE" ELSE IF offline THEN "OFFLINE" ELSE "OPERATING"

----------------------------------------------------------------------------
(* The tick: refreshAll *)

Begin ==
  /\ at[Tick] = "idle"
  /\ Goes(Tick, "health")
  /\ UNCHANGED <<linkVars, health, keyed, desk, window, phase, seen, list, sends>>

\* The charger with its station is read first, the windows later.
HealthRead ==
  /\ at[Tick] = "health"
  /\ \E old \in {FALSE, ~heard} :   \* lastMessageAt is also older than 15 minutes
       seen' = Health(old \/ charger = "OFFLINE")
  /\ Goes(Tick, "healthWrite")
  /\ UNCHANGED <<linkVars, health, keyed, desk, window, phase, list, sends>>

HealthWrite ==
  /\ at[Tick] = "healthWrite"
  /\ health' = IF Blocked THEN "MAINTENANCE" ELSE seen
  /\ seen' = "OPERATING"
  /\ Goes(Tick, "stale")
  /\ UNCHANGED <<linkVars, keyed, desk, window, phase, list, sends>>

----------------------------------------------------------------------------
(* The tick: detect() opens an incident for a charger not seen within the   *)
(* threshold, and closes that of one that is not OFFLINE by status or health *)

\* The list, and openOrTouch's look for the key; a row that has it is only dated.
OpenLook ==
  /\ at[Tick] = "stale"
  /\ Goes(Tick, IF ~heard /\ keyed = "none" THEN "create" ELSE "recovered")
  /\ UNCHANGED <<linkVars, health, keyed, desk, window, phase, seen, list, sends>>

OpenCreate ==
  /\ at[Tick] = "create" /\ keyed = "none"
  /\ keyed' = "OPEN"
  /\ Goes(Tick, "recovered")
  /\ UNCHANGED <<linkVars, health, desk, window, phase, seen, list, sends>>

Recovered == charger # "OFFLINE" /\ health # "OFFLINE"

\* The list, and resolveOpen's look for a live row by its key; the write is by id, also to a row
\* that an operator has resolved meanwhile.
ResolveLook ==
  /\ at[Tick] = "recovered"
  /\ Goes(Tick, IF Recovered /\ keyed \in Live THEN "resolve" ELSE "due")
  /\ UNCHANGED <<linkVars, health, keyed, desk, window, phase, seen, list, sends>>

ResolveWrite ==
  /\ at[Tick] = "resolve"
  /\ keyed' = "none"
  /\ UNCHANGED stray \/ (keyed = "none" /\ stray' = FALSE)
  /\ Goes(Tick, "due")
  /\ UNCHANGED <<linkVars, station, health, handled, window, phase, seen, list, sends>>

----------------------------------------------------------------------------
(* Operators and administrators: each request writes by id whatever the     *)
(* status is                                                                *)

Handle == handled < MaxHandled /\ handled' = handled + 1

\* Of the row that has the key, or of one that was closed before or since the operator saw it:
\* that one is live again, without its key.
Acknowledge ==
  /\ Handle
  /\ \/ keyed # "none" /\ keyed' = "ACKNOWLEDGED" /\ UNCHANGED stray
     \/ stray' = TRUE /\ UNCHANGED keyed
  /\ UNCHANGED <<linkVars, station, health, window, phase, at, seen, list, sends>>

\* RESOLVED or IGNORED, and the key is free again; a stray row has none.
Resolve ==
  /\ \/ Handle /\ keyed # "none" /\ keyed' = "none" /\ UNCHANGED stray
     \/ stray /\ stray' = FALSE /\ UNCHANGED <<keyed, handled>>
  /\ UNCHANGED <<linkVars, station, health, window, phase, at, seen, list, sends>>

\* The station's own status, as an administrator sets it.
CloseStation ==
  /\ Handle /\ station = "ACTIVE" /\ station' = "MAINTENANCE"
  /\ UNCHANGED <<linkVars, stray, health, keyed, window, phase, at, seen, list, sends>>

OpenStation ==
  /\ station = "MAINTENANCE" /\ station' = "ACTIVE"
  /\ UNCHANGED <<linkVars, stray, handled, health, keyed, window, phase, at, seen, list, sends>>

----------------------------------------------------------------------------
(* Maintenance windows *)

Sets(x, w, s, a) ==
  /\ window' = [window EXCEPT ![w] = s]
  /\ sends' = [sends EXCEPT ![x] = [of |-> w, to |-> a]]
  /\ Goes(x, "command")

\* create(): a window that has begun, or has even passed, is inserted ACTIVE ...
Create(w) ==
  /\ window[w] = "NONE"
  /\ IF phase[w] = "before"
     THEN /\ window' = [window EXCEPT ![w] = "SCHEDULED"]
          /\ UNCHANGED at
     ELSE /\ window' = [window EXCEPT ![w] = "ACTIVE"]
          /\ Goes(w, "insert")
  /\ UNCHANGED <<linkVars, health, keyed, desk, phase, seen, list, sends>>

\* ... and then activated by the request itself, whatever became of it meanwhile.
CreateActivate(w) ==
  /\ at[w] = "insert"
  /\ Sets(w, w, "ACTIVE", "UNAVAILABLE")
  /\ UNCHANGED <<linkVars, health, keyed, desk, phase, seen, list>>

\* cancel(): by id, whatever the status; it tells the charge point nothing.
Cancel(w) ==
  /\ window[w] \notin {"NONE", "CANCELLED"}
  /\ window' = [window EXCEPT ![w] = "CANCELLED"]
  /\ UNCHANGED <<linkVars, health, keyed, desk, phase, at, seen, list, sends>>

Lists(ws, next) ==
  /\ list' = ws
  /\ Goes(Tick, next)

\* Mutant: a window that has passed while nobody looked is not due.
DueOnlyDuring ==
  /\ at[Tick] = "due"
  /\ Lists({w \in Windows : window[w] = "SCHEDULED" /\ phase[w] = "during"}, "activate")
  /\ UNCHANGED <<linkVars, health, keyed, desk, window, phase, seen, sends>>

DueList ==
  /\ at[Tick] = "due"
  /\ Lists({w \in Windows : window[w] = "SCHEDULED" /\ phase[w] # "before"}, "activate")
  /\ UNCHANGED <<linkVars, health, keyed, desk, window, phase, seen, sends>>

\* Mutant: the windows that are ACTIVE are complete, whether they have passed or not.
EndingAny ==
  /\ at[Tick] = "activate" /\ list = {}
  /\ Lists({w \in Windows : window[w] = "ACTIVE"}, "complete")
  /\ UNCHANGED <<linkVars, health, keyed, desk, window, phase, seen, sends>>

EndingList ==
  /\ at[Tick] = "activate" /\ list = {}
  /\ Lists({w \in Windows : window[w] = "ACTIVE" /\ phase[w] = "after"}, "complete")
  /\ UNCHANGED <<linkVars, health, keyed, desk, window, phase, seen, sends>>

\* activate() and complete(): the status by id, then the command.
Activate(w) ==
  /\ at[Tick] = "activate" /\ w \in list
  /\ Sets(Tick, w, "ACTIVE", "UNAVAILABLE")
  /\ UNCHANGED <<linkVars, health, keyed, desk, phase, seen, list>>

Complete(w) ==
  /\ at[Tick] = "complete" /\ w \in list
  /\ Sets(Tick, w, "COMPLETED", "AVAILABLE")
  /\ UNCHANGED <<linkVars, health, keyed, desk, phase, seen, list>>

\* The command was answered, or ended in an error that is dropped.
Sent(x) ==
  /\ sends' = [sends EXCEPT ![x] = Idle]
  /\ IF x = Tick
     THEN /\ list' = list \ {sends[x].of}
          /\ Goes(x, IF sends[x].to = "UNAVAILABLE" THEN "activate" ELSE "complete")
     ELSE Goes(x, "idle") /\ UNCHANGED list

CommandAccepted(x) ==
  /\ at[x] = "command" /\ IsOnline /\ linked[registered]
  /\ connector' = sends[x].to
  /\ Sent(x)
  /\ UNCHANGED <<socket, linked, registered, heard, charger, sweep, boot, boots, faults,
                 health, keyed, desk, window, phase, seen>>

CommandFails(x) ==
  /\ at[x] = "command"
  /\ Sent(x)
  /\ UNCHANGED <<linkVars, health, keyed, desk, window, phase, seen>>

Finish ==
  /\ at[Tick] = "complete" /\ list = {}
  /\ Goes(Tick, "idle")
  /\ UNCHANGED <<linkVars, health, keyed, desk, window, phase, seen, list, sends>>

----------------------------------------------------------------------------
(* Time, the link, and crashes *)

Later(w) ==
  /\ phase[w] # "after"
  /\ phase' = [phase EXCEPT ![w] = IF @ = "before" THEN "during" ELSE "after"]
  /\ UNCHANGED <<linkVars, health, keyed, desk, window, at, seen, list, sends>>

BootStep == BootCharger \/ BootConnectors

LinkStep ==
  /\ \/ \E k \in Sockets : \/ Connect(k) \/ LoseLink(k) \/ SocketClosed(k)
                            \/ \E busy \in BOOLEAN : BootReceived(k, busy)
     \/ Silence \/ BootStep \/ SweepStep
  /\ UNCHANGED opsVars

Crash ==
  /\ LinkCrash
  /\ at' = [x \in DOMAIN at |-> "idle"]
  /\ list' = {} /\ sends' = [x \in DOMAIN sends |-> Idle]
  /\ seen' = "OPERATING"
  /\ UNCHANGED <<health, keyed, desk, window, phase>>

----------------------------------------------------------------------------

Init ==
  /\ LinkInit
  /\ station = "ACTIVE" /\ health = "OFFLINE"
  /\ keyed = "none" /\ stray = FALSE /\ handled = 0
  /\ window = [w \in Windows |-> "NONE"] /\ phase = [w \in Windows |-> "before"]
  /\ at = [x \in Windows \union {Tick} |-> "idle"]
  /\ seen = "OPERATING"
  /\ list = {}
  /\ sends = [x \in Windows \union {Tick} |-> Idle]

TickStep ==
  \/ Begin \/ HealthRead \/ HealthWrite
  \/ OpenLook \/ OpenCreate \/ ResolveLook \/ ResolveWrite
  \/ DueList \/ EndingList \/ Finish
  \/ \E w \in Windows : Activate(w) \/ Complete(w)

CommandStep(x) == CommandAccepted(x) \/ CommandFails(x)

Next ==
  \/ TickStep
  \/ \E x \in Windows \union {Tick} : CommandStep(x)
  \/ Acknowledge \/ Resolve \/ CloseStation \/ OpenStation
  \/ \E w \in Windows : Create(w) \/ CreateActivate(w) \/ Cancel(w) \/ Later(w)
  \/ LinkStep \/ Crash

(***************************************************************************)
(* Fairness.  The scheduler's interval fires and its statements and        *)
(* commands return (a command has its own timer), the watchdog and the     *)
(* handler of a boot go on, and time passes.  Nothing is assumed of the    *)
(* charge point, of operators, or of the close event of a socket.          *)
(***************************************************************************)
Fairness ==
  /\ WF_vars(TickStep)
  /\ \A x \in Windows \union {Tick} : WF_vars(CommandStep(x))
  /\ \A w \in Windows : WF_vars(Later(w))
  /\ WF_vars(Silence /\ UNCHANGED opsVars)
  /\ WF_vars(BootStep /\ UNCHANGED opsVars)
  /\ WF_vars(SweepStep /\ UNCHANGED opsVars)

Spec == Init /\ [][Next]_vars /\ Fairness

----------------------------------------------------------------------------
(* Properties *)

\* Type invariant.
TypeOK ==
  /\ LinkTypeOK
  /\ station \in {"ACTIVE", "MAINTENANCE"}
  /\ {health, seen} \subseteq {"OPERATING", "OFFLINE", "MAINTENANCE"}
  /\ keyed \in Live \union {"none"} /\ stray \in BOOLEAN
  /\ handled \in 0..MaxHandled
  /\ window \in [Windows -> {"NONE", "SCHEDULED", "ACTIVE", "COMPLETED", "CANCELLED"}]
  /\ phase \in [Windows -> {"before", "during", "after"}]
  /\ at \in [Windows \union {Tick} -> {"idle", "health", "healthWrite", "stale", "create",
               "recovered", "resolve", "due", "insert", "activate", "complete",
               "command"}]
  /\ list \in SUBSET Windows
  /\ sends \in [Windows \union {Tick} -> [of : Windows \union {"none"},
                                         to : {"none", "AVAILABLE", "UNAVAILABLE"}]]

\* A charge point that is gone for good, at a station that is not itself closed for maintenance,
\* ends up OFFLINE by status and by health, not listed as online, and with an incident that is
\* waiting to be handled, although operators resolve it, maintenance windows hide it, and the
\* process that held its socket dies.
LostIsReported ==
  (<>[](~IsLinked /\ station = "ACTIVE")) =>
    <>[](charger = "OFFLINE" /\ ~IsOnline /\ health = "OFFLINE" /\ keyed \in Live)

\* Once a charge point is back for good and no late markOffline has marked it OFFLINE again, the
\* incident of its absence is closed and its health is no longer OFFLINE, also when an operator
\* acknowledged the incident while it was open.  A row acknowledged after it was closed (stray)
\* is live without its key, and the tick does not close it (resolveOpen looks for the key).
ReturnIsNoticed ==
  (<>[](IsLinked /\ charger # "OFFLINE")) => <>[](keyed = "none" /\ health # "OFFLINE")

\* No window lasts for ever: it ends COMPLETED or CANCELLED and stays so, also when it has passed
\* while the server was down, or a tick revives it after its cancellation.
WindowsEnd ==
  \A w \in Windows : <>[](window[w] \notin {"SCHEDULED", "ACTIVE"})
=============================================================================
