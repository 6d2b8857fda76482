------------------------- MODULE ConnectionManager -------------------------
(***************************************************************************)
(* The sockets of one charge point: OcppConnectionManager's registry, the  *)
(* upgrade and close handlers of OcppWsServer, the watchdog, and the two   *)
(* rows they keep (chargers.status and one connector's).                   *)
(*                                                                         *)
(* A socket is seen from both ends.  linked[k] says that the charge point  *)
(* still has the connection; socket[k] is the readyState the server sees,  *)
(* which stays OPEN when the network silently drops the link.  A charge    *)
(* point has one link at a time, and while it has one its heartbeats       *)
(* arrive within the watchdog's threshold.                                 *)
(*                                                                         *)
(* The module has no specification of its own: ChargerCommands composes    *)
(* its actions with the commands that travel over these sockets, and       *)
(* Operations with the scheduler that reports on them.                     *)
(***************************************************************************)
EXTENDS Naturals, FiniteSets

CONSTANTS
  Sockets,     \* bound: the connections the charge point opens, one after another
  NoSocket,    \* nothing registered
  MaxBoots,    \* bound: BootNotifications
  MaxFaults    \* bound: how often the link is lost or the server process dies

ASSUME SocketsAssumption == NoSocket \notin Sockets
ASSUME LinkBoundsAssumption == MaxBoots \in Nat /\ MaxFaults \in Nat

VARIABLES
  socket,      \* socket[k]: ws.readyState
  linked,      \* linked[k]: the charge point's end is up
  registered,  \* connections.get(chargerId)
  heard,       \* a message came within the threshold: lastMessageAt and lastSeenAt
  charger,     \* chargers.status, OFFLINE or AVAILABLE
  connector,   \* connectors.status, AVAILABLE or UNAVAILABLE
  sweep,       \* how far a pass of the watchdog has come: sockets first, then rows
  boot,        \* how far the handler of a BootNotification has come
  boots,       \* BootNotifications so far
  faults       \* how often the link was lost or the process died

linkVars == <<socket, linked, registered, heard, charger, connector, sweep, boot, boots, faults>>

----------------------------------------------------------------------------
(* The registry *)

IsLinked == \E k \in Sockets : linked[k]
IsOnline == registered # NoSocket /\ socket[registered] = "OPEN"

\* register(): the previous socket is told to close and replaced.
Registered(k) ==
  /\ socket' = [j \in Sockets |-> IF j = k THEN "OPEN"
                                  ELSE IF j = registered /\ socket[j] = "OPEN" THEN "CLOSING"
                                  ELSE socket[j]]
  /\ registered' = k

\* Mutant: the handler of a closing socket does not look whose entry it removes.
UnregisteredAnyway(k) == registered' = NoSocket

\* unregister(chargerId, ws): the entry of another socket stays.
Unregistered(k) == registered' = IF registered = k THEN NoSocket ELSE registered

----------------------------------------------------------------------------
(* The charge point connects, loses its link, and the server's end closes *)

\* Sockets have no names: a new one is the next that was not used.
Connect(k) ==
  /\ socket[k] = "NONE" /\ ~IsLinked
  /\ k = CHOOSE j \in Sockets : socket[j] = "NONE"
  /\ Registered(k)
  /\ linked' = [linked EXCEPT ![k] = TRUE]
  /\ heard' = TRUE
  /\ UNCHANGED <<charger, connector, sweep, boot, boots, faults>>

LoseLink(k) ==
  /\ linked[k] /\ faults < MaxFaults
  /\ faults' = faults + 1
  /\ linked' = [linked EXCEPT ![k] = FALSE]
  /\ UNCHANGED <<socket, registered, heard, charger, connector, sweep, boot, boots>>

\* The threshold passes without a message.
Silence ==
  /\ heard /\ ~IsLinked /\ boot = "idle"
  /\ heard' = FALSE
  /\ UNCHANGED <<socket, linked, registered, charger, connector, sweep, boot, boots, faults>>

\* ws "close": unregister, then markDisconnected, which only dates lastSeenAt.
SocketClosed(k) ==
  /\ socket[k] \in {"OPEN", "CLOSING"} /\ ~linked[k]
  /\ socket' = [socket EXCEPT ![k] = "CLOSED"]
  /\ Unregistered(k)
  /\ heard' = (heard \/ charger # "OFFLINE")
  /\ UNCHANGED <<linked, charger, connector, sweep, boot, boots, faults>>

----------------------------------------------------------------------------
(* applyBoot: dates the row, looks for a live session, and without one reads *)
(* the charger, writes it AVAILABLE, and frees the connectors                *)

BootReceived(k, busy) ==
  /\ linked[k] /\ boot = "idle" /\ boots < MaxBoots
  /\ boots' = boots + 1
  /\ heard' = TRUE
  /\ boot' = IF busy THEN "idle" ELSE IF charger = "AVAILABLE" THEN "connectors" ELSE "charger"
  /\ UNCHANGED <<socket, linked, registered, charger, connector, sweep, faults>>

BootCharger ==
  /\ boot = "charger"
  /\ charger' = "AVAILABLE"
  /\ boot' = "connectors"
  /\ UNCHANGED <<socket, linked, registered, heard, connector, sweep, boots, faults>>

BootConnectors ==
  /\ boot = "connectors"
  /\ connector' = "AVAILABLE"
  /\ boot' = "idle"
  /\ UNCHANGED <<socket, linked, registered, heard, charger, sweep, boots, faults>>

----------------------------------------------------------------------------
(* checkStale, every 30 s: first the registry's silent socket, then the rows *)
(* of chargers that were not seen and have no socket; each is marked OFFLINE *)
(* by a read and a write.                                                    *)

Silent == registered # NoSocket /\ ~heard

SweepSocket ==
  /\ sweep = "idle" /\ Silent
  /\ socket' = [socket EXCEPT ![registered] = IF @ = "OPEN" THEN "CLOSING" ELSE @]
  /\ registered' = NoSocket
  /\ sweep' = "mark"
  /\ UNCHANGED <<linked, heard, charger, connector, boot, boots, faults>>

\* Mutant: without a silent socket there is nothing to do.
SweepNoSocketStops ==
  /\ sweep = "idle" /\ ~Silent
  /\ UNCHANGED linkVars

SweepNoSocket ==
  /\ sweep = "idle" /\ ~Silent
  /\ sweep' = "rows"
  /\ UNCHANGED <<socket, linked, registered, heard, charger, connector, boot, boots, faults>>

SweepRows ==
  /\ sweep = "rows"
  /\ sweep' = IF charger # "OFFLINE" /\ ~heard THEN "check" ELSE "idle"
  /\ UNCHANGED <<socket, linked, registered, heard, charger, connector, boot, boots, faults>>

SweepCheck ==
  /\ sweep = "check"
  /\ sweep' = IF IsOnline THEN "idle" ELSE "markRow"
  /\ UNCHANGED <<socket, linked, registered, heard, charger, connector, boot, boots, faults>>

Marked == sweep' = IF sweep \in {"mark", "write"} THEN "rows" ELSE "idle"

MarkOfflineRead ==
  /\ sweep \in {"mark", "markRow"}
  /\ IF charger = "OFFLINE" THEN Marked ELSE sweep' = IF sweep = "mark" THEN "write" ELSE "writeRow"
  /\ UNCHANGED <<socket, linked, registered, heard, charger, connector, boot, boots, faults>>

MarkOfflineWrite ==
  /\ sweep \in {"write", "writeRow"}
  /\ charger' = "OFFLINE"
  /\ Marked
  /\ UNCHANGED <<socket, linked, registered, heard, connector, boot, boots, faults>>

SweepStep == \/ SweepSocket \/ SweepNoSocket \/ SweepRows \/ SweepCheck
             \/ MarkOfflineRead \/ MarkOfflineWrite

----------------------------------------------------------------------------

\* The process dies: sockets and handlers are gone, rows stay.
LinkCrash ==
  /\ faults < MaxFaults
  /\ faults' = faults + 1
  /\ socket' = [k \in Sockets |-> IF socket[k] = "NONE" THEN "NONE" ELSE "CLOSED"]
  /\ linked' = [k \in Sockets |-> FALSE]
  /\ registered' = NoSocket
  /\ sweep' = "idle" /\ boot' = "idle"
  /\ UNCHANGED <<heard, charger, connector, boots>>

LinkInit ==
  /\ socket = [k \in Sockets |-> "NONE"]
  /\ linked = [k \in Sockets |-> FALSE]
  /\ registered = NoSocket
  /\ heard = FALSE
  /\ charger = "OFFLINE"
  /\ connector = "AVAILABLE"
  /\ sweep = "idle" /\ boot = "idle"
  /\ boots = 0 /\ faults = 0

LinkTypeOK ==
  /\ socket \in [Sockets -> {"NONE", "OPEN", "CLOSING", "CLOSED"}]
  /\ linked \in [Sockets -> BOOLEAN]
  /\ registered \in Sockets \union {NoSocket}
  /\ heard \in BOOLEAN
  /\ charger \in {"OFFLINE", "AVAILABLE"}
  /\ connector \in {"AVAILABLE", "UNAVAILABLE"}
  /\ sweep \in {"idle", "mark", "write", "rows", "check", "markRow", "writeRow"}
  /\ boot \in {"idle", "charger", "connectors"}
  /\ boots \in 0..MaxBoots
  /\ faults \in 0..MaxFaults

\* A charge point that is connected is reached: its open socket is the registered one, whatever
\* becomes of the sockets it had before (register and unregister).
LinkedIsRegistered ==
  \A k \in Sockets : linked[k] /\ socket[k] = "OPEN" => registered = k
============================================================================
