---------------------------- MODULE StatusRules ----------------------------
(***************************************************************************)
(* The status vocabularies of sessions, connectors and chargers, and the   *)
(* transition tables of packages/domain/src/state that every service       *)
(* consults before it writes a status.  The tables are constants of the    *)
(* code, so they are constant functions here: Table[from] is the set of    *)
(* statuses the domain package lets a row move to.                         *)
(***************************************************************************)

SessionNext ==
  [ PENDING           |-> {"PREPARING", "ACTIVE", "FAILED", "CANCELLED"},
    PREPARING         |-> {"ACTIVE", "FAILED", "CANCELLED"},
    ACTIVE            |-> {"PAUSED", "CHARGING_COMPLETE", "IDLE", "COMPLETED",
                           "FAILED", "CANCELLED"},
    PAUSED            |-> {"ACTIVE", "CHARGING_COMPLETE", "COMPLETED", "FAILED",
                           "CANCELLED"},
    CHARGING_COMPLETE |-> {"IDLE", "COMPLETED", "FAILED", "CANCELLED"},
    IDLE              |-> {"COMPLETED", "FAILED", "CANCELLED"},
    COMPLETED         |-> {},
    FAILED            |-> {},
    CANCELLED         |-> {} ]

ConnectorNext ==
  [ AVAILABLE   |-> {"PREPARING", "UNAVAILABLE", "FAULTED", "RESERVED"},
    PREPARING   |-> {"CHARGING", "AVAILABLE", "FAULTED", "UNAVAILABLE", "RESERVED"},
    CHARGING    |-> {"SUSPENDED", "FINISHING", "FAULTED", "UNAVAILABLE", "AVAILABLE"},
    SUSPENDED   |-> {"CHARGING", "FINISHING", "FAULTED", "UNAVAILABLE", "AVAILABLE"},
    FINISHING   |-> {"AVAILABLE", "FAULTED", "UNAVAILABLE", "RESERVED"},
    UNAVAILABLE |-> {"AVAILABLE", "FAULTED"},
    FAULTED     |-> {"UNAVAILABLE", "AVAILABLE"},
    RESERVED    |-> {"PREPARING", "AVAILABLE", "UNAVAILABLE", "FAULTED"} ]

ChargerNext ==
  [ AVAILABLE   |-> {"PREPARING", "UNAVAILABLE", "FAULTED", "OFFLINE"},
    PREPARING   |-> {"CHARGING", "AVAILABLE", "FAULTED", "OFFLINE", "UNAVAILABLE"},
    CHARGING    |-> {"SUSPENDED", "FINISHING", "FAULTED", "OFFLINE", "UNAVAILABLE",
                     "AVAILABLE"},
    SUSPENDED   |-> {"CHARGING", "FINISHING", "FAULTED", "OFFLINE", "AVAILABLE",
                     "UNAVAILABLE"},
    FINISHING   |-> {"AVAILABLE", "FAULTED", "OFFLINE", "UNAVAILABLE"},
    UNAVAILABLE |-> {"AVAILABLE", "OFFLINE", "FAULTED"},
    FAULTED     |-> {"UNAVAILABLE", "OFFLINE", "AVAILABLE"},
    OFFLINE     |-> {"AVAILABLE", "UNAVAILABLE", "FAULTED"} ]

SessionStatus   == DOMAIN SessionNext
ConnectorStatus == DOMAIN ConnectorNext
ChargerStatus   == DOMAIN ChargerNext

\* canTransition...Status: writing the status a row already has is always allowed.
CanMove(table, from, to) == from = to \/ to \in table[from]

\* isSessionTerminal and isSessionActive.
TerminalStatuses == {"COMPLETED", "FAILED", "CANCELLED"}
ActiveStatuses   == SessionStatus \ TerminalStatuses

(***************************************************************************)
(* syncChargerStatus derives the charger's status from its connectors, in  *)
(* this order of precedence.  conn maps each connector of the charger to   *)
(* its status, current is the charger's own status.                        *)
(***************************************************************************)
AggregateStatus(conn, current) ==
  LET seen == {conn[c] : c \in DOMAIN conn} IN
  IF "CHARGING" \in seen THEN "CHARGING"
  ELSE IF "PREPARING" \in seen THEN "PREPARING"
  ELSE IF "SUSPENDED" \in seen THEN "SUSPENDED"
  ELSE IF "FINISHING" \in seen THEN "FINISHING"
  ELSE IF seen = {"FAULTED"} THEN "FAULTED"
  ELSE IF seen \subseteq {"UNAVAILABLE"} /\ current = "OFFLINE" THEN "OFFLINE"
  ELSE "AVAILABLE"

\* The charger status applyConnectorStatus writes for a connector's notification:
\* it looks at that connector alone.
NotifiedChargerStatus(st) ==
  IF st \in {"FAULTED", "CHARGING", "PREPARING", "SUSPENDED", "FINISHING"}
  THEN st ELSE "AVAILABLE"
============================================================================
