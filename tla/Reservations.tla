---------------------------- MODULE Reservations ----------------------------
(***************************************************************************)
(* ReservationsService and its timers against the sessions that use a      *)
(* reservation, walk-in drivers and the charge point's notifications, on   *)
(* OCPP connectors.                                                        *)
(*                                                                         *)
(* Outside create() and the sessions' transactions the code reads a row,   *)
(* awaits and writes by id what it decided from the read.  calls holds the *)
(* statements that are still to come, one step each.  A pass of a timer    *)
(* lists its reservations in one step and then goes through them one by    *)
(* one, while everything else moves.                                       *)
(*                                                                         *)
(* A reservation stands for its driver too: no one else may name it.  A    *)
(* session is reduced to what reservations see of it, and its own life is  *)
(* OcppSessions' subject: "ACTIVE" is ACTIVE or PAUSED, under the unique   *)
(* index, and "CHARGING_COMPLETE" that or IDLE, outside it.  A connector   *)
(* that is "CHARGING" may be SUSPENDED too.                                *)
(***************************************************************************)
EXTENDS Integers, FiniteSets, StatusRules

CONSTANTS
  Connectors,     \* the connectors of one station
  Reservations,   \* reservation identifiers
  Sessions,       \* session identifiers
  NoConnector,    \* a reservation of the station at large
  NoReservation,  \* a walk-in
  MinLength,      \* the shortest window
  Grace,          \* graceMinutes
  Early,          \* earlyMinutes
  MaxNow,         \* bound: the clock stops here, after every window
  MaxRows,        \* bound: reservations, sessions and writes to come to a session together
  MaxCalls,       \* bound: what a driver, the charge point or a read begins waits on so much
  Reported        \* the connector statuses the charge point may notify

ASSUME NamesAssumption == NoConnector \notin Connectors /\ NoReservation \notin Reservations
ASSUME TimesAssumption ==
  /\ MinLength \in Nat \ {0} /\ Grace \in Nat /\ Early \in Nat
  /\ MaxNow \in Nat /\ MaxRows \in Nat /\ MaxCalls \in Nat
ASSUME ReportedAssumption == Reported \subseteq {"AVAILABLE", "UNAVAILABLE", "PREPARING", "FINISHING"}

VARIABLES
  now,        \* the clock
  booking,    \* booking[r]: the connector and the window of r
  status,     \* status[r]: reservations.status, "NONE" before the row exists
  connector,  \* connector[c]: connectors.status
  session,    \* session[s]: charging_sessions.status, "CHECKED" between start()'s checks
              \* and its transaction
  at,         \* at[s]: the connector of s
  under,      \* under[s]: charging_sessions.reservation_id
  charged,    \* history: the sessions the equipment started
  ended,      \* history: the sessions that were settled or timed out
  calls,      \* statements still to come
  pending,    \* writes to a session, decided from an earlier read, still to come
  reports     \* notifications, with what each is still to do

rowVars     == <<booking, status>>
placeVars   == <<at, under>>
fateVars    == <<charged, ended>>
sessionVars == <<session, placeVars, fateVars, pending>>
vars == <<now, rowVars, connector, sessionVars, calls, reports>>

----------------------------------------------------------------------------
(* Vocabulary *)

LIVE_RESERVATION  == {"CONFIRMED", "ACTIVE"}   \* nothing in the code writes PENDING
ReservationStatus == LIVE_RESERVATION \union {"COMPLETED", "CANCELLED", "NO_SHOW"}

NoBooking == [con |-> NoConnector, start |-> 0, end |-> 0]
Booking   == [con : Connectors \union {NoConnector}, start : Nat, end : Nat]

\* Who closes a reservation that was not used, and what it then is.
Closers == {"driver", "timer"}

Closed(by) == IF by = "driver" THEN "CANCELLED" ELSE "NO_SHOW"

Call == [by : {"driver", "timer", "session"},
         op : {"create", "insert", "due", "reserve", "close", "look", "free", "begin", "complete"},
         r  : Reservations]

On(by, op, r) == [by |-> by, op |-> op, r |-> r]

\* "start" is the rest of start(), "hold" pause() or resume(), "over" the end of the charge
\* or of the driver's patience, "reap" the reaper.
Write == [op : {"start", "hold", "over", "reap"}, s : Sessions]

To(op, s) == [op |-> op, s |-> s]

Notice == [c : Connectors, st : ConnectorStatus, due : {"connector", "session"}]

Add(k)        == calls' = calls \union {k}
Done(k)       == calls' = calls \ {k}
Become(k, k2) == calls' = (calls \ {k}) \union {k2}

Starting == {s \in Sessions : session[s] \in {"CHECKED", "CONFLICT"}}
Preparing == {k \in pending : k.op = "start" /\ session[k.s] = "PREPARING"}
InFlight(mine) == Cardinality(calls \ mine) + Cardinality(reports)
                  + Cardinality(Starting) + Cardinality(Preparing)
Room     == InFlight({}) < MaxCalls
Rows     == Cardinality({r \in Reservations : booking[r] # NoBooking})
            + Cardinality({s \in Sessions : session[s] # "NONE"})
            + Cardinality(pending)

Occupying == {"PREPARING", "ACTIVE", "CHARGING_COMPLETE"}
Indexed   == {"PREPARING", "ACTIVE"}
Energised == {"ACTIVE", "CHARGING_COMPLETE"}

\* The database refuses (P2002) a second indexed session on a connector.
IndexAllows(s) == \A t \in Sessions \ {s} : at[t] = at[s] => session[t] \notin Indexed

Charging(c) == \E s \in charged \ ended : at[s] = c

Overlap(p, q) == booking[p].start < booking[q].end /\ booking[q].start < booking[p].end
SameConnector(p, q) == booking[p].con # NoConnector /\ booking[p].con = booking[q].con

\* The window in which start() accepts r, and the one in which the connector is kept for it.
InWindow(r) == booking[r].start - Early <= now /\ now <= booking[r].start + Grace
Due(r)      == booking[r].start <= now /\ now < booking[r].end
GraceOver(r) == booking[r].start + Grace <= now

----------------------------------------------------------------------------
(* create(): the checks, then a transaction that locks the connector's row *)

Request(r, c, from, to) ==
  /\ Rows < MaxRows
  /\ InFlight({k \in calls : k.op \in {"create", "insert"}}) < MaxCalls
  /\ booking[r] = NoBooking
  /\ from >= now /\ to - from >= MinLength /\ to <= MaxNow
  /\ c # NoConnector => connector[c] # "FAULTED"
  /\ booking' = [booking EXCEPT ![r] = [con |-> c, start |-> from, end |-> to]]
  /\ Add(On("driver", "create", r))
  /\ UNCHANGED <<now, status, connector, sessionVars, reports>>

\* SELECT ... FOR UPDATE: held from the look for a clash until the insert commits.  Other
\* writers of the row wait too; they touch nothing this transaction reads or writes.
RowLocked(c) ==
  /\ c # NoConnector
  /\ \E r \in Reservations : On("driver", "insert", r) \in calls /\ booking[r].con = c

\* Mutant: a reservation a session is using is no obstacle.
ClashUnused(r) == \E q \in Reservations :
  status[q] = "CONFIRMED" /\ SameConnector(q, r) /\ Overlap(q, r)

Clash(r) == \E q \in Reservations :
  status[q] \in LIVE_RESERVATION /\ SameConnector(q, r) /\ Overlap(q, r)

CreateRefused(r) ==
  /\ On("driver", "create", r) \in calls
  /\ ~RowLocked(booking[r].con)
  /\ Clash(r)
  /\ booking' = [booking EXCEPT ![r] = NoBooking]
  /\ Done(On("driver", "create", r))
  /\ UNCHANGED <<now, status, connector, sessionVars, reports>>

\* Mutant: no row lock, only the look for a clash.
CreateCheckUnlocked(r) ==
  /\ On("driver", "create", r) \in calls
  /\ ~Clash(r)
  /\ Become(On("driver", "create", r), On("driver", "insert", r))
  /\ UNCHANGED <<now, rowVars, connector, sessionVars, reports>>

CreateCheck(r) ==
  /\ On("driver", "create", r) \in calls
  /\ ~RowLocked(booking[r].con)
  /\ ~Clash(r)
  /\ Become(On("driver", "create", r), On("driver", "insert", r))
  /\ UNCHANGED <<now, rowVars, connector, sessionVars, reports>>

CreateInsert(r) ==
  /\ On("driver", "insert", r) \in calls
  /\ status' = [status EXCEPT ![r] = "CONFIRMED"]
  /\ Done(On("driver", "insert", r))
  /\ UNCHANGED <<now, booking, connector, sessionVars, reports>>

----------------------------------------------------------------------------
(* cancel() and expireNoShow(): write the status by id, look at the connector, *)
(* free it if it was RESERVED                                                  *)

CancelRead(r) ==
  /\ Room
  /\ status[r] \in LIVE_RESERVATION
  /\ Add(On("driver", "close", r))
  /\ UNCHANGED <<now, rowVars, connector, sessionVars, reports>>

\* A pass ends before the next tick of the timer.
NoShowPass ==
  /\ \A k \in calls : k.op \in {"close", "look", "free"} => k.by = "driver"
  /\ LET stale == {r \in Reservations : status[r] = "CONFIRMED" /\ GraceOver(r)} IN
     /\ stale # {}
     /\ calls' = calls \union {On("timer", "close", r) : r \in stale}
  /\ UNCHANGED <<now, rowVars, connector, sessionVars, reports>>

\* The timer is done with one reservation before it takes the next.
Close(by, r) ==
  /\ On(by, "close", r) \in calls
  /\ by = "timer" => \A k \in calls : k.op \in {"look", "free"} => k.by = "driver"
  /\ status' = [status EXCEPT ![r] = Closed(by)]
  /\ IF booking[r].con = NoConnector
     THEN Done(On(by, "close", r))
     ELSE Become(On(by, "close", r), On(by, "look", r))
  /\ UNCHANGED <<now, booking, connector, sessionVars, reports>>

Look(by, r) ==
  /\ On(by, "look", r) \in calls
  /\ IF connector[booking[r].con] = "RESERVED"
     THEN Become(On(by, "look", r), On(by, "free", r))
     ELSE Done(On(by, "look", r))
  /\ UNCHANGED <<now, rowVars, connector, sessionVars, reports>>

Free(by, r) ==
  /\ On(by, "free", r) \in calls
  /\ connector' = [connector EXCEPT ![booking[r].con] = "AVAILABLE"]
  /\ Done(On(by, "free", r))
  /\ UNCHANGED <<now, rowVars, sessionVars, reports>>

----------------------------------------------------------------------------
(* activateDue(): the connectors of the reservations that are due *)

ActivatePass ==
  /\ \A k \in calls : k.op \notin {"due", "reserve"}
  /\ LET due == {r \in Reservations : /\ status[r] = "CONFIRMED" /\ Due(r)
                                      /\ booking[r].con # NoConnector} IN
     /\ due # {}
     /\ calls' = calls \union {On("timer", "due", r) : r \in due}
  /\ UNCHANGED <<now, rowVars, connector, sessionVars, reports>>

ActivateLook(r) ==
  /\ On("timer", "due", r) \in calls
  /\ \A k \in calls : k.op # "reserve"
  /\ IF connector[booking[r].con] = "AVAILABLE"
     THEN Become(On("timer", "due", r), On("timer", "reserve", r))
     ELSE Done(On("timer", "due", r))
  /\ UNCHANGED <<now, rowVars, connector, sessionVars, reports>>

\* Mutant: the reservation is taken for active when its time has come.
ActivateReserveMarks(r) ==
  /\ On("timer", "reserve", r) \in calls
  /\ connector' = [connector EXCEPT ![booking[r].con] = "RESERVED"]
  /\ status' = [status EXCEPT ![r] = "ACTIVE"]
  /\ Done(On("timer", "reserve", r))
  /\ UNCHANGED <<now, booking, sessionVars, reports>>

ActivateReserve(r) ==
  /\ On("timer", "reserve", r) \in calls
  /\ connector' = [connector EXCEPT ![booking[r].con] = "RESERVED"]
  /\ Done(On("timer", "reserve", r))
  /\ UNCHANGED <<now, rowVars, sessionVars, reports>>

----------------------------------------------------------------------------
(* Sessions *)

\* start()'s reads: a reservation must be the driver's, usable, for this connector or for
\* the station, and in its window.
StartCheck(s, c, r) ==
  /\ Room /\ Rows < MaxRows
  /\ session[s] = "NONE"
  /\ r # NoReservation => /\ status[r] \in {"CONFIRMED", "ACTIVE"}
                          /\ booking[r].con \in {NoConnector, c}
                          /\ InWindow(r)
  /\ session' = [session EXCEPT ![s] = "CHECKED"]
  /\ at' = [at EXCEPT ![s] = c]
  /\ under' = [under EXCEPT ![s] = r]
  /\ UNCHANGED <<now, rowVars, connector, fateVars, pending, calls, reports>>

Startable(s) ==
  connector[at[s]] \in (IF under[s] = NoReservation THEN {"AVAILABLE"} ELSE {"AVAILABLE", "RESERVED"})

\* Mutant: a session that is still preparing does not count.
OccupiedByActive(s) == \E t \in Sessions : session[t] = "ACTIVE" /\ at[t] = at[s]

Occupied(s) == \E t \in Sessions : session[t] \in Occupying /\ at[t] = at[s]

Forget(s) ==
  /\ session' = [session EXCEPT ![s] = "NONE"]
  /\ at' = [at EXCEPT ![s] = NoConnector]
  /\ under' = [under EXCEPT ![s] = NoReservation]

StartRefused(s) ==
  /\ session[s] = "CHECKED"
  /\ ~RowLocked(at[s])
  /\ ~Startable(s)
  /\ Forget(s)
  /\ UNCHANGED <<now, rowVars, connector, fateVars, pending, calls, reports>>

\* The connector's row let the driver in but a session occupies it: the transaction is
\* rolled back, and the catch block goes on to release the connector.
StartConflict(s) ==
  /\ session[s] = "CHECKED"
  /\ ~RowLocked(at[s])
  /\ Startable(s) /\ Occupied(s)
  /\ session' = [session EXCEPT ![s] = "CONFLICT"]
  /\ UNCHANGED <<now, rowVars, connector, placeVars, fateVars, pending, calls, reports>>

Unprepared(c) ==
  IF connector[c] = "PREPARING" THEN [connector EXCEPT ![c] = "AVAILABLE"] ELSE connector

StartConflictRelease(s) ==
  /\ session[s] = "CONFLICT"
  /\ connector' = Unprepared(at[s])
  /\ Forget(s)
  /\ UNCHANGED <<now, rowVars, fateVars, pending, calls, reports>>

StartLock(s) ==
  /\ session[s] = "CHECKED"
  /\ ~RowLocked(at[s])
  /\ Startable(s) /\ ~Occupied(s)
  /\ session' = [session EXCEPT ![s] = "PREPARING"]
  /\ connector' = [connector EXCEPT ![at[s]] = "PREPARING"]
  /\ pending' = pending \union {To("start", s)}
  /\ UNCHANGED <<now, rowVars, placeVars, fateVars, calls, reports>>

\* The charge point accepted the RemoteStart: start() leaves the rest to the equipment.
StartReturns(s) ==
  /\ To("start", s) \in pending
  /\ pending' = pending \ {To("start", s)}
  /\ UNCHANGED <<now, rowVars, connector, session, placeVars, fateVars, calls, reports>>

\* rollbackFailedStart reads the session again; the connector it frees may be another's by now.
RollbackFailedStart(s) ==
  /\ To("start", s) \in pending
  /\ session' = [session EXCEPT ![s] = IF @ = "PREPARING" THEN "FAILED" ELSE @]
  /\ connector' = Unprepared(at[s])
  /\ pending' = pending \ {To("start", s)}
  /\ UNCHANGED <<now, rowVars, placeVars, fateVars, calls, reports>>

\* The equipment's StartTransaction; the reservation is marked after the transaction.
ConfirmStart(s) ==
  /\ session[s] = "PREPARING"
  /\ session' = [session EXCEPT ![s] = "ACTIVE"]
  /\ charged' = charged \union {s}
  /\ connector' = [connector EXCEPT ![at[s]] = "CHARGING"]
  /\ IF under[s] = NoReservation THEN UNCHANGED calls ELSE Add(On("session", "begin", under[s]))
  /\ UNCHANGED <<now, rowVars, placeVars, ended, pending, reports>>

\* Mutant: the status is written by id.
MarkActiveById(r) ==
  /\ On("session", "begin", r) \in calls
  /\ status' = [status EXCEPT ![r] = "ACTIVE"]
  /\ Done(On("session", "begin", r))
  /\ UNCHANGED <<now, booking, connector, sessionVars, reports>>

MarkActive(r) ==
  /\ On("session", "begin", r) \in calls
  /\ status' = [status EXCEPT ![r] = IF @ \in {"CONFIRMED", "ACTIVE"} THEN "ACTIVE" ELSE @]
  /\ Done(On("session", "begin", r))
  /\ UNCHANGED <<now, booking, connector, sessionVars, reports>>

\* finalizeSessionRecord: the end of the charge, then the reservation.
Finish(s) ==
  /\ session[s] \in Energised
  /\ session' = [session EXCEPT ![s] = "COMPLETED"]
  /\ ended' = ended \union {s}
  /\ connector' = [connector EXCEPT ![at[s]] = "AVAILABLE"]
  /\ IF under[s] = NoReservation THEN UNCHANGED calls ELSE Add(On("session", "complete", under[s]))
  /\ UNCHANGED <<now, rowVars, placeVars, charged, pending, reports>>

MarkCompleted(r) ==
  /\ On("session", "complete", r) \in calls
  /\ status' = [status EXCEPT ![r] = IF @ \in {"CONFIRMED", "ACTIVE"} THEN "COMPLETED" ELSE @]
  /\ Done(On("session", "complete", r))
  /\ UNCHANGED <<now, booking, connector, sessionVars, reports>>

----------------------------------------------------------------------------
(* The handlers that read a session's status and write another one by id     *)
(* later, whatever it is by then: over a session that has ended, or has just *)
(* been started                                                              *)

WriteBegins(op, s) ==
  /\ Room /\ Rows < MaxRows
  /\ pending' = pending \union {To(op, s)}
  /\ UNCHANGED <<now, rowVars, connector, session, placeVars, fateVars, calls, reports>>

\* pause() and resume() before the command to the charge point.
HoldRead(s) == session[s] = "ACTIVE" /\ WriteBegins("hold", s)

HoldWrite(s) ==
  /\ To("hold", s) \in pending
  /\ pending' = pending \ {To("hold", s)}
  /\ IF IndexAllows(s)
     THEN /\ session' = [session EXCEPT ![s] = "ACTIVE"]
          /\ connector' = [connector EXCEPT ![at[s]] = "CHARGING"]
     ELSE UNCHANGED <<session, connector>>
  /\ UNCHANGED <<now, rowVars, placeVars, fateVars, calls, reports>>

\* The timer that makes a complete charge IDLE.
IdleRead(s) == session[s] = "CHARGING_COMPLETE" /\ WriteBegins("over", s)

OverWrite(s) ==
  /\ To("over", s) \in pending
  /\ pending' = pending \ {To("over", s)}
  /\ session' = [session EXCEPT ![s] = "CHARGING_COMPLETE"]
  /\ UNCHANGED <<now, rowVars, connector, placeVars, fateVars, calls, reports>>

\* reconcileOrphanSessions lists sessions a minute old; their start() has ended by then.
ReapRead(s) ==
  /\ session[s] = "PREPARING"
  /\ To("start", s) \notin pending
  /\ WriteBegins("reap", s)

ReapWrite(s) ==
  /\ To("reap", s) \in pending
  /\ pending' = pending \ {To("reap", s)}
  /\ session' = [session EXCEPT ![s] = "FAILED"]
  /\ ended' = ended \union {s}
  /\ connector' = Unprepared(at[s])
  /\ UNCHANGED <<now, rowVars, placeVars, charged, calls, reports>>

----------------------------------------------------------------------------
(* applyConnectorStatus, the clock, and the death of the process *)

\* An Available notification does not take the connector from a live reservation.
Shielded(c, st) ==
  /\ connector[c] = "RESERVED" /\ st = "AVAILABLE"
  /\ \E r \in Reservations : status[r] \in {"CONFIRMED", "ACTIVE"} /\ booking[r].con = c

\* While it charges, the charge point reports the end of the charge (FINISHING, for SUSPENDED too)
\* and none of the other statuses.
ReportRead(c, st) ==
  /\ Room
  /\ st \in Reported
  /\ Charging(c) <=> st = "FINISHING"
  /\ connector[c] # st
  /\ ~Shielded(c, st)
  /\ reports' = reports \union {[c |-> c, st |-> st, due |-> "connector"]}
  /\ UNCHANGED <<now, rowVars, connector, sessionVars, calls>>

ReportWrite(n) ==
  /\ n.due = "connector"
  /\ connector' = [connector EXCEPT ![n.c] = n.st]
  /\ reports' = (reports \ {n}) \union
       (IF n.st = "FINISHING" THEN {[n EXCEPT !.due = "session"]} ELSE {})
  /\ UNCHANGED <<now, rowVars, sessionVars, calls>>

\* The end of a charge looks for an ACTIVE session to complete.
ReportSession(n) ==
  /\ n.due = "session"
  /\ Rows < MaxRows
  /\ reports' = reports \ {n}
  /\ LET found == {s \in Sessions : at[s] = n.c /\ session[s] = "ACTIVE"} IN
       \/ found = {} /\ UNCHANGED pending
       \/ \E s \in found : pending' = pending \union {To("over", s)}
  /\ UNCHANGED <<now, rowVars, connector, session, placeVars, fateVars, calls>>

Tick ==
  /\ now < MaxNow
  /\ now' = now + 1
  /\ UNCHANGED <<rowVars, connector, sessionVars, calls, reports>>

\* What was in flight is gone, and an open transaction is rolled back; rows stay.
Crash ==
  /\ calls' = {} /\ pending' = {} /\ reports' = {}
  /\ booking' = [r \in Reservations |-> IF status[r] = "NONE" THEN NoBooking ELSE booking[r]]
  /\ session' = [s \in Sessions |-> IF s \in Starting THEN "NONE" ELSE session[s]]
  /\ at' = [s \in Sessions |-> IF s \in Starting THEN NoConnector ELSE at[s]]
  /\ under' = [s \in Sessions |-> IF s \in Starting THEN NoReservation ELSE under[s]]
  /\ UNCHANGED <<now, status, connector, fateVars>>

----------------------------------------------------------------------------
(* Specification *)

Init ==
  /\ now = 0
  /\ booking = [r \in Reservations |-> NoBooking]
  /\ status = [r \in Reservations |-> "NONE"]
  /\ connector = [c \in Connectors |-> "AVAILABLE"]
  /\ session = [s \in Sessions |-> "NONE"]
  /\ at = [s \in Sessions |-> NoConnector]
  /\ under = [s \in Sessions |-> NoReservation]
  /\ charged = {} /\ ended = {}
  /\ calls = {} /\ pending = {} /\ reports = {}

CreateStep(r) ==
  \/ \E c \in Connectors \union {NoConnector}, from, to \in 0..MaxNow : Request(r, c, from, to)
  \/ CreateRefused(r) \/ CreateCheck(r) \/ CreateInsert(r)

NoShowStep(r)   == Close("timer", r) \/ Look("timer", r) \/ Free("timer", r)
CancelStep(r)   == CancelRead(r) \/ Close("driver", r) \/ Look("driver", r) \/ Free("driver", r)
ActivateStep(r) == ActivateLook(r) \/ ActivateReserve(r)

SessionStep(s) ==
  \/ \E c \in Connectors, r \in Reservations \union {NoReservation} : StartCheck(s, c, r)
  \/ StartRefused(s) \/ StartConflict(s) \/ StartConflictRelease(s) \/ StartLock(s)
  \/ StartReturns(s) \/ RollbackFailedStart(s) \/ ConfirmStart(s) \/ Finish(s)

WriteStep(s) ==
  HoldRead(s) \/ HoldWrite(s) \/ IdleRead(s) \/ OverWrite(s) \/ ReapRead(s) \/ ReapWrite(s)

Next ==
  \/ \E r \in Reservations : \/ CreateStep(r) \/ NoShowStep(r) \/ CancelStep(r)
                             \/ ActivateStep(r) \/ MarkActive(r) \/ MarkCompleted(r)
  \/ NoShowPass \/ ActivatePass
  \/ \E s \in Sessions : SessionStep(s) \/ WriteStep(s)
  \/ \E c \in Connectors, st \in Reported : ReportRead(c, st)
  \/ \E n \in reports : ReportWrite(n) \/ ReportSession(n)
  \/ Tick \/ Crash

Spec == Init /\ [][Next]_vars

----------------------------------------------------------------------------
(* Properties *)

\* Type invariant.
TypeOK ==
  /\ now \in 0..MaxNow
  /\ booking \in [Reservations -> Booking]
  /\ status \in [Reservations -> ReservationStatus \union {"NONE"}]
  /\ connector \in [Connectors -> ConnectorStatus]
  /\ session \in [Sessions -> {"NONE", "CHECKED", "CONFLICT", "PREPARING", "ACTIVE",
                               "CHARGING_COMPLETE", "COMPLETED", "FAILED"}]
  /\ at \in [Sessions -> Connectors \union {NoConnector}]
  /\ under \in [Sessions -> Reservations \union {NoReservation}]
  /\ charged \subseteq Sessions /\ ended \subseteq Sessions
  /\ calls \subseteq Call
  /\ pending \subseteq Write
  /\ reports \subseteq Notice

\* create() keeps two live reservations of a connector apart, whatever requests overlap and
\* whatever becomes of the reservations afterwards.
NoOverlap ==
  \A p, q \in Reservations :
    p # q /\ status[p] \in LIVE_RESERVATION /\ status[q] \in LIVE_RESERVATION
          /\ SameConnector(p, q) => ~Overlap(p, q)

\* activateDue may write RESERVED over a connector that a start has just taken, and a
\* reservation lets its driver start on a RESERVED connector: still two sessions occupy one
\* connector only if one of them had been settled or timed out before, and a late write by id
\* made it live again.
OneSessionPerConnector ==
  \A s, t \in Sessions :
    s # t /\ session[s] \in Occupying /\ session[t] \in Occupying /\ at[s] = at[t]
      => {s, t} \cap ended # {}

\* A reservation that was cancelled, completed or missed never becomes live again, although
\* the session that names it, the driver and the timer all write its status.
ClosedStaysClosed ==
  [][\A r \in Reservations :
       status[r] \notin LIVE_RESERVATION \union {"NONE"} => status'[r] \notin LIVE_RESERVATION]_vars

\* The station's calendar: see module Calendar.  A request is not in it until its row is, and
\* a session whose end is on record uses no connector in it, even if a late write revives its row.
CalendarOf == INSTANCE Calendar WITH
  slot  <- [r \in Reservations |-> IF status[r] = "NONE" THEN NoBooking ELSE booking[r]],
  live  <- {r \in Reservations : status[r] \in LIVE_RESERVATION},
  using <- [s \in Sessions |-> IF session[s] \in Occupying /\ s \notin ended
                              THEN at[s] ELSE NoConnector]

\* Seen from the drivers, every interleaving of requests, timers, sessions, notifications and
\* crashes is a behaviour of Calendar: a reservation is accepted once and clear of the live ones,
\* keeps the window it was accepted with, closes once and for good, and a connector is not given
\* to a session before the end of the one it serves is on record.
ImplementsCalendar == CalendarOf!Spec

\* ACTIVE and COMPLETED are earned by a session of the reservation that the equipment started,
\* whatever is written over that session later; the timer of the due reservations and a start
\* that fails do not lead there.
UsedMeansCharged ==
  \A r \in Reservations :
    status[r] \in {"ACTIVE", "COMPLETED"} => \E s \in charged : under[s] = r
============================================================================
