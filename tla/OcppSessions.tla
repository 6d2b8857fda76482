---------------------------- MODULE OcppSessions ----------------------------
(***************************************************************************)
(* Charging sessions on one OCPP 1.6 charge point with several connectors: *)
(* SessionsService, the inbound OCPP handlers, the session's billing and   *)
(* the timers that act on sessions, against a charge point that may send   *)
(* any message it is entitled to, at any moment.                           *)
(*                                                                         *)
(* A step is one database transaction, or one statement outside a          *)
(* transaction together with the reads just before it.  Where a handler    *)
(* reads, awaits and writes later what it decided from the read, the read  *)
(* leaves a record in calls (or a stage in start) and the write is a step  *)
(* of its own.  A handler that throws only drops its record: its           *)
(* transaction is rolled back and earlier statements stay.                 *)
(*                                                                         *)
(* Money is abstracted here to the settlement state of each session; the   *)
(* ledger's amounts are WalletLedger's subject.  Sessions are paid from    *)
(* the wallet (paymentKind WALLET or PIX).                                 *)
(***************************************************************************)
EXTENDS Naturals, FiniteSets, StatusRules

CONSTANTS
  Sessions,     \* session identifiers; each also stands for its idTag
  Connectors,   \* the charge point's connectors
  NoSession,    \* marks an unused row of the transaction table
  MaxTx,        \* bound: OCPP transactions the charge point opens
  MaxCalls,     \* bound: handlers in flight at once
  MayFail,      \* bound: whether the socket may drop, the charge point may give up waiting
                \* for an answer, the server process may die, and PostgreSQL may undo one
                \* of two transactions that wait for each other
  Reported      \* connector statuses the charge point may notify

ASSUME SessionsAssumption   == NoSession \notin Sessions
ASSUME BoundsAssumption     == MaxTx \in Nat /\ MaxCalls \in Nat /\ MayFail \in BOOLEAN
ASSUME ReportedAssumption   == Reported \subseteq ConnectorStatus \ {"RESERVED"}

VARIABLES
  at,           \* at[s]: the connector the driver of s asked for
  session,      \* session[s]: charging_sessions.status, "NONE" before the row exists
  connector,    \* connector[c]: connectors.status
  charger,      \* chargers.status
  online,       \* the connection manager holds an open socket
  start,        \* start[s]: how far the start() call of s has come
  sawAvailable, \* start() calls that read the charger AVAILABLE before their transaction
  remote,       \* remote[s]: the RemoteStartTransaction for s, seen by the charge point
  hold,         \* hold[s]: wallet_holds.status
  auth,         \* auth[s]: payment_authorizations.status
  billing,      \* billing[s]: charging_sessions.billing_status
  debited,      \* sessions with the wallet transaction billing-capture-<session>
  receipts,     \* sessions with a receipt
  stopPending,  \* sessions with remoteStopPending
  timedOut,     \* sessions whose stopReason is TIMEOUT
  txOf,         \* txOf[t]: the session of ocpp_transactions row t
  lastTx,       \* the highest ocppTransactionId in use
  stoppedTx,    \* rows with stoppedAt
  opening,      \* StartTransaction handlers that found no open row and have not written theirs
  overlapped,   \* history: sessions for which one began while another was under way
  calls,        \* handlers in flight, between a read and the write it leads to
  notices,      \* the StatusNotification whose remaining writes are still to come
  boot          \* how far a BootNotification has come

sessionVars == <<session, receipts, stopPending, timedOut>>
inboxVars   == <<notices, boot>>
deviceVars  == <<connector, charger, online, inboxVars>>
startVars   == <<start, sawAvailable, remote>>
billVars    == <<hold, auth, billing, debited>>
txRows      == <<txOf, lastTx, stoppedTx>>
txVars      == <<txRows, opening, overlapped>>
vars == <<at, sessionVars, deviceVars, startVars, billVars, txVars, calls>>

----------------------------------------------------------------------------
(* Vocabulary *)

StartStages == {"idle", "checked", "conflict", "created", "authorized", "waiting",
                "failing", "releasing", "done"}
Operations  == {"confirmStart", "confirmStop", "finalize", "stop", "pause", "resume",
                "reap", "complete", "idle"}
Call        == [op : Operations, s : Sessions, seen : ConnectorStatus]
Notice      == [c : Connectors, st : ConnectorStatus, due : {"charger", "session"}]
TxIds       == 1..MaxTx
Opening     == [s : Sessions, no : 0..MaxTx]   \* no: the number it will insert, 0 before the read
HoldStatus    == {"NONE", "OPEN", "CAPTURED", "RELEASED"}
BillingStatus == {"NONE", "AUTHORIZED", "CAPTURED", "RELEASED", "PAYMENT_FAILED"}

\* The statuses under the partial unique index charging_sessions_one_active_per_connector.
IndexedStatuses == {"PENDING", "PREPARING", "ACTIVE", "PAUSED"}

\* Statuses a session has only once equipment delivered energy to it.
EnergisedStatuses == {"ACTIVE", "PAUSED", "CHARGING_COMPLETE", "IDLE", "COMPLETED"}

HasTx(s)      == \E t \in 1..lastTx : txOf[t] = s
HasStopped(s) == \E t \in stoppedTx : txOf[t] = s
OpenTx(s)     == {t \in 1..lastTx : txOf[t] = s /\ t \notin stoppedTx}

Live(s)     == session[s] \in ActiveStatuses
Terminal(s) == session[s] \in TerminalStatuses

\* The database refuses (P2002) a second indexed session on a connector.
IndexAllows(s, status) ==
  status \in IndexedStatuses =>
    \A r \in Sessions \ {s} : at[r] = at[s] => session[r] \notin IndexedStatuses

\* No notification is being handled: the charge point sends them one at a time.
Quiet == notices = {} /\ boot = "none"

\* The charge point sends its next message when the last one has been answered.
Answered ==
  \/ MayFail
  \/ /\ Quiet /\ opening = {}
     /\ \A k \in calls : k.op \notin {"confirmStart", "confirmStop", "finalize", "complete"}

Room == Cardinality(calls) + Cardinality(opening) + (IF Quiet THEN 0 ELSE 1) < MaxCalls

\* A handler goes in flight.  Only pause and resume use the connector they have read.
Begin(op, s) ==
  /\ Room
  /\ LET seen == IF op \in {"pause", "resume"} THEN connector[at[s]] ELSE "AVAILABLE" IN
       calls' = calls \union {[op |-> op, s |-> s, seen |-> seen]}

----------------------------------------------------------------------------
(* syncChargerStatus throws when the derived status is not a legal successor, *)
(* which rolls the caller's transaction back.                                 *)

SyncLegal(conn) == CanMove(ChargerNext, charger, AggregateStatus(conn, charger))
Synced(conn)    == AggregateStatus(conn, charger)

\* What a transaction that ends a start leaves of the connector.
Unprepared(c) ==
  IF connector[c] = "PREPARING" THEN [connector EXCEPT ![c] = "AVAILABLE"] ELSE connector

----------------------------------------------------------------------------
(* start(): check, lock and create, authorize, RemoteStart, roll back *)

\* The reads before the transaction.  Everything else they may refuse (vehicle,
\* maintenance, reservation, minimum balance) leaves no trace.
StartCheck(s) ==
  /\ start[s] = "idle"
  /\ session[s] = "NONE"
  /\ charger \notin {"OFFLINE", "FAULTED"}
  /\ start' = [start EXCEPT ![s] = "checked"]
  /\ sawAvailable' = IF charger = "AVAILABLE" THEN sawAvailable \union {s} ELSE sawAvailable
  /\ UNCHANGED <<at, sessionVars, deviceVars, remote, billVars, txVars, calls>>

\* The conditional updateMany that claims the connector row.
Lockable(c) ==
  /\ connector[c] = "AVAILABLE"
  /\ charger \in {"AVAILABLE", "CHARGING", "SUSPENDED"}

\* Mutant: only the statuses under the unique index count as occupying a connector.
OccupiedIndexedOnly(c) == \E r \in Sessions : at[r] = c /\ session[r] \in IndexedStatuses

Occupied(c) == \E r \in Sessions : at[r] = c /\ Live(r)

StartRefused(s) ==
  /\ start[s] = "checked"
  /\ ~Lockable(at[s])
  /\ start' = [start EXCEPT ![s] = "idle"]
  /\ sawAvailable' = sawAvailable \ {s}
  /\ UNCHANGED <<at, sessionVars, deviceVars, remote, billVars, txVars, calls>>

\* The connector row was free but a session still occupies it: the transaction is
\* rolled back, and the catch block goes on to release the connector.
StartConflict(s) ==
  /\ start[s] = "checked"
  /\ Lockable(at[s]) /\ Occupied(at[s])
  /\ start' = [start EXCEPT ![s] = "conflict"]
  /\ sawAvailable' = sawAvailable \ {s}
  /\ UNCHANGED <<at, sessionVars, deviceVars, remote, billVars, txVars, calls>>

StartConflictRelease(s) ==
  /\ start[s] = "conflict"
  /\ connector' = Unprepared(at[s])
  /\ start' = [start EXCEPT ![s] = "idle"]
  /\ UNCHANGED <<at, sessionVars, charger, online, inboxVars, sawAvailable, remote,
                 billVars, txVars, calls>>

StartCreate(s) ==
  /\ start[s] = "checked"
  /\ Lockable(at[s]) /\ ~Occupied(at[s])
  /\ session' = [session EXCEPT ![s] = "PREPARING"]
  /\ connector' = [connector EXCEPT ![at[s]] = "PREPARING"]
  /\ charger' = IF s \in sawAvailable THEN "PREPARING" ELSE charger
  /\ start' = [start EXCEPT ![s] = "created"]
  /\ sawAvailable' = sawAvailable \ {s}
  /\ UNCHANGED <<at, receipts, stopPending, timedOut, online, inboxVars, remote, billVars,
                 txVars, calls>>

\* authorizeInTx: hold and authorization, or InsufficientBalanceError.
StartAuthorize(s) ==
  /\ start[s] = "created"
  /\ hold' = [hold EXCEPT ![s] = "OPEN"]
  /\ auth' = [auth EXCEPT ![s] = "AUTHORIZED"]
  /\ billing' = [billing EXCEPT ![s] = "AUTHORIZED"]
  /\ UNCHANGED debited
  /\ start' = [start EXCEPT ![s] = "authorized"]
  /\ UNCHANGED <<at, sessionVars, deviceVars, sawAvailable, remote, txVars, calls>>

StartUnfunded(s) ==
  /\ start[s] = "created"
  /\ start' = [start EXCEPT ![s] = "failing"]
  /\ UNCHANGED <<at, sessionVars, deviceVars, sawAvailable, remote, billVars, txVars, calls>>

\* Mutant: the charge point is commanded before the amount is reserved.
SendRemoteStartUnpaid(s) ==
  /\ start[s] \in {"created", "authorized"}
  /\ online
  /\ start' = [start EXCEPT ![s] = "waiting"]
  /\ remote' = [remote EXCEPT ![s] = "sent"]
  /\ UNCHANGED <<at, sessionVars, deviceVars, sawAvailable, billVars, txVars, calls>>

\* The provider throws at once when the charge point has no open socket.
SendRemoteStart(s) ==
  /\ start[s] = "authorized"
  /\ IF online
     THEN /\ start' = [start EXCEPT ![s] = "waiting"]
          /\ remote' = [remote EXCEPT ![s] = "sent"]
     ELSE /\ start' = [start EXCEPT ![s] = "failing"]
          /\ UNCHANGED remote
  /\ UNCHANGED <<at, sessionVars, deviceVars, sawAvailable, billVars, txVars, calls>>

\* Mutant: Accepted is taken for the start of the charge.
RemoteStartReplyActivates(s) ==
  /\ start[s] = "waiting"
  /\ remote[s] = "accepted"
  /\ start' = [start EXCEPT ![s] = "done"]
  /\ session' = [session EXCEPT ![s] = "ACTIVE"]
  /\ UNCHANGED <<at, receipts, stopPending, timedOut, deviceVars, sawAvailable, remote,
                 billVars, txVars, calls>>

\* Accepted leaves the session PREPARING (a deferred outcome); Rejected throws.
RemoteStartReply(s) ==
  /\ start[s] = "waiting"
  /\ \/ remote[s] = "accepted" /\ start' = [start EXCEPT ![s] = "done"]
     \/ remote[s] = "refused"  /\ start' = [start EXCEPT ![s] = "failing"]
  /\ UNCHANGED <<at, sessionVars, deviceVars, sawAvailable, remote, billVars, txVars, calls>>

\* The call's timer fires, whatever became of the request and of its reply.
RemoteStartTimeout(s) ==
  /\ start[s] = "waiting"
  /\ start' = [start EXCEPT ![s] = "failing"]
  /\ UNCHANGED <<at, sessionVars, deviceVars, sawAvailable, remote, billVars, txVars, calls>>

\* rollbackFailedStart begins with the hold, read without a lock.  One that is not OPEN never
\* will be again, so only OPEN is worth remembering.
RollbackRead(s) ==
  /\ start[s] = "failing"
  /\ hold[s] = "OPEN"
  /\ start' = [start EXCEPT ![s] = "releasing"]
  /\ UNCHANGED <<at, sessionVars, deviceVars, sawAvailable, remote, billVars, txVars, calls>>

\* Mutants: the authorization is released whatever its status; it is forgotten.
ReleasedBlindly(s) ==
  /\ hold' = [hold EXCEPT ![s] = IF start[s] = "releasing" THEN "RELEASED" ELSE @]
  /\ auth' = [auth EXCEPT ![s] = IF @ = "NONE" THEN @ ELSE "RELEASED"]
  /\ billing' = [billing EXCEPT ![s] = "RELEASED"]
  /\ UNCHANGED debited

ReleasedHoldOnly(s) ==
  /\ hold' = [hold EXCEPT ![s] = IF start[s] = "releasing" THEN "RELEASED" ELSE @]
  /\ billing' = [billing EXCEPT ![s] = "RELEASED"]
  /\ UNCHANGED <<auth, debited>>

\* releaseInTx, whatever the session's status has become.  A hold seen OPEN is written by id,
\* over a capture committed since; the authorization is read after that.
Released(s) ==
  /\ hold' = [hold EXCEPT ![s] = IF start[s] = "releasing" THEN "RELEASED" ELSE @]
  /\ auth' = [auth EXCEPT ![s] = IF @ = "AUTHORIZED" THEN "RELEASED" ELSE @]
  /\ billing' = [billing EXCEPT ![s] = "RELEASED"]
  /\ UNCHANGED debited

\* The rest of the rollback is ready: the hold has been read.
Restoring(s) == start[s] = "releasing" \/ (start[s] = "failing" /\ hold[s] # "OPEN")

\* Mutant: a failed start fails the session and frees the connector, but not the money.
RollbackWithoutRelease(s) ==
  /\ Restoring(s)
  /\ start' = [start EXCEPT ![s] = "done"]
  /\ LET freed == Unprepared(at[s]) IN
     /\ SyncLegal(freed)
     /\ session' = [session EXCEPT ![s] = IF @ = "PREPARING" THEN "FAILED" ELSE @]
     /\ connector' = freed
     /\ charger' = Synced(freed)
  /\ UNCHANGED <<at, receipts, stopPending, timedOut, online, inboxVars, sawAvailable, remote,
                 billVars, txVars, calls>>

RollbackFailedStart(s) ==
  /\ Restoring(s)
  /\ start' = [start EXCEPT ![s] = "done"]
  /\ LET freed == Unprepared(at[s]) IN
     IF SyncLegal(freed)
     THEN /\ Released(s)
          /\ session' = [session EXCEPT ![s] = IF @ = "PREPARING" THEN "FAILED" ELSE @]
          /\ timedOut' = IF session[s] = "PREPARING" THEN timedOut \ {s} ELSE timedOut
          /\ connector' = freed
          /\ charger' = Synced(freed)
     ELSE UNCHANGED <<billVars, session, timedOut, connector, charger>>
  /\ UNCHANGED <<at, receipts, stopPending, online, inboxVars, sawAvailable, remote,
                 txVars, calls>>

\* The rollback writes the hold and then the session row, finalizeSessionRecord the session row
\* and then the hold: when they wait for each other, PostgreSQL undoes one of them (the other
\* choice is in FinalizeThrows).
Deadlocked(s) ==
  /\ MayFail
  /\ start[s] = "releasing"
  /\ \E k \in calls : k.op = "finalize" /\ k.s = s

RollbackUndone(s) ==
  /\ Deadlocked(s)
  /\ start' = [start EXCEPT ![s] = "done"]
  /\ UNCHANGED <<at, sessionVars, deviceVars, sawAvailable, remote, billVars, txVars, calls>>

----------------------------------------------------------------------------
(* The charge point's transactions *)

\* The charge point decides on a RemoteStartTransaction it received.
AnswerRemoteStart(s) ==
  /\ online
  /\ remote[s] = "sent"
  /\ \E answer \in {"accepted", "refused"} : remote' = [remote EXCEPT ![s] = answer]
  /\ UNCHANGED <<at, sessionVars, deviceVars, start, sawAvailable, billVars, txVars, calls>>

\* Mutant: the look-up of an open row for the idTag is missing.
MayStartTransactionTwice(s) == online /\ Answered /\ remote[s] = "accepted"

\* StartTransaction looks for an open row of the idTag: one makes it a replay, answered at once.
MayStartTransaction(s) ==
  /\ online
  /\ Answered
  /\ remote[s] = "accepted"
  /\ OpenTx(s) = {}

\* Without one it goes on to number and insert its own, and nothing keeps a repeated
\* StartTransaction from looking meanwhile.  Of two that have only looked, the first to read a
\* number might as well have done so before the other looked: the second may wait.
StartTransaction(s) ==
  /\ MayStartTransaction(s)
  /\ [s |-> s, no |-> 0] \notin opening
  /\ lastTx < MaxTx
  /\ Room
  /\ opening' = opening \union {[s |-> s, no |-> 0]}
  /\ overlapped' = IF \E o \in opening : o.s = s THEN overlapped \union {s} ELSE overlapped
  /\ UNCHANGED <<at, sessionVars, deviceVars, startVars, billVars, txRows, calls>>

\* The number is the highest in use plus one.  Two handlers of one session with the same number
\* are one from here on: only one of them can insert.
StartNumber(o) ==
  /\ o.no = 0
  /\ lastTx < MaxTx
  /\ opening' = (opening \ {o}) \union {[o EXCEPT !.no = lastTx + 1]}
  /\ UNCHANGED <<at, sessionVars, deviceVars, startVars, billVars, txRows, overlapped, calls>>

\* The row is written and the session is confirmed after it.  The number is unique: a handler
\* that comes second with it throws (P2002), and the charge point gets no number.
StartRow(o) ==
  /\ o.no # 0
  /\ opening' = opening \ {o}
  /\ IF o.no = lastTx + 1
     THEN /\ lastTx' = o.no
          /\ txOf' = [txOf EXCEPT ![o.no] = o.s]
          /\ calls' = calls \union {[op |-> "confirmStart", s |-> o.s, seen |-> "AVAILABLE"]}
     ELSE UNCHANGED <<lastTx, txOf, calls>>
  /\ UNCHANGED <<at, sessionVars, deviceVars, startVars, billVars, stoppedTx, overlapped>>

\* confirmStartFromEquipment.  An ACTIVE session is left alone; an illegal move throws.
ConfirmStart(k) ==
  /\ k.op = "confirmStart"
  /\ calls' = calls \ {k}
  /\ IF session[k.s] # "ACTIVE" /\ CanMove(SessionNext, session[k.s], "ACTIVE")
          /\ IndexAllows(k.s, "ACTIVE")
     THEN /\ session' = [session EXCEPT ![k.s] = "ACTIVE"]
          /\ connector' = [connector EXCEPT ![at[k.s]] = "CHARGING"]
          /\ charger' = IF charger = "OFFLINE" THEN charger ELSE "CHARGING"
     ELSE UNCHANGED <<session, connector, charger>>
  /\ UNCHANGED <<at, receipts, stopPending, timedOut, online, inboxVars, startVars,
                 billVars, txVars>>

\* StopTransaction: the row is stopped first; a row already stopped is a replay.  The charge
\* point learns the number it stops from the answer to its StartTransaction, or at once from
\* the answer to a repeated one.
StopTransaction(t) ==
  /\ online
  /\ Answered
  /\ t \in 1..lastTx
  /\ t \notin stoppedTx
  /\ stoppedTx' = stoppedTx \union {t}
  /\ Begin("confirmStop", txOf[t])
  /\ UNCHANGED <<at, sessionVars, deviceVars, startVars, billVars, txOf, lastTx, opening,
                 overlapped>>

\* confirmStopFromEquipment up to its first transaction; terminal sessions are left alone.
ConfirmStop(k) ==
  /\ k.op = "confirmStop"
  /\ IF Terminal(k.s)
     THEN calls' = calls \ {k} /\ UNCHANGED stopPending
     ELSE /\ calls' = (calls \ {k}) \union {[k EXCEPT !.op = "finalize"]}
          /\ stopPending' = stopPending \ {k.s}
  /\ UNCHANGED <<at, session, receipts, timedOut, deviceVars, startVars,
                 billVars, txVars>>

\* Mutant: the hold is captured whatever its status.
CapturedBlindly(s) ==
  IF auth[s] = "CAPTURED"
  THEN UNCHANGED billVars
  ELSE /\ hold' = [hold EXCEPT ![s] = IF @ = "NONE" THEN @ ELSE "CAPTURED"]
       /\ auth' = [auth EXCEPT ![s] = IF @ = "NONE" THEN @ ELSE "CAPTURED"]
       /\ billing' = [billing EXCEPT ![s] = "CAPTURED"]
       /\ debited' = IF hold[s] = "NONE" THEN debited ELSE debited \union {s}

\* finalizeInTx: a hold that is not OPEN any more is not captured, and nothing is debited, though
\* the authorization and the session say CAPTURED.  The hold is read without a lock too, but a
\* rollback cannot commit between that read and the write: it writes the session's row, which
\* finalizeSessionRecord wrote first.
Captured(s) ==
  IF auth[s] = "CAPTURED"
  THEN UNCHANGED billVars
  ELSE /\ hold' = [hold EXCEPT ![s] = IF @ = "OPEN" THEN "CAPTURED" ELSE @]
       /\ auth' = [auth EXCEPT ![s] = IF @ = "NONE" THEN @ ELSE "CAPTURED"]
       /\ billing' = [billing EXCEPT ![s] = "CAPTURED"]
       /\ debited' = IF hold[s] = "OPEN" THEN debited \union {s} ELSE debited

\* A failed capture is caught: the session completes with an incident.
CaptureFailed(s) ==
  /\ hold[s] = "OPEN" /\ auth[s] # "CAPTURED"
  /\ billing' = [billing EXCEPT ![s] = "PAYMENT_FAILED"]
  /\ UNCHANGED <<hold, auth, debited>>

\* finalizeSessionRecord: one transaction, or an exception that undoes all of it.  Every
\* connector status may become AVAILABLE; the session's move and the charger's may throw.
FinalizeLegal(s) ==
  /\ CanMove(SessionNext, session[s], "COMPLETED")
  /\ SyncLegal([connector EXCEPT ![at[s]] = "AVAILABLE"])

Finalize(k) ==
  /\ k.op = "finalize"
  /\ FinalizeLegal(k.s)
  /\ LET freed == [connector EXCEPT ![at[k.s]] = "AVAILABLE"] IN
       connector' = freed /\ charger' = Synced(freed)
  /\ session' = [session EXCEPT ![k.s] = "COMPLETED"]
  /\ timedOut' \in {timedOut, timedOut \ {k.s}}  \* an unnamed reason keeps the one on record
  /\ Captured(k.s) \/ CaptureFailed(k.s)
  /\ receipts' = receipts \union {k.s}
  /\ calls' = calls \ {k}
  /\ UNCHANGED <<at, stopPending, online, inboxVars, startVars, txVars>>

FinalizeThrows(k) ==
  /\ k.op = "finalize"
  /\ ~FinalizeLegal(k.s) \/ Deadlocked(k.s)
  /\ calls' = calls \ {k}
  /\ UNCHANGED <<at, sessionVars, deviceVars, startVars, billVars, txVars>>

----------------------------------------------------------------------------
(* Drivers and operators *)

\* stop(): legal sessions only, then RemoteStop for the connector's open transaction.
RequestStop(s) ==
  /\ Live(s)
  /\ CanMove(SessionNext, session[s], "COMPLETED")
  /\ online
  /\ \E t \in 1..lastTx : at[txOf[t]] = at[s] /\ t \notin stoppedTx
  /\ Begin("stop", s)
  /\ UNCHANGED <<at, sessionVars, deviceVars, startVars, billVars, txVars>>

\* Mutant: an accepted RemoteStop is taken for the end of the charge.
StopReplySettles(k) ==
  /\ k.op = "stop"
  /\ calls' = (calls \ {k}) \union {[k EXCEPT !.op = "finalize"]}
  /\ stopPending' = stopPending \union {k.s}
  /\ UNCHANGED <<at, session, receipts, timedOut, deviceVars, startVars, billVars, txVars>>

\* Accepted marks the session and captures nothing; rejected or timed out throws.
StopReply(k) ==
  /\ k.op = "stop"
  /\ calls' = calls \ {k}
  /\ \E accepted \in BOOLEAN :
       stopPending' = IF accepted THEN stopPending \union {k.s} ELSE stopPending
  /\ UNCHANGED <<at, session, receipts, timedOut, deviceVars, startVars,
                 billVars, txVars>>

RequestPause(s) ==
  /\ session[s] = "ACTIVE"
  /\ Begin("pause", s)
  /\ UNCHANGED <<at, sessionVars, deviceVars, startVars, billVars, txVars>>

\* The connector status checked is the one read with the session; the session's is not
\* read again.
PauseApply(k) ==
  /\ k.op = "pause"
  /\ calls' = calls \ {k}
  /\ LET held == [connector EXCEPT ![at[k.s]] = "SUSPENDED"] IN
     IF /\ CanMove(ConnectorNext, k.seen, "SUSPENDED")
        /\ IndexAllows(k.s, "PAUSED")
        /\ SyncLegal(held)
     THEN /\ session' = [session EXCEPT ![k.s] = "PAUSED"]
          /\ connector' = held
          /\ charger' = Synced(held)
     ELSE UNCHANGED <<session, connector, charger>>
  /\ UNCHANGED <<at, receipts, stopPending, timedOut, online, inboxVars, startVars,
                 billVars, txVars>>

RequestResume(s) ==
  /\ session[s] = "PAUSED"
  /\ Begin("resume", s)
  /\ UNCHANGED <<at, sessionVars, deviceVars, startVars, billVars, txVars>>

ResumeApply(k) ==
  /\ k.op = "resume"
  /\ calls' = calls \ {k}
  /\ IF /\ CanMove(ConnectorNext, k.seen, "CHARGING")
        /\ IndexAllows(k.s, "ACTIVE")
        /\ CanMove(ChargerNext, charger, "CHARGING")
     THEN /\ session' = [session EXCEPT ![k.s] = "ACTIVE"]
          /\ connector' = [connector EXCEPT ![at[k.s]] = "CHARGING"]
          /\ charger' = "CHARGING"
     ELSE UNCHANGED <<session, connector, charger>>
  /\ UNCHANGED <<at, receipts, stopPending, timedOut, online, inboxVars, startVars,
                 billVars, txVars>>

----------------------------------------------------------------------------
(* Timers *)

\* reconcileOrphanSessions lists the sessions a minute old that never became ACTIVE.
\* A start() call ends within its ten second command timeout, so theirs has ended.
ReapScan(s) ==
  /\ session[s] = "PREPARING"
  /\ start[s] = "done"
  /\ Begin("reap", s)
  /\ UNCHANGED <<at, sessionVars, deviceVars, startVars, billVars, txVars>>

\* The session's status is not read again, and its hold is not released.
ReapApply(k) ==
  /\ k.op = "reap"
  /\ calls' = calls \ {k}
  /\ LET freed == Unprepared(at[k.s]) IN
     IF SyncLegal(freed)
     THEN /\ session' = [session EXCEPT ![k.s] = "FAILED"]
          /\ timedOut' = timedOut \union {k.s}
          /\ connector' = freed
          /\ charger' = Synced(freed)
     ELSE UNCHANGED <<session, timedOut, connector, charger>>
  /\ UNCHANGED <<at, receipts, stopPending, online, inboxVars, startVars, billVars, txVars>>

IdleScan(s) ==
  /\ session[s] = "CHARGING_COMPLETE"
  /\ Begin("idle", s)
  /\ UNCHANGED <<at, sessionVars, deviceVars, startVars, billVars, txVars>>

IdleApply(k) ==
  /\ k.op = "idle"
  /\ calls' = calls \ {k}
  /\ session' = [session EXCEPT ![k.s] = "IDLE"]
  /\ UNCHANGED <<at, receipts, stopPending, timedOut, deviceVars, startVars,
                 billVars, txVars>>

\* The watchdog closes a silent socket and writes OFFLINE without asking the table.
WatchdogOffline ==
  /\ MayFail
  /\ charger # "OFFLINE"
  /\ charger' = "OFFLINE"
  /\ online' = FALSE
  /\ UNCHANGED <<at, sessionVars, connector, inboxVars, startVars, billVars, txVars, calls>>

----------------------------------------------------------------------------
(* The charge point's other messages, its socket, and the server's crash *)

\* StatusNotification of a connector: equipment is taken at its word.  The handler writes
\* the connector, then the charger, and then looks for an ACTIVE session to complete.
StatusNotification(c, st) ==
  /\ online
  /\ Quiet /\ Answered /\ Room
  /\ connector' = [connector EXCEPT ![c] = st]
  /\ notices' = {[c |-> c, st |-> st, due |-> "charger"]}
  /\ UNCHANGED <<at, sessionVars, charger, online, boot, startVars, billVars, txVars, calls>>

\* The charger's status follows this connector alone.
NoticeCharger(n) ==
  /\ n.due = "charger"
  /\ charger' = NotifiedChargerStatus(n.st)
  /\ notices' = IF n.st \in {"FINISHING", "SUSPENDED"} THEN {[n EXCEPT !.due = "session"]} ELSE {}
  /\ UNCHANGED <<at, sessionVars, connector, online, boot, startVars, billVars, txVars, calls>>

NoticeSession(n) ==
  /\ n.due = "session"
  /\ notices' = {}
  /\ LET ended == {s \in Sessions : at[s] = n.c /\ session[s] = "ACTIVE"} IN
       \/ ended = {} /\ UNCHANGED calls
       \/ \E s \in ended :
            calls' = calls \union {[op |-> "complete", s |-> s, seen |-> "AVAILABLE"]}
  /\ UNCHANGED <<at, sessionVars, connector, charger, online, boot, startVars, billVars, txVars>>

CompleteApply(k) ==
  /\ k.op = "complete"
  /\ calls' = calls \ {k}
  /\ session' = [session EXCEPT ![k.s] = "CHARGING_COMPLETE"]
  /\ UNCHANGED <<at, receipts, stopPending, timedOut, deviceVars, startVars,
                 billVars, txVars>>

\* StatusNotification of connector 0, the charge point as a whole.
ChargerNotification(st) ==
  /\ online
  /\ Answered
  /\ CanMove(ChargerNext, charger, st)
  /\ charger' = st
  /\ UNCHANGED <<at, sessionVars, connector, online, inboxVars, startVars, billVars, txVars, calls>>

\* BootNotification resets a charge point no indexed session is using: the look for one,
\* the charger and the connectors are three steps.
BootFind ==
  /\ online
  /\ Quiet /\ Answered /\ Room
  /\ \A s \in Sessions : session[s] \notin IndexedStatuses
  /\ boot' = "charger"
  /\ UNCHANGED <<at, sessionVars, connector, charger, online, notices, startVars, billVars,
                 txVars, calls>>

BootCharger ==
  /\ boot = "charger"
  /\ boot' = "connectors"
  /\ charger' = IF CanMove(ChargerNext, charger, "AVAILABLE") THEN "AVAILABLE" ELSE charger
  /\ UNCHANGED <<at, sessionVars, connector, online, notices, startVars, billVars, txVars, calls>>

BootConnectors ==
  /\ boot = "connectors"
  /\ boot' = "none"
  /\ connector' = [c \in Connectors |->
       IF connector[c] = "UNAVAILABLE" THEN "AVAILABLE" ELSE connector[c]]
  /\ UNCHANGED <<at, sessionVars, charger, online, notices, startVars, billVars, txVars, calls>>

\* markConnected and markDisconnected leave every status as it is.
SocketChange ==
  /\ MayFail
  /\ online' = ~online
  /\ UNCHANGED <<at, sessionVars, connector, charger, inboxVars, startVars, billVars,
                 txVars, calls>>

\* The server process dies and restarts: what was in memory is gone.
Crash ==
  /\ MayFail
  /\ online' = FALSE
  /\ calls' = {} /\ opening' = {} /\ notices' = {} /\ boot' = "none" /\ sawAvailable' = {}
  /\ start' = [s \in Sessions |-> IF session[s] = "NONE" THEN "idle" ELSE "done"]
  /\ UNCHANGED <<at, sessionVars, connector, charger, remote, billVars, txRows, overlapped>>

----------------------------------------------------------------------------
(* Specification *)

Init ==
  /\ at \in [Sessions -> Connectors]
  /\ session = [s \in Sessions |-> "NONE"]
  /\ connector = [c \in Connectors |-> "AVAILABLE"]
  /\ charger = "AVAILABLE"
  /\ online = TRUE
  /\ start = [s \in Sessions |-> "idle"]
  /\ sawAvailable = {}
  /\ remote = [s \in Sessions |-> "none"]
  /\ hold = [s \in Sessions |-> "NONE"]
  /\ auth = [s \in Sessions |-> "NONE"]
  /\ billing = [s \in Sessions |-> "NONE"]
  /\ debited = {}
  /\ receipts = {} /\ stopPending = {} /\ timedOut = {}
  /\ txOf = [t \in TxIds |-> NoSession]
  /\ lastTx = 0
  /\ stoppedTx = {}
  /\ opening = {} /\ overlapped = {}
  /\ calls = {} /\ notices = {} /\ boot = "none"

StartStep(s) ==
  \/ StartCheck(s) \/ StartRefused(s) \/ StartConflict(s) \/ StartConflictRelease(s)
  \/ StartCreate(s) \/ StartAuthorize(s) \/ StartUnfunded(s) \/ SendRemoteStart(s)
  \/ RemoteStartReply(s) \/ RemoteStartTimeout(s) \/ RollbackRead(s)
  \/ RollbackFailedStart(s) \/ RollbackUndone(s)

RequestStep(s) ==
  \/ RequestStop(s) \/ RequestPause(s) \/ RequestResume(s)

TimerStep(s) == ReapScan(s) \/ IdleScan(s)

CallStep(k) ==
  \/ ConfirmStart(k) \/ ConfirmStop(k) \/ Finalize(k) \/ FinalizeThrows(k)
  \/ StopReply(k) \/ PauseApply(k) \/ ResumeApply(k) \/ ReapApply(k) \/ IdleApply(k)
  \/ CompleteApply(k)

NoticeStep(n) == NoticeCharger(n) \/ NoticeSession(n)

ChargePointStep ==
  \/ \E s \in Sessions : AnswerRemoteStart(s) \/ StartTransaction(s)
  \/ \E o \in opening : StartNumber(o) \/ StartRow(o)
  \/ \E t \in TxIds : StopTransaction(t)
  \/ \E c \in Connectors, st \in Reported : StatusNotification(c, st)
  \/ \E st \in Reported \intersect {"FAULTED", "UNAVAILABLE", "AVAILABLE"} :
       ChargerNotification(st)
  \/ BootFind \/ BootCharger \/ BootConnectors

Next ==
  \/ \E s \in Sessions : StartStep(s) \/ RequestStep(s) \/ TimerStep(s)
  \/ \E k \in calls : CallStep(k)
  \/ \E n \in notices : NoticeStep(n)
  \/ ChargePointStep
  \/ WatchdogOffline
  \/ SocketChange
  \/ Crash

Spec == Init /\ [][Next]_vars

----------------------------------------------------------------------------
(* Properties *)

\* Type invariant.  Transaction numbers are handed out without gaps, and a stop is
\* recorded only on a row that exists.
TypeOK ==
  /\ at \in [Sessions -> Connectors]
  /\ session \in [Sessions -> SessionStatus \union {"NONE"}]
  /\ connector \in [Connectors -> ConnectorStatus]
  /\ charger \in ChargerStatus
  /\ online \in BOOLEAN
  /\ start \in [Sessions -> StartStages]
  /\ sawAvailable \subseteq Sessions
  /\ remote \in [Sessions -> {"none", "sent", "accepted", "refused"}]
  /\ hold \in [Sessions -> HoldStatus]
  /\ auth \in [Sessions -> {"NONE", "AUTHORIZED", "CAPTURED", "RELEASED"}]
  /\ billing \in [Sessions -> BillingStatus]
  /\ debited \subseteq Sessions
  /\ receipts \subseteq Sessions
  /\ stopPending \subseteq Sessions
  /\ timedOut \subseteq Sessions
  /\ lastTx \in 0..MaxTx
  /\ txOf \in [TxIds -> Sessions \union {NoSession}]
  /\ \A t \in TxIds : t <= lastTx => txOf[t] \in Sessions
  /\ stoppedTx \subseteq 1..lastTx
  /\ opening \subseteq Opening
  /\ overlapped \subseteq Sessions
  /\ calls \subseteq Call
  /\ notices \subseteq Notice
  /\ boot \in {"none", "charger", "connectors"}

\* A session counts as charging, or as having charged, only if the charge point opened
\* a transaction for it: neither the driver's request, nor the Accepted answer to
\* RemoteStart, nor any timer makes a session ACTIVE.
EnergyNeedsTransaction ==
  \A s \in Sessions : session[s] \in EnergisedStatuses => HasTx(s)

\* Money is captured, a receipt is issued and a session is COMPLETED only after the
\* charge point stopped a transaction of that session; the driver's stop never settles.
SettlementNeedsStop ==
  \A s \in Sessions :
    session[s] = "COMPLETED" \/ s \in receipts \/ hold[s] = "CAPTURED" => HasStopped(s)

\* The charge point is asked to deliver energy only for a session whose amount has been
\* reserved, and energy is booked only on such a session.
EnergyNeedsAuthorization ==
  \A s \in Sessions : remote[s] # "none" \/ HasTx(s) => auth[s] # "NONE"

\* The wallet's hold and the payment authorization are two rows written by different
\* services; they are open together and closed together.
HoldAgreesWithAuthorization ==
  \A s \in Sessions : hold[s] = "OPEN" <=> auth[s] = "AUTHORIZED"

\* A session that has ended keeps money reserved only in the two ways the code leaves it:
\* the reaper timed it out, or its capture failed.
OpenHoldExplained ==
  \A s \in Sessions :
    Terminal(s) /\ hold[s] = "OPEN" => s \in timedOut \/ billing[s] = "PAYMENT_FAILED"

\* However often a charge point repeats StartTransaction, one after the other, with answers lost
\* and crashes between the row and the confirmation, a session has one open transaction at most.
\* Only handlers that overlap, on a charge point that gave up waiting, can leave two.
OneOpenTransaction ==
  \A s \in Sessions \ overlapped : Cardinality(OpenTx(s)) <= 1

\* Two sessions live on one connector only if one of them was already settled or timed
\* out: the partial unique index covers four of the six live statuses, and the check
\* in start() has to cover the others.
OneUnsettledSession ==
  \A r, s \in Sessions :
    r # s /\ at[r] = at[s] /\ Live(r) /\ Live(s) => {r, s} \cap (receipts \union timedOut) # {}

\* A captured authorization stays captured: the rollback of a start() whose answer came
\* too late finds the session charged, stopped and settled, and gives nothing back.
CaptureIsFinal ==
  [][\A s \in Sessions : auth[s] = "CAPTURED" => auth'[s] = "CAPTURED"]_vars

\* The sessions as charges that are paid for: see module Charge.  Money is taken by the wallet's
\* debit, which lasts: a rollback that read the hold before the capture may write RELEASED over
\* CAPTURED afterwards, and gives nothing back by it.
ChargeOf == INSTANCE Charge WITH
  money   <- [s \in Sessions |-> IF s \in debited THEN "CAPTURED" ELSE hold[s]],
  asked   <- {s \in Sessions : remote[s] # "none"},
  drawing <- {s \in Sessions : OpenTx(s) # {}},
  ended   <- {s \in Sessions : HasStopped(s)},
  settled <- receipts

\* Seen from the driver's money, every interleaving of handlers, timers, messages and crashes is
\* a behaviour of Charge: reserved once and before the charge point is asked, debited at most
\* once, after a delivery ended, and never after it was given back.
ImplementsCharge == ChargeOf!Spec

\* Once the charge point has stopped a session's transaction and no handler is at work,
\* the session has been closed: capture, debit and receipt happen when StopTransaction
\* arrives.
StopSettles ==
  calls = {} => \A s \in Sessions : HasStopped(s) => Terminal(s)
============================================================================
