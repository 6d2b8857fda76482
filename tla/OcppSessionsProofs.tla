------------------------- MODULE OcppSessionsProofs -------------------------
(***************************************************************************)
(* Theorems about OcppSessions, for every number of sessions, connectors,  *)
(* transactions and handlers in flight, and for every set of statuses the  *)
(* charge point may report.                                                *)
(***************************************************************************)
EXTENDS OcppSessions, FiniteSetTheorems, TLAPS

----------------------------------------------------------------------------
(* The status tables *)

\* The vocabularies, written out.
LEMMA Vocabularies ==
  /\ SessionStatus = {"PENDING", "PREPARING", "ACTIVE", "PAUSED", "CHARGING_COMPLETE",
                      "IDLE", "COMPLETED", "FAILED", "CANCELLED"}
  /\ ConnectorStatus = {"AVAILABLE", "PREPARING", "CHARGING", "SUSPENDED", "FINISHING",
                        "UNAVAILABLE", "FAULTED", "RESERVED"}
  /\ ChargerStatus = {"AVAILABLE", "PREPARING", "CHARGING", "SUSPENDED", "FINISHING",
                      "UNAVAILABLE", "FAULTED", "OFFLINE"}
  BY DEF SessionStatus, SessionNext, ConnectorStatus, ConnectorNext, ChargerStatus, ChargerNext

\* The charger status derived from the connectors, and the one taken from a single
\* notification, are statuses of the table.
LEMMA DerivedStatuses ==
  ASSUME NEW conn, NEW current, NEW st
  PROVE  /\ AggregateStatus(conn, current) \in ChargerStatus
         /\ NotifiedChargerStatus(st) \in ChargerStatus
  BY Vocabularies DEF AggregateStatus, NotifiedChargerStatus

----------------------------------------------------------------------------
(* Type correctness *)

\* What Begin adds is a call.
LEMMA BeginCalls ==
  ASSUME TypeOK, NEW op \in Operations, NEW s \in Sessions, Begin(op, s)
  PROVE  calls' \subseteq Call
  BY Vocabularies DEF TypeOK, Begin, Call

\* Every step of a start() call keeps the types.
LEMMA StartStepType ==
  ASSUME TypeOK, NEW s \in Sessions, StartStep(s)
  PROVE  TypeOK'
<1> USE Vocabularies DEF TypeOK, StartStages, HoldStatus, BillingStatus, sessionVars,
        inboxVars, deviceVars, startVars, billVars, txVars, txRows
<1>1. CASE StartCheck(s) BY <1>1 DEF StartCheck
<1>2. CASE StartRefused(s) BY <1>2 DEF StartRefused
<1>3. CASE StartConflict(s) BY <1>3 DEF StartConflict
<1>4. CASE StartConflictRelease(s) BY <1>4 DEF StartConflictRelease, Unprepared
<1>5. CASE StartCreate(s) BY <1>5 DEF StartCreate
<1>6. CASE StartAuthorize(s) BY <1>6 DEF StartAuthorize
<1>7. CASE StartUnfunded(s) BY <1>7 DEF StartUnfunded
<1>8. CASE SendRemoteStart(s) BY <1>8 DEF SendRemoteStart
<1>9. CASE RemoteStartReply(s) BY <1>9 DEF RemoteStartReply
<1>10. CASE RemoteStartTimeout(s) BY <1>10 DEF RemoteStartTimeout
<1>11. CASE RollbackFailedStart(s)
  <2>1. Unprepared(at[s]) \in [Connectors -> ConnectorStatus] BY DEF Unprepared
  <2>2. Synced(Unprepared(at[s])) \in ChargerStatus BY DerivedStatuses DEF Synced
  <2>3. CASE SyncLegal(Unprepared(at[s])) BY <1>11, <2>1, <2>2, <2>3 DEF RollbackFailedStart, Released
  <2>4. CASE ~SyncLegal(Unprepared(at[s])) BY <1>11, <2>4 DEF RollbackFailedStart
  <2> QED BY <2>3, <2>4
<1>12. CASE RollbackRead(s) BY <1>12 DEF RollbackRead
<1>13. CASE RollbackUndone(s) BY <1>13 DEF RollbackUndone
<1> QED BY <1>1, <1>2, <1>3, <1>4, <1>5, <1>6, <1>7, <1>8, <1>9, <1>10, <1>11, <1>12, <1>13
        DEF StartStep

\* Every request and every scan of a timer keeps the types.
LEMMA RequestStepType ==
  ASSUME TypeOK, NEW s \in Sessions, RequestStep(s) \/ TimerStep(s)
  PROVE  TypeOK'
<1>1. UNCHANGED <<at, sessionVars, deviceVars, startVars, billVars, txVars>>
  BY DEF RequestStep, TimerStep, RequestStop, RequestPause, RequestResume, ReapScan, IdleScan
<1>2. \E op \in Operations : Begin(op, s)
  BY DEF RequestStep, TimerStep, RequestStop, RequestPause, RequestResume, ReapScan, IdleScan,
         Operations
<1>3. calls' \subseteq Call
  BY <1>2, BeginCalls
<1> QED
  BY <1>1, <1>3 DEF TypeOK, sessionVars, inboxVars, deviceVars, startVars, billVars, txVars, txRows

\* Every write of a handler in flight keeps the types.
LEMMA CallStepType ==
  ASSUME TypeOK, NEW k \in calls, CallStep(k)
  PROVE  TypeOK'
<1> k.s \in Sessions /\ k \in Call BY DEF TypeOK, Call
<1>a. calls \ {k} \subseteq Call BY DEF TypeOK
<1> USE <1>a, Vocabularies DEF TypeOK, HoldStatus, BillingStatus, sessionVars, inboxVars,
        deviceVars, startVars, billVars, txVars, txRows
<1>1. CASE ConfirmStart(k) BY <1>1 DEF ConfirmStart
<1>2. CASE ConfirmStop(k)
  <2>1. [k EXCEPT !.op = "finalize"] \in Call BY DEF Call, Operations
  <2> QED BY <1>2, <2>1 DEF ConfirmStop
<1>3. CASE Finalize(k)
  <2>1. connector' \in [Connectors -> ConnectorStatus] /\ charger' \in ChargerStatus
    BY <1>3, DerivedStatuses DEF Finalize, Synced
  <2>2. /\ hold' \in [Sessions -> HoldStatus]
        /\ auth' \in [Sessions -> {"NONE", "AUTHORIZED", "CAPTURED", "RELEASED"}]
        /\ billing' \in [Sessions -> BillingStatus]
        /\ debited' \subseteq Sessions
    BY <1>3 DEF Finalize, Captured, CaptureFailed
  <2>3. timedOut' \subseteq Sessions BY <1>3 DEF Finalize
  <2> QED BY <1>3, <2>1, <2>2, <2>3 DEF Finalize
<1>4. CASE FinalizeThrows(k) BY <1>4 DEF FinalizeThrows
<1>5. CASE StopReply(k) BY <1>5 DEF StopReply
<1>6. CASE PauseApply(k) BY <1>6, DerivedStatuses DEF PauseApply, Synced
<1>7. CASE ResumeApply(k) BY <1>7 DEF ResumeApply
<1>8. CASE ReapApply(k)
  <2>1. Unprepared(at[k.s]) \in [Connectors -> ConnectorStatus] BY DEF Unprepared
  <2>2. Synced(Unprepared(at[k.s])) \in ChargerStatus BY DerivedStatuses DEF Synced
  <2>3. CASE SyncLegal(Unprepared(at[k.s]))
    <3>1. /\ session' = [session EXCEPT ![k.s] = "FAILED"]
          /\ timedOut' = timedOut \union {k.s}
          /\ connector' = Unprepared(at[k.s])
          /\ charger' = Synced(Unprepared(at[k.s]))
      BY <1>8, <2>3 DEF ReapApply
    <3>2. timedOut' \subseteq Sessions BY <3>1
    <3>3. connector' \in [Connectors -> ConnectorStatus] /\ charger' \in ChargerStatus
      BY <2>1, <2>2, <3>1
    <3>4. session' \in [Sessions -> SessionStatus \union {"NONE"}] BY <3>1
    <3> QED BY <1>8, <3>2, <3>3, <3>4 DEF ReapApply
  <2>4. CASE ~SyncLegal(Unprepared(at[k.s])) BY <1>8, <2>4 DEF ReapApply
  <2> QED BY <2>3, <2>4
<1>9. CASE IdleApply(k) BY <1>9 DEF IdleApply
<1>10. CASE CompleteApply(k) BY <1>10 DEF CompleteApply
<1> QED BY <1>1, <1>2, <1>3, <1>4, <1>5, <1>6, <1>7, <1>8, <1>9, <1>10 DEF CallStep

\* Every later write of a StatusNotification keeps the types.
LEMMA NoticeStepType ==
  ASSUME TypeOK, NEW n \in notices, NoticeStep(n)
  PROVE  TypeOK'
<1> n \in Notice BY DEF TypeOK
<1> USE Vocabularies DEF TypeOK, Notice, sessionVars, startVars, billVars, txVars, txRows
<1>1. CASE NoticeCharger(n)
  <2>1. [n EXCEPT !.due = "session"] \in Notice OBVIOUS
  <2> QED BY <1>1, <2>1, DerivedStatuses DEF NoticeCharger
<1>2. CASE NoticeSession(n)
  <2>1. calls' \subseteq Call BY <1>2 DEF NoticeSession, Call, Operations
  <2> QED BY <1>2, <2>1 DEF NoticeSession
<1> QED BY <1>1, <1>2 DEF NoticeStep

\* Every message of the charge point keeps the types.
LEMMA ChargePointStepType ==
  ASSUME TypeOK, ChargePointStep
  PROVE  TypeOK'
<1> USE Vocabularies, ReportedAssumption, BoundsAssumption
    DEF TypeOK, sessionVars, inboxVars, deviceVars, startVars, billVars, txVars, txRows
<1>1. ASSUME NEW s \in Sessions, AnswerRemoteStart(s) PROVE TypeOK'
  BY <1>1 DEF AnswerRemoteStart
<1>2. ASSUME NEW s \in Sessions, StartTransaction(s) PROVE TypeOK'
  BY <1>2 DEF StartTransaction, Opening
<1>7. ASSUME NEW o \in opening, StartNumber(o) PROVE TypeOK'
  <2>1. o \in Opening /\ lastTx + 1 \in 0..MaxTx BY <1>7 DEF StartNumber
  <2>2. [o EXCEPT !.no = lastTx + 1] \in Opening BY <2>1 DEF Opening
  <2> QED BY <1>7, <2>2 DEF StartNumber
<1>8. ASSUME NEW o \in opening, StartRow(o) PROVE TypeOK'
  <2>1. o \in Opening /\ o.s \in Sessions /\ o.no \in 0..MaxTx BY DEF Opening
  <2>2. opening' \subseteq Opening BY <1>8 DEF StartRow
  <2>3. CASE o.no = lastTx + 1
    <3>1. [op |-> "confirmStart", s |-> o.s, seen |-> "AVAILABLE"] \in Call
      BY <2>1 DEF Call, Operations
    <3> QED BY <1>8, <2>1, <2>2, <2>3, <3>1 DEF StartRow, TxIds
  <2>4. CASE o.no # lastTx + 1 BY <1>8, <2>2, <2>4 DEF StartRow
  <2> QED BY <2>3, <2>4
<1>3. ASSUME NEW t \in TxIds, StopTransaction(t) PROVE TypeOK'
  <2>1. txOf[t] \in Sessions BY <1>3 DEF StopTransaction
  <2>2. calls' \subseteq Call BY <1>3, <2>1, BeginCalls DEF StopTransaction, Operations
  <2> QED BY <1>3, <2>2 DEF StopTransaction
<1>4. ASSUME NEW c \in Connectors, NEW st \in Reported, StatusNotification(c, st) PROVE TypeOK'
  BY <1>4 DEF StatusNotification, Notice
<1>5. ASSUME NEW st \in {"FAULTED", "UNAVAILABLE", "AVAILABLE"}, ChargerNotification(st)
      PROVE TypeOK'
  BY <1>5 DEF ChargerNotification
<1>6. CASE BootFind \/ BootCharger \/ BootConnectors
  BY <1>6 DEF BootFind, BootCharger, BootConnectors
<1> QED BY <1>1, <1>2, <1>3, <1>4, <1>5, <1>6, <1>7, <1>8 DEF ChargePointStep

\* The type invariant is inductive.
LEMMA TypeStep == TypeOK /\ [Next]_vars => TypeOK'
<1> SUFFICES ASSUME TypeOK, [Next]_vars PROVE TypeOK' OBVIOUS
<1>1. CASE \E s \in Sessions : StartStep(s) \/ RequestStep(s) \/ TimerStep(s)
  BY <1>1, StartStepType, RequestStepType
<1>2. CASE \E k \in calls : CallStep(k) BY <1>2, CallStepType
<1>3. CASE ChargePointStep \/ \E n \in notices : NoticeStep(n)
  BY <1>3, ChargePointStepType, NoticeStepType
<1>4. CASE WatchdogOffline \/ SocketChange
  BY <1>4, Vocabularies DEF WatchdogOffline, SocketChange, TypeOK, sessionVars, inboxVars,
     startVars, billVars, txVars, txRows
<1>5. CASE Crash
  BY <1>5 DEF Crash, TypeOK, StartStages, sessionVars, billVars, txRows
<1>6. CASE UNCHANGED vars
  BY <1>6 DEF vars, TypeOK, sessionVars, inboxVars, deviceVars, startVars, billVars, txVars, txRows
<1> QED BY <1>1, <1>2, <1>3, <1>4, <1>5, <1>6 DEF Next

\* Type correctness: every variable of the sessions, the devices, the billing and the
\* transaction table keeps its type, transaction numbers have no gaps and only existing
\* rows are stopped.
THEOREM TypeCorrect == Spec => []TypeOK
<1>1. Init => TypeOK
  BY Vocabularies, BoundsAssumption DEF Init, TypeOK, StartStages, HoldStatus, BillingStatus, Call, TxIds
<1> QED BY <1>1, TypeStep, PTL DEF Spec

----------------------------------------------------------------------------
(* The inductive invariant *)

\* The stages of a start() call that has asked the charge point, or has given up.
Late == {"waiting", "failing", "releasing", "done"}

\* How far a start() call has come says what it has written.
StageInv ==
  \A s \in Sessions :
    /\ start[s] \in {"idle", "checked", "conflict"} <=> session[s] = "NONE"
    /\ start[s] = "created" => session[s] = "PREPARING"
    /\ start[s] \in {"idle", "checked", "conflict", "created"} => auth[s] = "NONE"
    /\ start[s] \in {"authorized", "waiting"} => auth[s] # "NONE"
    /\ remote[s] # "none" => start[s] \in Late /\ auth[s] # "NONE"
    /\ start[s] = "releasing" => hold[s] # "NONE"

\* What a handler in flight has read is still true where it cannot become false: the
\* transaction exists, and for the end of a session it is stopped.
CallInv ==
  /\ \A k \in calls : start[k.s] \in Late
  /\ \A k \in calls :
       k.op \in {"confirmStart", "confirmStop", "finalize", "pause", "resume", "complete", "idle"}
         => HasTx(k.s)
  /\ \A k \in calls : k.op \in {"confirmStop", "finalize"} => HasStopped(k.s)

\* The charge point opens transactions only for sessions it was commanded to start.
CommandInv ==
  /\ \A t \in 1..lastTx : remote[txOf[t]] # "none"
  /\ \A o \in opening : remote[o.s] # "none"

IInv ==
  /\ TypeOK
  /\ StageInv
  /\ CommandInv
  /\ CallInv
  /\ EnergyNeedsTransaction
  /\ SettlementNeedsStop
  /\ HoldAgreesWithAuthorization
  /\ OpenHoldExplained

\* Only the insert of a StartTransaction and a StopTransaction write the transaction table.
LEMMA RowsUntouched ==
  ASSUME [Next]_vars,
         ~(\E o \in opening : StartRow(o)), ~(\E t \in TxIds : StopTransaction(t))
  PROVE  UNCHANGED txRows
<1>1. ASSUME NEW r \in Sessions, StartStep(r) PROVE UNCHANGED txRows
  BY <1>1 DEF StartStep, StartCheck, StartRefused, StartConflict, StartConflictRelease,
     StartCreate, StartAuthorize, StartUnfunded, SendRemoteStart, RemoteStartReply,
     RemoteStartTimeout, RollbackRead, RollbackFailedStart, RollbackUndone, txVars
<1>2. ASSUME NEW r \in Sessions, RequestStep(r) \/ TimerStep(r) PROVE UNCHANGED txRows
  BY <1>2 DEF RequestStep, TimerStep, RequestStop, RequestPause, RequestResume, ReapScan,
     IdleScan, txVars
<1>3. ASSUME NEW k \in calls, CallStep(k) PROVE UNCHANGED txRows
  BY <1>3 DEF CallStep, ConfirmStart, ConfirmStop, Finalize, FinalizeThrows, StopReply,
     PauseApply, ResumeApply, ReapApply, IdleApply, CompleteApply, txVars
<1>4. CASE ChargePointStep
  BY <1>4 DEF ChargePointStep, AnswerRemoteStart, StartTransaction, StartNumber,
     StatusNotification, ChargerNotification, BootFind, BootCharger, BootConnectors, txVars
<1>5. ASSUME NEW n \in notices, NoticeStep(n) PROVE UNCHANGED txRows
  BY <1>5 DEF NoticeStep, NoticeCharger, NoticeSession, txVars
<1>6. CASE WatchdogOffline \/ SocketChange \/ Crash \/ UNCHANGED vars
  BY <1>6 DEF WatchdogOffline, SocketChange, Crash, vars, txVars
<1> QED BY <1>1, <1>2, <1>3, <1>4, <1>5, <1>6 DEF Next

\* What an insert adds: the next row, or nothing when the number is taken.
LEMMA RowAdded ==
  ASSUME TypeOK, NEW o \in opening, StartRow(o)
  PROVE  \/ UNCHANGED txRows
         \/ /\ lastTx' = lastTx + 1 /\ lastTx \in Nat /\ lastTx + 1 \in TxIds
            /\ stoppedTx' = stoppedTx /\ lastTx + 1 \notin stoppedTx
            /\ txOf'[lastTx + 1] = o.s
            /\ \A t \in 1..lastTx : t \in TxIds /\ txOf'[t] = txOf[t]
<1>1. o.s \in Sessions /\ o.no \in 0..MaxTx /\ lastTx \in 0..MaxTx
  BY DEF TypeOK, Opening
<1>2. CASE o.no = lastTx + 1
  BY <1>1, <1>2, BoundsAssumption DEF StartRow, TypeOK, TxIds
<1>3. CASE o.no # lastTx + 1 BY <1>3 DEF StartRow, txRows
<1> QED BY <1>2, <1>3

\* Rows of the transaction table are never rewritten and a stop is never taken back.
LEMMA EvidenceStays ==
  ASSUME TypeOK, [Next]_vars, NEW s \in Sessions
  PROVE  /\ HasTx(s) => HasTx(s)'
         /\ HasStopped(s) => HasStopped(s)'
<1>1. CASE UNCHANGED txRows BY <1>1 DEF txRows, HasTx, HasStopped
<1>2. ASSUME NEW o \in opening, StartRow(o)
      PROVE  (HasTx(s) => HasTx(s)') /\ (HasStopped(s) => HasStopped(s)')
  <2>1. CASE UNCHANGED txRows BY <1>1, <2>1
  <2>2. CASE ~UNCHANGED txRows
    BY <1>2, <2>2, RowAdded DEF StartRow, TypeOK, HasTx, HasStopped, txRows
  <2> QED BY <2>1, <2>2
<1>3. ASSUME NEW t \in TxIds, StopTransaction(t)
      PROVE  (HasTx(s) => HasTx(s)') /\ (HasStopped(s) => HasStopped(s)')
  BY <1>3 DEF StopTransaction, HasTx, HasStopped
<1> QED BY <1>1, <1>2, <1>3, RowsUntouched

\* A session that may be moved to COMPLETED by a driver's stop has been charging.
LEMMA StoppableIsEnergised ==
  ASSUME NEW status \in ActiveStatuses, CanMove(SessionNext, status, "COMPLETED")
  PROVE  status \in EnergisedStatuses
  BY Vocabularies DEF ActiveStatuses, TerminalStatuses, CanMove, SessionNext, EnergisedStatuses

\* Every step of a start() call keeps the invariant.
LEMMA StartStepInv ==
  ASSUME IInv, NEW s \in Sessions, StartStep(s), TypeOK'
  PROVE  IInv'
<1>a. UNCHANGED <<txVars, calls>>
  BY DEF StartStep, StartCheck, StartRefused, StartConflict, StartConflictRelease,
     StartCreate, StartAuthorize, StartUnfunded, SendRemoteStart, RemoteStartReply,
     RemoteStartTimeout, RollbackRead, RollbackFailedStart, RollbackUndone
<1>b. \A r \in Sessions : (HasTx(r)' <=> HasTx(r)) /\ (HasStopped(r)' <=> HasStopped(r))
  BY <1>a DEF txVars, txRows, HasTx, HasStopped
<1> USE <1>a, <1>b DEF IInv, TypeOK, StageInv, CommandInv, CallInv, Late, EnergyNeedsTransaction,
        SettlementNeedsStop, HoldAgreesWithAuthorization, OpenHoldExplained, Terminal,
        TerminalStatuses, EnergisedStatuses, sessionVars, billVars, txVars, txRows, startVars, TxIds, Call
<1>1. CASE StartCheck(s) BY <1>1 DEF StartCheck
<1>2. CASE StartRefused(s) BY <1>2 DEF StartRefused
<1>3. CASE StartConflict(s) BY <1>3 DEF StartConflict
<1>4. CASE StartConflictRelease(s) BY <1>4 DEF StartConflictRelease
<1>5. CASE StartCreate(s) BY <1>5 DEF StartCreate
<1>6. CASE StartAuthorize(s) BY <1>6 DEF StartAuthorize
<1>7. CASE StartUnfunded(s) BY <1>7 DEF StartUnfunded
<1>8. CASE SendRemoteStart(s)
  <2>1. CASE online
    <3>1. /\ start[s] = "authorized" /\ auth[s] # "NONE"
          /\ start' = [start EXCEPT ![s] = "waiting"]
          /\ remote' = [remote EXCEPT ![s] = "sent"]
          /\ UNCHANGED <<at, sessionVars, billVars, txVars, calls>>
      BY <1>8, <2>1 DEF SendRemoteStart
    <3>2. CommandInv' BY <3>1 DEF Opening
    <3>3. CallInv' BY <3>1
    <3>4. StageInv' BY <3>1
    <3> QED BY <3>1, <3>2, <3>3, <3>4
  <2>2. CASE ~online BY <1>8, <2>2 DEF SendRemoteStart
  <2> QED BY <2>1, <2>2
<1>9. CASE RemoteStartReply(s) BY <1>9 DEF RemoteStartReply
<1>10. CASE RemoteStartTimeout(s) BY <1>10 DEF RemoteStartTimeout
<1>11. CASE RollbackFailedStart(s) BY <1>11 DEF RollbackFailedStart, Restoring, Released
<1>12. CASE RollbackRead(s) BY <1>12 DEF RollbackRead
<1>13. CASE RollbackUndone(s) BY <1>13 DEF RollbackUndone, Deadlocked
<1> QED BY <1>1, <1>2, <1>3, <1>4, <1>5, <1>6, <1>7, <1>8, <1>9, <1>10, <1>11, <1>12, <1>13
        DEF StartStep

\* Every request and every scan of a timer keeps the invariant.
LEMMA RequestStepInv ==
  ASSUME IInv, NEW s \in Sessions, RequestStep(s) \/ TimerStep(s), TypeOK'
  PROVE  IInv'
<1>a. UNCHANGED <<at, sessionVars, deviceVars, startVars, billVars, txVars>>
  BY DEF RequestStep, TimerStep, RequestStop, RequestPause, RequestResume, ReapScan, IdleScan
<1>b. \A r \in Sessions : (HasTx(r)' <=> HasTx(r)) /\ (HasStopped(r)' <=> HasStopped(r))
  BY <1>a DEF txVars, txRows, HasTx, HasStopped
<1>c. \A k \in calls' : k \in calls \/ (k.s = s /\ k.op \in {"stop", "pause", "resume", "reap", "idle"})
  BY DEF RequestStep, TimerStep, RequestStop, RequestPause, RequestResume, ReapScan, IdleScan,
         Begin
<1>d. start[s] = "done" \/ HasTx(s)
  <2>1. CASE RequestStop(s)
    BY <2>1, StoppableIsEnergised DEF IInv, RequestStop, Live, EnergyNeedsTransaction
  <2>2. CASE RequestPause(s) \/ RequestResume(s) \/ IdleScan(s)
    BY <2>2 DEF IInv, RequestPause, RequestResume, IdleScan, EnergyNeedsTransaction,
       EnergisedStatuses
  <2>3. CASE ReapScan(s) BY <2>3 DEF ReapScan
  <2> QED BY <2>1, <2>2, <2>3 DEF RequestStep, TimerStep
<1>e. start[s] \in Late
  BY <1>d DEF IInv, HasTx, CommandInv, StageInv, Late
<1>f. \A k \in calls' \ calls : k.op \in {"pause", "resume", "idle"} => HasTx(s)
  BY DEF IInv, EnergyNeedsTransaction, EnergisedStatuses, RequestStep, TimerStep, RequestStop,
         RequestPause, RequestResume, ReapScan, IdleScan, Begin
<1>1. CallInv'
  BY <1>a, <1>b, <1>c, <1>e, <1>f DEF IInv, TypeOK, Call, CallInv, startVars
<1> QED
  BY <1>a, <1>b, <1>1 DEF IInv, StageInv, CommandInv, EnergyNeedsTransaction,
     SettlementNeedsStop, HoldAgreesWithAuthorization, OpenHoldExplained, Terminal,
     sessionVars, startVars, billVars, txVars, txRows

\* Every write of a handler in flight keeps the invariant.
LEMMA CallStepInv ==
  ASSUME IInv, NEW k \in calls, CallStep(k), TypeOK'
  PROVE  IInv'
<1>a. UNCHANGED <<at, startVars, txVars>>
  BY DEF CallStep, ConfirmStart, ConfirmStop, Finalize, FinalizeThrows, StopReply, PauseApply,
         ResumeApply, ReapApply, IdleApply, CompleteApply, startVars
<1>b. \A r \in Sessions : (HasTx(r)' <=> HasTx(r)) /\ (HasStopped(r)' <=> HasStopped(r))
  BY <1>a DEF txVars, txRows, HasTx, HasStopped
<1>c. k.s \in Sessions BY DEF IInv, TypeOK, Call
<1> USE <1>a, <1>b, <1>c DEF IInv, TypeOK, StageInv, CommandInv, CallInv, Late,
        EnergyNeedsTransaction, SettlementNeedsStop, HoldAgreesWithAuthorization,
        OpenHoldExplained, Terminal, TerminalStatuses, EnergisedStatuses, sessionVars, billVars,
        txVars, txRows, startVars, Call
<1>1. CASE ConfirmStart(k) BY <1>1 DEF ConfirmStart
<1>2. CASE ConfirmStop(k) BY <1>2 DEF ConfirmStop
<1>3. CASE Finalize(k) BY <1>3 DEF Finalize, Captured, CaptureFailed
<1>4. CASE FinalizeThrows(k) BY <1>4 DEF FinalizeThrows
<1>5. CASE StopReply(k) BY <1>5 DEF StopReply
<1>6. CASE PauseApply(k) BY <1>6 DEF PauseApply
<1>7. CASE ResumeApply(k) BY <1>7 DEF ResumeApply
<1>8. CASE ReapApply(k) BY <1>8 DEF ReapApply
<1>9. CASE IdleApply(k) BY <1>9 DEF IdleApply
<1>10. CASE CompleteApply(k) BY <1>10 DEF CompleteApply
<1> QED BY <1>1, <1>2, <1>3, <1>4, <1>5, <1>6, <1>7, <1>8, <1>9, <1>10 DEF CallStep

\* Every message of the charge point keeps the invariant.
LEMMA ChargePointStepInv ==
  ASSUME IInv, ChargePointStep, TypeOK'
  PROVE  IInv'
<1> USE DEF IInv, StageInv, CommandInv, CallInv, Late,
        EnergyNeedsTransaction, SettlementNeedsStop, HoldAgreesWithAuthorization,
        OpenHoldExplained, Terminal, sessionVars, billVars, txVars, txRows, startVars
<1>1. ASSUME NEW s \in Sessions, AnswerRemoteStart(s) PROVE IInv'
  <2>1. \A r \in Sessions : (HasTx(r)' <=> HasTx(r)) /\ (HasStopped(r)' <=> HasStopped(r))
    BY <1>1 DEF AnswerRemoteStart, HasTx, HasStopped
  <2> QED BY <1>1, <2>1 DEF AnswerRemoteStart, TypeOK, Call, TxIds
<1>2. ASSUME NEW s \in Sessions, StartTransaction(s) PROVE IInv'
  <2>1. \A r \in Sessions : (HasTx(r)' <=> HasTx(r)) /\ (HasStopped(r)' <=> HasStopped(r))
    BY <1>2 DEF StartTransaction, HasTx, HasStopped
  <2>2. CommandInv' BY <1>2 DEF StartTransaction, MayStartTransaction
  <2>3. UNCHANGED <<at, sessionVars, startVars, billVars, txRows, calls>>
    BY <1>2 DEF StartTransaction
  <2> QED BY <2>1, <2>2, <2>3 DEF TypeOK, Call
<1>7. ASSUME NEW o \in opening, StartNumber(o) PROVE IInv'
  <2>1. \A r \in Sessions : (HasTx(r)' <=> HasTx(r)) /\ (HasStopped(r)' <=> HasStopped(r))
    BY <1>7 DEF StartNumber, HasTx, HasStopped
  <2> DEFINE new == [o EXCEPT !.no = lastTx + 1]
  <2>2. new.s = o.s BY DEF TypeOK, Opening
  <2>3. CommandInv'
    <3>1. opening' = (opening \ {o}) \union {new} /\ UNCHANGED <<remote, txRows>>
      BY <1>7 DEF StartNumber
    <3> HIDE DEF new
    <3> QED BY <2>2, <3>1
  <2>4. UNCHANGED <<at, sessionVars, startVars, billVars, txRows, calls>>
    BY <1>7 DEF StartNumber
  <2> QED BY <2>1, <2>3, <2>4 DEF TypeOK, Call
<1>8. ASSUME NEW o \in opening, StartRow(o) PROVE IInv'
  <2>0. o.s \in Sessions /\ remote[o.s] # "none" BY DEF TypeOK, Opening
  <2>1. UNCHANGED <<at, sessionVars, startVars, billVars>> /\ opening' \subseteq opening
    BY <1>8 DEF StartRow
  <2>2. \A r \in Sessions : (HasTx(r) => HasTx(r)') /\ (HasStopped(r) => HasStopped(r)')
    BY <1>8, EvidenceStays DEF Next, ChargePointStep
  <2>3. start[o.s] \in Late BY <2>0
  <2>4. CASE o.no = lastTx + 1
    <3>1. /\ lastTx' = lastTx + 1 /\ lastTx \in Nat /\ lastTx + 1 \in TxIds
          /\ txOf' = [txOf EXCEPT ![lastTx + 1] = o.s]
      BY <1>8, <2>4, BoundsAssumption DEF StartRow, TypeOK, Opening, TxIds
    <3>2. HasTx(o.s)' BY <3>1 DEF HasTx, TypeOK, TxIds
    <3>3. \A k \in calls' : k \in calls \/ (k.s = o.s /\ k.op = "confirmStart")
      BY <1>8, <2>4 DEF StartRow
    <3>4. CallInv' BY <2>1, <2>2, <2>3, <3>2, <3>3 DEF TypeOK, Call
    <3>5. CommandInv' BY <2>0, <2>1, <3>1 DEF TypeOK, TxIds
    <3> QED BY <2>1, <2>2, <3>4, <3>5
  <2>5. CASE o.no # lastTx + 1
    <3>1. UNCHANGED <<lastTx, txOf, calls>> BY <1>8, <2>5 DEF StartRow
    <3> QED BY <2>1, <2>2, <3>1 DEF TypeOK, Call
  <2> QED BY <2>4, <2>5
<1>3. ASSUME NEW t \in TxIds, StopTransaction(t) PROVE IInv'
  <2> DEFINE s == txOf[t]
  <2>0. s \in Sessions BY <1>3 DEF StopTransaction, TypeOK
  <2>1. HasTx(s)' /\ HasStopped(s)' BY <1>3 DEF StopTransaction, HasTx, HasStopped
  <2>2. \A r \in Sessions : (HasTx(r) => HasTx(r)') /\ (HasStopped(r) => HasStopped(r)')
    BY <1>3, EvidenceStays DEF Next, ChargePointStep
  <2>3. start[s] \in Late BY <1>3, <2>0 DEF StopTransaction
  <2>4. \A k \in calls' : k \in calls \/ (k.s = s /\ k.op = "confirmStop")
    BY <1>3 DEF StopTransaction, Begin
  <2>5. CallInv' BY <1>3, <2>0, <2>1, <2>2, <2>3, <2>4 DEF StopTransaction, TypeOK, Call
  <2> QED BY <1>3, <2>2, <2>5 DEF StopTransaction
<1>4. ASSUME NEW c \in Connectors, NEW st \in Reported, StatusNotification(c, st) PROVE IInv'
  <2>1. \A r \in Sessions : (HasTx(r)' <=> HasTx(r)) /\ (HasStopped(r)' <=> HasStopped(r))
    BY <1>4 DEF StatusNotification, HasTx, HasStopped
  <2> QED BY <1>4, <2>1 DEF StatusNotification, TypeOK, Call
<1>5. ASSUME NEW st, ChargerNotification(st) PROVE IInv'
  <2>1. \A r \in Sessions : (HasTx(r)' <=> HasTx(r)) /\ (HasStopped(r)' <=> HasStopped(r))
    BY <1>5 DEF ChargerNotification, HasTx, HasStopped
  <2> QED BY <1>5, <2>1 DEF ChargerNotification, TypeOK, Call
<1>6. CASE BootFind \/ BootCharger \/ BootConnectors
  <2>1. \A r \in Sessions : (HasTx(r)' <=> HasTx(r)) /\ (HasStopped(r)' <=> HasStopped(r))
    BY <1>6 DEF BootFind, BootCharger, BootConnectors, HasTx, HasStopped
  <2> QED BY <1>6, <2>1 DEF BootFind, BootCharger, BootConnectors, TypeOK, Call
<1> QED BY <1>1, <1>2, <1>3, <1>4, <1>5, <1>6, <1>7, <1>8 DEF ChargePointStep

\* A notification that completes a session found it ACTIVE.
LEMMA NoticeStepInv ==
  ASSUME IInv, NEW n \in notices, NoticeStep(n), TypeOK'
  PROVE  IInv'
<1> USE DEF IInv, StageInv, CommandInv, CallInv, Late, EnergyNeedsTransaction,
        SettlementNeedsStop, HoldAgreesWithAuthorization, OpenHoldExplained, Terminal,
        sessionVars, billVars, txVars, txRows, startVars
<1>1. UNCHANGED <<at, sessionVars, startVars, billVars, txVars>>
  BY DEF NoticeStep, NoticeCharger, NoticeSession
<1>2. \A r \in Sessions : (HasTx(r)' <=> HasTx(r)) /\ (HasStopped(r)' <=> HasStopped(r))
  BY <1>1 DEF HasTx, HasStopped
<1>3. \A k \in calls' : k \in calls \/
        (k.s \in Sessions /\ session[k.s] = "ACTIVE" /\ k.op = "complete")
  BY DEF NoticeStep, NoticeCharger, NoticeSession
<1>4. \A r \in Sessions : HasTx(r) => start[r] \in Late BY DEF HasTx
<1>5. CallInv' BY <1>1, <1>2, <1>3, <1>4 DEF TypeOK, Call, EnergisedStatuses
<1> QED BY <1>1, <1>2, <1>5

\* The invariant is inductive.
LEMMA InvStep == IInv /\ [Next]_vars => IInv'
<1> SUFFICES ASSUME IInv, [Next]_vars PROVE IInv' OBVIOUS
<1>0. TypeOK' BY TypeStep DEF IInv
<1>1. CASE \E s \in Sessions : StartStep(s) \/ RequestStep(s) \/ TimerStep(s)
  BY <1>0, <1>1, StartStepInv, RequestStepInv
<1>2. CASE \E k \in calls : CallStep(k) BY <1>0, <1>2, CallStepInv
<1>3. CASE ChargePointStep \/ \E n \in notices : NoticeStep(n)
  BY <1>0, <1>3, ChargePointStepInv, NoticeStepInv
<1>4. CASE WatchdogOffline \/ SocketChange \/ Crash \/ UNCHANGED vars
  <2>1. \A r \in Sessions : (HasTx(r)' <=> HasTx(r)) /\ (HasStopped(r)' <=> HasStopped(r))
    BY <1>4 DEF WatchdogOffline, SocketChange, Crash, vars, txVars, txRows, HasTx, HasStopped
  <2> USE <1>0, <1>4, <2>1 DEF IInv, TypeOK, sessionVars, billVars, txVars, txRows, startVars, vars, Call
  <2>2. /\ EnergyNeedsTransaction' /\ SettlementNeedsStop'
        /\ HoldAgreesWithAuthorization' /\ OpenHoldExplained' /\ CommandInv'
    BY DEF WatchdogOffline, SocketChange, Crash, EnergyNeedsTransaction, SettlementNeedsStop,
           HoldAgreesWithAuthorization, OpenHoldExplained, CommandInv, Terminal
  <2>3. StageInv' /\ CallInv'
    BY DEF WatchdogOffline, SocketChange, Crash, StageInv, CallInv, Late
  <2> QED BY <2>2, <2>3
<1> QED BY <1>1, <1>2, <1>3, <1>4 DEF Next

\* The invariant holds initially: nothing has been asked, opened, reserved or read.
LEMMA InvInit == Init => IInv
<1> SUFFICES ASSUME Init PROVE IInv OBVIOUS
<1>1. TypeOK
  BY Vocabularies, BoundsAssumption DEF Init, TypeOK, StartStages, HoldStatus, BillingStatus,
     Call, TxIds
<1>2. StageInv /\ CommandInv /\ CallInv
  BY DEF Init, StageInv, CommandInv, CallInv
<1>3. EnergyNeedsTransaction /\ SettlementNeedsStop
  BY DEF Init, EnergyNeedsTransaction, SettlementNeedsStop, EnergisedStatuses
<1>4. HoldAgreesWithAuthorization /\ OpenHoldExplained
  BY DEF Init, HoldAgreesWithAuthorization, OpenHoldExplained
<1> QED BY <1>1, <1>2, <1>3, <1>4 DEF IInv

\* Every reachable state satisfies the inductive invariant.
THEOREM Invariance == Spec => []IInv
  BY InvInit, InvStep, PTL DEF Spec

----------------------------------------------------------------------------
(* What follows from it *)

\* No session is ACTIVE, PAUSED, complete, idle or COMPLETED without a transaction the
\* charge point opened for it, whatever the driver, the timers and the answers to
\* RemoteStart did before.
THEOREM EnergyIsEvidenced == Spec => []EnergyNeedsTransaction
<1>1. IInv => EnergyNeedsTransaction BY DEF IInv
<1> QED BY <1>1, Invariance, PTL

\* Capture, receipt and COMPLETED only ever follow a StopTransaction of the charge point.
THEOREM SettlementIsEvidenced == Spec => []SettlementNeedsStop
<1>1. IInv => SettlementNeedsStop BY DEF IInv
<1> QED BY <1>1, Invariance, PTL

\* The wallet's hold and the payment authorization are open together and closed together.
THEOREM HoldAndAuthorizationAgree == Spec => []HoldAgreesWithAuthorization
<1>1. IInv => HoldAgreesWithAuthorization BY DEF IInv
<1> QED BY <1>1, Invariance, PTL

\* An ended session keeps money reserved only after the reaper's timeout or a failed capture.
THEOREM OpenHoldsAreExplained == Spec => []OpenHoldExplained
<1>1. IInv => OpenHoldExplained BY DEF IInv
<1> QED BY <1>1, Invariance, PTL

\* The charge point is commanded, and energy booked, only for a session with an
\* authorization: a transaction exists only for a commanded session (CommandInv), and a
\* session is commanded only after its authorization (StageInv).
THEOREM EnergyIsAuthorized == Spec => []EnergyNeedsAuthorization
<1>1. IInv => EnergyNeedsAuthorization
  <2> SUFFICES ASSUME IInv, NEW s \in Sessions, remote[s] # "none" \/ HasTx(s)
               PROVE  auth[s] # "NONE"
    BY DEF EnergyNeedsAuthorization
  <2>1. remote[s] # "none" BY DEF IInv, CommandInv, HasTx
  <2> QED BY <2>1 DEF IInv, StageInv
<1> QED BY <1>1, Invariance, PTL

\* A captured authorization stays captured in every behaviour.  Its writers are
\* authorizeInTx, which runs only once and before the capture (StageInv), finalizeInTx and
\* releaseInTx, which moves an authorization only from AUTHORIZED.
THEOREM CaptureStays == Spec => CaptureIsFinal
<1> DEFINE Kept == \A s \in Sessions : auth[s] = "CAPTURED" => auth'[s] = "CAPTURED"
<1>1. IInv /\ [Next]_vars => [Kept]_vars
  <2> SUFFICES ASSUME IInv, Next PROVE Kept BY DEF vars
  <2> USE DEF IInv, TypeOK, billVars
  <2>1. ASSUME NEW r \in Sessions, StartAuthorize(r) PROVE Kept
    <3>1. auth[r] = "NONE" BY <2>1 DEF StartAuthorize, StageInv
    <3> QED BY <2>1, <3>1 DEF StartAuthorize
  <2>2. ASSUME NEW r \in Sessions, RollbackFailedStart(r) PROVE Kept
    BY <2>2 DEF RollbackFailedStart, Released
  <2>3. ASSUME NEW k \in calls, Finalize(k) PROVE Kept
    BY <2>3 DEF Finalize, Captured, CaptureFailed
  <2>4. ASSUME NEW r \in Sessions, StartStep(r), ~StartAuthorize(r), ~RollbackFailedStart(r)
        PROVE  UNCHANGED auth
    BY <2>4 DEF StartStep, StartCheck, StartRefused, StartConflict, StartConflictRelease,
       StartCreate, StartUnfunded, SendRemoteStart, RemoteStartReply, RemoteStartTimeout,
       RollbackRead, RollbackUndone
  <2>5. ASSUME NEW r \in Sessions, RequestStep(r) \/ TimerStep(r) PROVE UNCHANGED auth
    BY <2>5 DEF RequestStep, TimerStep, RequestStop, RequestPause, RequestResume, ReapScan,
       IdleScan
  <2>6. ASSUME NEW k \in calls, CallStep(k), ~Finalize(k) PROVE UNCHANGED auth
    BY <2>6 DEF CallStep, ConfirmStart, ConfirmStop, FinalizeThrows, StopReply, PauseApply,
       ResumeApply, ReapApply, IdleApply, CompleteApply
  <2>7. CASE ChargePointStep \/ WatchdogOffline \/ SocketChange \/ Crash
    BY <2>7 DEF ChargePointStep, AnswerRemoteStart, StartTransaction, StartNumber, StartRow, StopTransaction,
       StatusNotification, ChargerNotification, BootFind, BootCharger, BootConnectors,
       WatchdogOffline, SocketChange, Crash
  <2>8. ASSUME NEW n \in notices, NoticeStep(n) PROVE UNCHANGED auth
    BY <2>8 DEF NoticeStep, NoticeCharger, NoticeSession
  <2> QED BY <2>1, <2>2, <2>3, <2>4, <2>5, <2>6, <2>7, <2>8 DEF Next
<1> QED BY <1>1, Invariance, PTL DEF CaptureIsFinal, Kept, Spec

\* A session whose StartTransaction handlers never overlapped has one of them at most in flight,
\* which found no open row and will find none; and two open rows of the table are not both its own.
OverlapInv ==
  /\ \A o, p \in opening : o.s = p.s /\ o # p => o.s \in overlapped
  /\ \A o \in opening, t \in 1..lastTx :
       t \notin stoppedTx /\ txOf[t] = o.s => o.s \in overlapped
  /\ \A t, u \in 1..lastTx :
       t \notin stoppedTx /\ u \notin stoppedTx /\ txOf[t] = txOf[u] /\ t # u
         => txOf[t] \in overlapped

\* A handler begins where no open row is, and another one of its session is recorded; an insert
\* follows such a look, and the handler is gone with it.
LEMMA OverlapStep == TypeOK /\ OverlapInv /\ [Next]_vars => OverlapInv'
<1> SUFFICES ASSUME TypeOK, OverlapInv, [Next]_vars PROVE OverlapInv' OBVIOUS
<1>1. ASSUME NEW s \in Sessions, StartTransaction(s) PROVE OverlapInv'
  <2> DEFINE new == [s |-> s, no |-> 0]
  <2>1. /\ opening' = opening \union {new} /\ UNCHANGED txRows /\ overlapped \subseteq overlapped'
        /\ (\E o \in opening : o.s = s) => s \in overlapped'
    BY <1>1 DEF StartTransaction
  <2>2. \A t \in 1..lastTx : t \notin stoppedTx => txOf[t] # s
    BY <1>1 DEF StartTransaction, MayStartTransaction, OpenTx
  <2>3. new.s = s OBVIOUS
  <2> QED BY <2>1, <2>2, <2>3 DEF OverlapInv, txRows
<1>2. ASSUME NEW o \in opening, StartNumber(o) PROVE OverlapInv'
  <2> DEFINE new == [o EXCEPT !.no = lastTx + 1]
  <2>1. new.s = o.s BY DEF TypeOK, Opening
  <2>2. opening' = (opening \ {o}) \union {new} /\ UNCHANGED <<txRows, overlapped>>
    BY <1>2 DEF StartNumber
  <2> HIDE DEF new
  <2> QED BY <2>1, <2>2 DEF OverlapInv, txRows
<1>3. ASSUME NEW o \in opening, StartRow(o) PROVE OverlapInv'
  <2>1. opening' = opening \ {o} /\ UNCHANGED overlapped BY <1>3 DEF StartRow
  <2>2. CASE UNCHANGED txRows BY <2>1, <2>2 DEF OverlapInv, txRows
  <2>3. CASE ~UNCHANGED txRows
    <3>1. /\ lastTx' = lastTx + 1 /\ lastTx \in Nat /\ stoppedTx' = stoppedTx
          /\ txOf'[lastTx + 1] = o.s
          /\ \A t \in 1..lastTx : txOf'[t] = txOf[t]
      BY <1>3, <2>3, RowAdded
    <3>2. 1..lastTx' = 1..lastTx \union {lastTx + 1} BY <3>1
    <3> QED BY <2>1, <3>1, <3>2 DEF OverlapInv
  <2> QED BY <2>2, <2>3
<1>4. ASSUME NEW t \in TxIds, StopTransaction(t) PROVE OverlapInv'
  BY <1>4 DEF StopTransaction, OverlapInv
<1>5. CASE UNCHANGED <<txRows, overlapped>> /\ opening' \subseteq opening
  BY <1>5 DEF OverlapInv, txRows
<1>6. CASE ChargePointStep
  <2>1. CASE UNCHANGED txVars BY <1>5, <2>1 DEF txVars
  <2> QED BY <1>1, <1>2, <1>3, <1>4, <1>6, <2>1
          DEF ChargePointStep, AnswerRemoteStart, StatusNotification, ChargerNotification,
              BootFind, BootCharger, BootConnectors
<1>7. CASE ~ChargePointStep
  <2>1. ASSUME NEW r \in Sessions, StartStep(r) \/ RequestStep(r) \/ TimerStep(r) PROVE UNCHANGED txVars
    BY <2>1 DEF StartStep, StartCheck, StartRefused, StartConflict, StartConflictRelease,
       StartCreate, StartAuthorize, StartUnfunded, SendRemoteStart, RemoteStartReply,
       RemoteStartTimeout, RollbackRead, RollbackFailedStart, RollbackUndone, RequestStep,
       TimerStep, RequestStop, RequestPause, RequestResume, ReapScan, IdleScan
  <2>2. ASSUME NEW k \in calls, CallStep(k) PROVE UNCHANGED txVars
    BY <2>2 DEF CallStep, ConfirmStart, ConfirmStop, Finalize, FinalizeThrows, StopReply,
       PauseApply, ResumeApply, ReapApply, IdleApply, CompleteApply
  <2>3. ASSUME NEW n \in notices, NoticeStep(n) PROVE UNCHANGED txVars
    BY <2>3 DEF NoticeStep, NoticeCharger, NoticeSession
  <2>4. CASE WatchdogOffline \/ SocketChange \/ UNCHANGED vars
    BY <1>5, <2>4 DEF WatchdogOffline, SocketChange, vars, txVars
  <2>5. CASE Crash BY <1>5, <2>5 DEF Crash
  <2> QED BY <1>5, <1>7, <2>1, <2>2, <2>3, <2>4, <2>5 DEF Next, txVars
<1> QED BY <1>6, <1>7

\* However often StartTransaction is repeated, a session has one open transaction at most unless
\* two of its handlers were in flight at once: what one wrote, the next one finds, across lost
\* answers, crashes and stops.
THEOREM TransactionsDoNotOverlap == Spec => []OneOpenTransaction
<1>1. Init => OverlapInv BY DEF Init, OverlapInv
<1>2. OverlapInv => OneOpenTransaction
  <2> SUFFICES ASSUME OverlapInv, NEW s \in Sessions \ overlapped PROVE Cardinality(OpenTx(s)) <= 1
    BY DEF OneOpenTransaction
  <2>1. CASE OpenTx(s) = {} BY <2>1, FS_EmptySet
  <2>2. CASE OpenTx(s) # {}
    <3>1. PICK t \in OpenTx(s) : TRUE BY <2>2
    <3>2. OpenTx(s) = {t} BY <3>1 DEF OpenTx, OverlapInv
    <3>3. Cardinality({t}) = 1 BY FS_Singleton
    <3> QED BY <3>2, <3>3
  <2> QED BY <2>1, <2>2
<1> QED BY <1>1, <1>2, TypeCorrect, OverlapStep, PTL DEF Spec

----------------------------------------------------------------------------
(* Two sessions on one connector *)

\* A rolled-back session: it has failed, and neither a receipt nor a time-out marks it.
RolledBack(s) == Terminal(s) /\ s \notin receipts \union timedOut

\* Who writes a status by id has seen the session charging, so it has left PREPARING for good and
\* cannot be rolled back; a handler that revives it finds it marked.
WriterInv ==
  \A k \in calls : k.op \in {"pause", "resume", "idle", "complete"} =>
    session[k.s] \notin {"NONE", "PREPARING"} /\ ~RolledBack(k.s)

UnsettledInv == WriterInv /\ OneUnsettledSession

\* Only a live session becomes ACTIVE by the charge point's confirmation.
LEMMA ActiveComesFromLive ==
  ASSUME NEW status \in SessionStatus, CanMove(SessionNext, status, "ACTIVE")
  PROVE  status \in ActiveStatuses
  BY Vocabularies DEF ActiveStatuses, TerminalStatuses, CanMove, SessionNext

\* What keeps both parts: nobody comes to life but a session that is marked, no mark is taken from
\* a session that goes on, nobody returns to PREPARING, and handlers that begin have seen theirs
\* charging.
LEMMA UnsettledKept ==
  ASSUME TypeOK, UnsettledInv, UNCHANGED at,
         \A s \in Sessions : Live(s)' => Live(s) \/ s \in receipts \union timedOut,
         \A s \in Sessions : s \in receipts \union timedOut /\ (Live(s)' \/ Terminal(s))
                              => s \in receipts' \union timedOut',
         \A s \in Sessions : Terminal(s)' /\ ~Terminal(s)
                              => session[s] \in {"NONE", "PREPARING"} \/ s \in receipts' \union timedOut',
         \A s \in Sessions : session'[s] \in {"NONE", "PREPARING"} => session[s] \in {"NONE", "PREPARING"},
         \A k \in calls' : k \in calls \/ k.op \notin {"pause", "resume", "idle", "complete"}
                           \/ (k.s \in Sessions /\ session'[k.s] \in {"ACTIVE", "PAUSED", "CHARGING_COMPLETE"})
  PROVE  UnsettledInv'
<1>1. OneUnsettledSession' BY DEF UnsettledInv, OneUnsettledSession
<1>2. ASSUME NEW k \in calls', k.op \in {"pause", "resume", "idle", "complete"}
      PROVE  session'[k.s] \notin {"NONE", "PREPARING"} /\ ~RolledBack(k.s)'
  <2>1. CASE k \in calls
    BY <1>2, <2>1 DEF UnsettledInv, WriterInv, RolledBack, TypeOK, Call
  <2>2. CASE session'[k.s] \in {"ACTIVE", "PAUSED", "CHARGING_COMPLETE"}
    BY <2>2 DEF RolledBack, Terminal, TerminalStatuses
  <2> QED BY <1>2, <2>1, <2>2
<1> QED BY <1>1, <1>2 DEF UnsettledInv, WriterInv

\* A session is created where no other is alive, and a start that fails had not charged.
LEMMA StartStepUnsettled ==
  ASSUME IInv, UnsettledInv, NEW s \in Sessions, StartStep(s)
  PROVE  UnsettledInv'
<1> USE DEF IInv, TypeOK
<1>1. CASE StartCreate(s)
  <2>1. /\ session' = [session EXCEPT ![s] = "PREPARING"] /\ session[s] = "NONE"
        /\ UNCHANGED <<at, receipts, timedOut, calls>>
        /\ \A r \in Sessions : at[r] = at[s] => ~Live(r)
    BY <1>1 DEF StartCreate, Occupied, StageInv
  <2>2. OneUnsettledSession' BY <2>1 DEF UnsettledInv, OneUnsettledSession, Live
  <2>3. \A k \in calls : k.op \in {"pause", "resume", "idle", "complete"} => k.s # s
    BY <2>1 DEF UnsettledInv, WriterInv
  <2>4. WriterInv'
    BY <2>1, <2>3 DEF UnsettledInv, WriterInv, RolledBack, Terminal, Call
  <2> QED BY <2>2, <2>4 DEF UnsettledInv
<1>2. CASE RollbackFailedStart(s)
  <2>1. /\ UNCHANGED <<at, receipts, calls>>
        /\ \/ UNCHANGED <<session, timedOut>>
           \/ /\ session[s] = "PREPARING" /\ session' = [session EXCEPT ![s] = "FAILED"]
              /\ timedOut' = timedOut \ {s}
    BY <1>2 DEF RollbackFailedStart
  <2> QED BY <2>1, UnsettledKept DEF Live, Terminal, TerminalStatuses, ActiveStatuses
<1>3. CASE ~StartCreate(s) /\ ~RollbackFailedStart(s)
  <2>1. UNCHANGED <<at, session, receipts, timedOut, calls>>
    BY <1>3 DEF StartStep, StartCheck, StartRefused, StartConflict, StartConflictRelease,
       StartAuthorize, StartUnfunded, SendRemoteStart, RemoteStartReply, RemoteStartTimeout,
       RollbackRead, RollbackUndone, sessionVars
  <2> QED BY <2>1, UnsettledKept DEF Live, Terminal
<1> QED BY <1>1, <1>2, <1>3

\* Handlers write their session's status; what they revive is marked.
LEMMA CallStepUnsettled ==
  ASSUME IInv, UnsettledInv, NEW k \in calls, CallStep(k)
  PROVE  UnsettledInv'
<1> USE DEF IInv, TypeOK
<1>0. k.s \in Sessions /\ session[k.s] \in SessionStatus
  BY DEF Call, CallInv, StageInv, Late
<1>1. CASE ConfirmStart(k)
  <2>1. UNCHANGED <<at, receipts, timedOut>> /\ calls' \subseteq calls BY <1>1 DEF ConfirmStart
  <2>2. UNCHANGED session \/ (Live(k.s) /\ session' = [session EXCEPT ![k.s] = "ACTIVE"])
    BY <1>0, <1>1, ActiveComesFromLive DEF ConfirmStart, Live
  <2> QED BY <1>0, <2>1, <2>2, UnsettledKept DEF Live, Terminal, TerminalStatuses, ActiveStatuses
<1>2. CASE Finalize(k)
  <2>1. /\ UNCHANGED at /\ calls' \subseteq calls /\ receipts' = receipts \union {k.s}
        /\ session' = [session EXCEPT ![k.s] = "COMPLETED"] /\ timedOut' \in {timedOut, timedOut \ {k.s}}
    BY <1>2 DEF Finalize
  <2> QED BY <1>0, <2>1, UnsettledKept DEF Live, Terminal, TerminalStatuses, ActiveStatuses
<1>3. CASE ReapApply(k)
  <2>1. /\ UNCHANGED <<at, receipts>> /\ calls' \subseteq calls
        /\ \/ UNCHANGED <<session, timedOut>>
           \/ session' = [session EXCEPT ![k.s] = "FAILED"] /\ timedOut' = timedOut \union {k.s}
    BY <1>3 DEF ReapApply
  <2> QED BY <1>0, <2>1, UnsettledKept DEF Live, Terminal, TerminalStatuses, ActiveStatuses
<1>4. CASE PauseApply(k) \/ ResumeApply(k) \/ IdleApply(k) \/ CompleteApply(k)
  <2>1. /\ UNCHANGED <<at, receipts, timedOut>> /\ calls' \subseteq calls
        /\ k.op \in {"pause", "resume", "idle", "complete"}
        /\ \/ UNCHANGED session
           \/ \E to \in {"PAUSED", "ACTIVE", "IDLE", "CHARGING_COMPLETE"} :
                session' = [session EXCEPT ![k.s] = to]
    BY <1>4 DEF PauseApply, ResumeApply, IdleApply, CompleteApply
  <2>2. Live(k.s) \/ k.s \in receipts \union timedOut
    BY <1>0, <2>1 DEF UnsettledInv, WriterInv, RolledBack, Live, Terminal, ActiveStatuses
  <2> QED BY <1>0, <2>1, <2>2, UnsettledKept DEF Live, Terminal, TerminalStatuses, ActiveStatuses
<1>5. CASE ConfirmStop(k) \/ FinalizeThrows(k) \/ StopReply(k)
  <2>1. /\ UNCHANGED <<at, session, receipts, timedOut>>
        /\ \A j \in calls' : j \in calls \/ j.op = "finalize"
    BY <1>5 DEF ConfirmStop, FinalizeThrows, StopReply, sessionVars, Call
  <2> QED BY <2>1, UnsettledKept DEF Live, Terminal
<1> QED BY <1>1, <1>2, <1>3, <1>4, <1>5 DEF CallStep

LEMMA UnsettledStep == IInv /\ UnsettledInv /\ [Next]_vars => UnsettledInv'
<1> SUFFICES ASSUME IInv, UnsettledInv, [Next]_vars PROVE UnsettledInv' OBVIOUS
<1> USE DEF IInv, TypeOK
<1>1. ASSUME NEW s \in Sessions, RequestStep(s) \/ TimerStep(s) PROVE UnsettledInv'
  <2>1. UNCHANGED <<at, session, receipts, timedOut>>
    BY <1>1 DEF RequestStep, TimerStep, RequestStop, RequestPause, RequestResume, ReapScan, IdleScan,
       sessionVars
  <2>2. \A k \in calls' : k \in calls \/ (k.s = s /\ (k.op \in {"stop", "reap"}
          \/ session[s] \in {"ACTIVE", "PAUSED", "CHARGING_COMPLETE"}))
    BY <1>1 DEF RequestStep, TimerStep, RequestStop, RequestPause, RequestResume, ReapScan, IdleScan, Begin
  <2> QED BY <2>1, <2>2, UnsettledKept DEF Live, Terminal
<1>2. ASSUME NEW n \in notices, NoticeStep(n) PROVE UnsettledInv'
  <2>1. UNCHANGED <<at, session, receipts, timedOut>>
    BY <1>2 DEF NoticeStep, NoticeCharger, NoticeSession, sessionVars
  <2>2. \A k \in calls' : k \in calls \/ (k.s \in Sessions /\ session[k.s] = "ACTIVE")
    BY <1>2 DEF NoticeStep, NoticeCharger, NoticeSession
  <2> QED BY <2>1, <2>2, UnsettledKept DEF Live, Terminal
<1>3. CASE ChargePointStep
  <2>1. UNCHANGED <<at, session, receipts, timedOut>>
    BY <1>3 DEF ChargePointStep, AnswerRemoteStart, StartTransaction, StartNumber, StartRow,
       StopTransaction, StatusNotification, ChargerNotification, BootFind, BootCharger,
       BootConnectors, sessionVars
  <2>2. \A k \in calls' : k \in calls \/ k.op \in {"confirmStart", "confirmStop"}
    <3>1. ASSUME NEW o \in opening, StartRow(o)
          PROVE  \A k \in calls' : k \in calls \/ k.op = "confirmStart"
      BY <3>1 DEF StartRow
    <3>2. ASSUME NEW t \in TxIds, StopTransaction(t)
          PROVE  \A k \in calls' : k \in calls \/ k.op = "confirmStop"
      BY <3>2 DEF StopTransaction, Begin
    <3> QED
      BY <1>3, <3>1, <3>2 DEF ChargePointStep, AnswerRemoteStart, StartTransaction, StartNumber,
         StatusNotification, ChargerNotification, BootFind, BootCharger, BootConnectors
  <2> QED BY <2>1, <2>2, UnsettledKept DEF Live, Terminal
<1>4. CASE WatchdogOffline \/ SocketChange \/ Crash \/ UNCHANGED vars
  <2>1. UNCHANGED <<at, session, receipts, timedOut>> /\ calls' \subseteq calls
    BY <1>4 DEF WatchdogOffline, SocketChange, Crash, vars, sessionVars
  <2> QED BY <2>1, UnsettledKept DEF Live, Terminal
<1> QED BY <1>1, <1>2, <1>3, <1>4, StartStepUnsettled, CallStepUnsettled DEF Next

\* Two sessions share a connector only if one of them was settled or timed out before: a start
\* looks for every live status, and only what was marked comes back to life.
THEOREM OneSessionUnsettled == Spec => []OneUnsettledSession
<1>1. Init => UnsettledInv
  BY Vocabularies DEF Init, UnsettledInv, WriterInv, OneUnsettledSession, Live, ActiveStatuses
<1>2. UnsettledInv => OneUnsettledSession BY DEF UnsettledInv
<1> QED BY <1>1, <1>2, Invariance, UnsettledStep, PTL DEF Spec

----------------------------------------------------------------------------
(* The refinement of Charge *)

\* Nothing is reserved before the authorization, and until the charge point is asked, what has
\* been reserved still is: only a call that failed gives it back, only a stop takes it.
ReservedInv ==
  \A s \in Sessions :
    /\ hold[s] \in {"NONE", "OPEN"} => s \notin debited
    /\ hold[s] = "CAPTURED" => s \in debited
    /\ start[s] \in {"idle", "checked", "conflict", "created"} => hold[s] = "NONE"
    /\ start[s] = "authorized" => hold[s] = "OPEN"

\* Calls in flight belong to a start() that is past its authorization, so no handler writes the
\* hold of one that is not.
LEMMA ReservedStep == IInv /\ ReservedInv /\ [Next]_vars => ReservedInv'
<1> SUFFICES ASSUME IInv, ReservedInv, [Next]_vars PROVE ReservedInv' OBVIOUS
<1> USE DEF IInv, TypeOK, ReservedInv
<1>1. ASSUME NEW s \in Sessions, StartStep(s) PROVE ReservedInv'
  <2> USE DEF startVars, billVars
  <2>1. CASE StartAuthorize(s) BY <2>1 DEF StartAuthorize
  <2>2. CASE RollbackFailedStart(s) BY <2>2 DEF RollbackFailedStart, Restoring, Released
  <2>5. CASE RollbackRead(s) \/ RollbackUndone(s) BY <2>5 DEF RollbackRead, RollbackUndone
  <2>3. CASE StartCheck(s) \/ StartRefused(s) \/ StartConflict(s) \/ StartConflictRelease(s)
             \/ StartCreate(s)
    BY <2>3 DEF StartCheck, StartRefused, StartConflict, StartConflictRelease, StartCreate
  <2>4. CASE StartUnfunded(s) \/ SendRemoteStart(s) \/ RemoteStartReply(s) \/ RemoteStartTimeout(s)
    BY <2>4 DEF StartUnfunded, SendRemoteStart, RemoteStartReply, RemoteStartTimeout
  <2> QED BY <1>1, <2>1, <2>2, <2>3, <2>4, <2>5 DEF StartStep
<1>2. ASSUME NEW s \in Sessions, RequestStep(s) \/ TimerStep(s) PROVE ReservedInv'
  BY <1>2 DEF RequestStep, TimerStep, RequestStop, RequestPause, RequestResume, ReapScan,
     IdleScan, startVars, billVars
<1>3. ASSUME NEW k \in calls, CallStep(k) PROVE ReservedInv'
  <2>1. CASE Finalize(k)
    <3>1. k.s \in Sessions /\ start[k.s] \in Late BY DEF Call, CallInv
    <3> QED BY <2>1, <3>1 DEF Finalize, Captured, CaptureFailed, startVars, billVars, Late
  <2>2. CASE ~Finalize(k)
    BY <1>3, <2>2 DEF CallStep, ConfirmStart, ConfirmStop, FinalizeThrows, StopReply, PauseApply,
       ResumeApply, ReapApply, IdleApply, CompleteApply, startVars, billVars
  <2> QED BY <2>1, <2>2
<1>4. CASE Crash
  BY <1>4 DEF Crash, StageInv, billVars
<1>5. CASE ChargePointStep \/ WatchdogOffline \/ SocketChange \/ UNCHANGED vars
  BY <1>5 DEF ChargePointStep, AnswerRemoteStart, StartTransaction, StartNumber, StartRow, StopTransaction,
     StatusNotification, ChargerNotification, BootFind, BootCharger, BootConnectors,
     WatchdogOffline, SocketChange, vars, startVars, billVars
<1>6. ASSUME NEW n \in notices, NoticeStep(n) PROVE ReservedInv'
  BY <1>6 DEF NoticeStep, NoticeCharger, NoticeSession, startVars, billVars
<1> QED BY <1>1, <1>2, <1>3, <1>4, <1>5, <1>6 DEF Next

\* What has become of the money reserved for each session.
Money == [s \in Sessions |-> IF s \in debited THEN "CAPTURED" ELSE hold[s]]

\* A step that leaves the money, commands, the transaction table and receipts alone is a stutter.
LEMMA Stutters ==
  ASSUME UNCHANGED <<hold, debited, remote, txRows, receipts>>
  PROVE  UNCHANGED ChargeOf!vars
  BY DEF ChargeOf!vars, txRows, OpenTx, HasStopped

\* Who changes only the command's answer has asked before, and stutters too.
LEMMA AskedStays ==
  ASSUME UNCHANGED <<hold, debited, txRows, receipts>>,
         \A s \in Sessions : remote'[s] # "none" <=> remote[s] # "none"
  PROVE  UNCHANGED ChargeOf!vars
  BY DEF ChargeOf!vars, txRows, OpenTx, HasStopped

\* The steps of a start() call reserve, ask, give back, or stutter.
LEMMA StartStepCharges ==
  ASSUME IInv, ReservedInv, NEW s \in Sessions, StartStep(s)
  PROVE  ChargeOf!Next \/ UNCHANGED ChargeOf!vars
<1> USE DEF IInv, TypeOK, ReservedInv
<1>1. CASE StartAuthorize(s)
  <2>1. /\ hold[s] = "NONE" /\ hold' = [hold EXCEPT ![s] = "OPEN"] /\ s \notin debited
        /\ UNCHANGED <<debited, remote, txRows, receipts>>
    BY <1>1 DEF StartAuthorize, sessionVars, txVars
  <2>2. Money[s] = "NONE" /\ Money' = [Money EXCEPT ![s] = "OPEN"] BY <2>1 DEF Money
  <2>3. ChargeOf!Reserve(s) BY <2>1, <2>2 DEF ChargeOf!Reserve, Money, txRows, OpenTx, HasStopped
  <2> QED BY <2>3 DEF ChargeOf!Next
<1>2. CASE SendRemoteStart(s)
  <2>1. CASE online
    <3>1. /\ hold[s] = "OPEN" /\ remote[s] = "none"
          /\ remote' = [remote EXCEPT ![s] = "sent"] /\ s \notin debited
          /\ UNCHANGED <<hold, debited, txRows, receipts>>
      BY <1>2, <2>1 DEF SendRemoteStart, StageInv, Late, sessionVars, billVars, txVars
    <3>2. {r \in Sessions : remote'[r] # "none"} = {r \in Sessions : remote[r] # "none"} \union {s}
      BY <3>1
    <3>3. ChargeOf!Ask(s) BY <3>1, <3>2 DEF ChargeOf!Ask, txRows, OpenTx, HasStopped
    <3> QED BY <3>3 DEF ChargeOf!Next
  <2>2. CASE ~online
    BY <1>2, <2>2, Stutters DEF SendRemoteStart, sessionVars, billVars, txVars
  <2> QED BY <2>1, <2>2
<1>3. CASE RollbackFailedStart(s)
  <2>1. UNCHANGED <<debited, remote, txRows, receipts>>
    BY <1>3 DEF RollbackFailedStart, Released, billVars, txVars
  <2>2. CASE UNCHANGED hold BY <2>1, <2>2, Stutters
  <2>3. CASE hold' = [hold EXCEPT ![s] = "RELEASED"] /\ hold[s] # "NONE"
    <3>1. CASE hold[s] = "OPEN"
      <4>1. Money[s] = "OPEN" /\ Money' = [Money EXCEPT ![s] = "RELEASED"]
        BY <2>1, <2>3, <3>1 DEF Money
      <4>2. ChargeOf!GiveBack(s)
        BY <2>1, <4>1 DEF ChargeOf!GiveBack, Money, txRows, OpenTx, HasStopped
      <4> QED BY <4>2 DEF ChargeOf!Next
    <3>2. CASE hold[s] = "CAPTURED"
      <4>1. Money' = Money BY <2>1, <2>3, <3>2 DEF Money
      <4> QED BY <2>1, <4>1 DEF ChargeOf!vars, Money, txRows, OpenTx, HasStopped
    <3>3. CASE hold[s] = "RELEASED" BY <2>1, <2>3, <3>3, Stutters
    <3> QED BY <2>3, <3>1, <3>2, <3>3 DEF HoldStatus
  <2> QED BY <1>3, <2>2, <2>3 DEF RollbackFailedStart, Released, Restoring, StageInv, billVars
<1>4. CASE StartCheck(s) \/ StartRefused(s) \/ StartConflict(s) \/ StartConflictRelease(s)
           \/ StartCreate(s)
  BY <1>4, Stutters DEF StartCheck, StartRefused, StartConflict, StartConflictRelease, StartCreate,
     sessionVars, billVars, txVars
<1>5. CASE StartUnfunded(s) \/ RemoteStartReply(s) \/ RemoteStartTimeout(s) \/ RollbackRead(s)
           \/ RollbackUndone(s)
  BY <1>5, Stutters DEF StartUnfunded, RemoteStartReply, RemoteStartTimeout, RollbackRead,
     RollbackUndone, sessionVars, billVars, txVars
<1> QED BY <1>1, <1>2, <1>3, <1>4, <1>5 DEF StartStep

\* The only handler that touches what the driver pays is the end of a session, and it settles a
\* session the charge point has stopped.
LEMMA CallStepCharges ==
  ASSUME IInv, ReservedInv, NEW k \in calls, CallStep(k)
  PROVE  ChargeOf!Next \/ UNCHANGED ChargeOf!vars
<1> USE DEF IInv, TypeOK, ReservedInv
<1>1. CASE Finalize(k)
  <2>1. k.s \in Sessions /\ HasStopped(k.s) BY <1>1 DEF Finalize, Call, CallInv
  <2>2. receipts' = receipts \union {k.s} /\ UNCHANGED <<remote, txRows>>
    BY <1>1 DEF Finalize, startVars, txVars
  <2>3. Money' \in {Money, [Money EXCEPT ![k.s] = IF @ = "OPEN" THEN "CAPTURED" ELSE @]}
    <3>1. CASE UNCHANGED <<hold, debited>> BY <3>1 DEF Money
    <3>2. CASE hold[k.s] = "OPEN" /\ hold' = [hold EXCEPT ![k.s] = "CAPTURED"]
               /\ debited' = debited \union {k.s}
      BY <2>1, <3>2 DEF Money
    <3> QED BY <1>1, <2>1, <3>1, <3>2 DEF Finalize, Captured, CaptureFailed, billVars
  <2>4. ChargeOf!Settle(k.s)
    BY <2>1, <2>2, <2>3 DEF ChargeOf!Settle, Money, txRows, OpenTx, HasStopped
  <2> QED BY <2>1, <2>4 DEF ChargeOf!Next
<1>2. CASE ~Finalize(k)
  BY <1>2, Stutters DEF CallStep, ConfirmStart, ConfirmStop, FinalizeThrows, StopReply, PauseApply,
     ResumeApply, ReapApply, IdleApply, CompleteApply, sessionVars, startVars, billVars, txVars
<1> QED BY <1>1, <1>2

\* A row without a stop is a delivery under way: it opens one where none was, for a session the
\* charge point was asked to serve.  The second row of a session changes nothing more.
LEMMA StartRowDraws ==
  ASSUME IInv, NEW o \in opening, StartRow(o)
  PROVE  ChargeOf!Next \/ UNCHANGED ChargeOf!vars
<1> USE DEF IInv, TypeOK
<1> DEFINE s == o.s
<1>0. s \in Sessions /\ remote[s] # "none" BY DEF Opening, CommandInv
<1>1. UNCHANGED <<hold, debited, remote, receipts>>
  BY DEF StartRow, sessionVars, billVars, startVars
<1>2. CASE UNCHANGED txRows BY <1>1, <1>2, Stutters
<1>3. CASE ~UNCHANGED txRows
  <2>1. /\ lastTx' = lastTx + 1 /\ lastTx \in Nat /\ stoppedTx' = stoppedTx
        /\ lastTx + 1 \notin stoppedTx /\ txOf'[lastTx + 1] = s
        /\ \A t \in 1..lastTx : txOf'[t] = txOf[t]
    BY <1>3, RowAdded
  <2>2. 1..lastTx' = 1..lastTx \union {lastTx + 1} BY <2>1
  <2>3. \A r \in Sessions : HasStopped(r)' <=> HasStopped(r) BY <2>1 DEF HasStopped
  <2>4. \A r \in Sessions : OpenTx(r)' # {} <=> OpenTx(r) # {} \/ r = s
    BY <2>1, <2>2 DEF OpenTx
  <2>5. CASE OpenTx(s) = {}
    <3>1. {r \in Sessions : OpenTx(r)' # {}} = {r \in Sessions : OpenTx(r) # {}} \union {s}
      BY <1>0, <2>4
    <3>2. ChargeOf!Draw(s) BY <1>0, <1>1, <2>3, <2>5, <3>1 DEF ChargeOf!Draw
    <3> QED BY <1>0, <3>2 DEF ChargeOf!Next
  <2>6. CASE OpenTx(s) # {}
    <3>1. {r \in Sessions : OpenTx(r)' # {}} = {r \in Sessions : OpenTx(r) # {}}
      BY <2>4, <2>6
    <3> QED BY <1>1, <2>3, <3>1 DEF ChargeOf!vars
  <2> QED BY <2>5, <2>6
<1> QED BY <1>2, <1>3

\* A stop ends a delivery of its session, the only one unless it was written down twice.
LEMMA StopTransactionEnds ==
  ASSUME TypeOK, NEW t \in TxIds, StopTransaction(t)
  PROVE  txOf[t] \in Sessions /\ ChargeOf!EndDraw(txOf[t])
<1> DEFINE s == txOf[t]
<1>1. /\ t \in 1..lastTx /\ t \notin stoppedTx /\ s \in Sessions
      /\ stoppedTx' = stoppedTx \union {t}
      /\ UNCHANGED <<hold, debited, remote, txOf, lastTx, receipts>>
  BY DEF StopTransaction, TypeOK, TxIds, sessionVars, startVars, billVars
<1>2. \A r \in Sessions : OpenTx(r)' = OpenTx(r) \ {t} BY <1>1 DEF OpenTx
<1>3. \A r \in Sessions : t \in OpenTx(r) <=> r = s BY <1>1 DEF OpenTx
<1>4. \A r \in Sessions : r # s => OpenTx(r)' = OpenTx(r) BY <1>2, <1>3
<1>5. {r \in Sessions : OpenTx(r)' # {}} \in
        {{r \in Sessions : OpenTx(r) # {}}, {r \in Sessions : OpenTx(r) # {}} \ {s}}
  <2>1. CASE OpenTx(s)' = {} BY <1>3, <1>4, <2>1
  <2>2. CASE OpenTx(s)' # {} BY <1>1, <1>3, <1>4, <2>2
  <2> QED BY <2>1, <2>2
<1>6. {r \in Sessions : HasStopped(r)'} = {r \in Sessions : HasStopped(r)} \union {s}
  BY <1>1 DEF HasStopped
<1>7. s \in {r \in Sessions : OpenTx(r) # {}} BY <1>1, <1>3
<1> QED BY <1>1, <1>5, <1>6, <1>7 DEF ChargeOf!EndDraw

\* The handling of sessions implements Charge: every step of every handler, timer, message and
\* failure reserves, asks, draws, ends, settles or gives back as Charge allows, or leaves all of
\* it alone.  A rollback that read the hold before a capture writes over the hold's row, not over
\* the debit.
THEOREM SessionsImplementCharge == Spec => ImplementsCharge
<1>1. Init => ReservedInv /\ ChargeOf!Init
  BY DEF Init, ReservedInv, ChargeOf!Init, OpenTx, HasStopped
<1>2. IInv /\ ReservedInv /\ [Next]_vars => [ChargeOf!Next]_(ChargeOf!vars)
  <2> SUFFICES ASSUME IInv, ReservedInv, [Next]_vars
               PROVE  ChargeOf!Next \/ UNCHANGED ChargeOf!vars
    OBVIOUS
  <2> USE DEF sessionVars, startVars, billVars, txVars
  <2>1. ASSUME NEW s \in Sessions, RequestStep(s) \/ TimerStep(s) PROVE UNCHANGED ChargeOf!vars
    BY <2>1, Stutters DEF RequestStep, TimerStep, RequestStop, RequestPause, RequestResume, ReapScan,
       IdleScan
  <2>2. ASSUME NEW n \in notices, NoticeStep(n) PROVE UNCHANGED ChargeOf!vars
    BY <2>2, Stutters DEF NoticeStep, NoticeCharger, NoticeSession
  <2>3. ASSUME NEW s \in Sessions, AnswerRemoteStart(s) PROVE UNCHANGED ChargeOf!vars
    BY <2>3, AskedStays DEF AnswerRemoteStart, IInv, TypeOK
  <2>4. ASSUME NEW s \in Sessions, StartTransaction(s) PROVE UNCHANGED ChargeOf!vars
    BY <2>4, Stutters DEF StartTransaction
  <2>5. ASSUME NEW o \in opening, StartNumber(o) PROVE UNCHANGED ChargeOf!vars
    BY <2>5, Stutters DEF StartNumber
  <2>6. ASSUME NEW t \in TxIds, StopTransaction(t) PROVE ChargeOf!Next
    BY <2>6, StopTransactionEnds DEF ChargeOf!Next, IInv
  <2>7. ASSUME NEW c \in Connectors, NEW st \in Reported, StatusNotification(c, st)
        PROVE  UNCHANGED ChargeOf!vars
    BY <2>7, Stutters DEF StatusNotification
  <2>8. ASSUME NEW st, ChargerNotification(st) PROVE UNCHANGED ChargeOf!vars
    BY <2>8, Stutters DEF ChargerNotification
  <2>9. CASE BootFind \/ BootCharger \/ BootConnectors
    BY <2>9, Stutters DEF BootFind, BootCharger, BootConnectors
  <2>10. CASE WatchdogOffline \/ SocketChange \/ Crash \/ UNCHANGED vars
    BY <2>10, Stutters DEF WatchdogOffline, SocketChange, Crash, vars
  <2> QED BY <2>1, <2>2, <2>3, <2>4, <2>5, <2>6, <2>7, <2>8, <2>9, <2>10, StartStepCharges,
             CallStepCharges, StartRowDraws
          DEF Next, ChargePointStep
<1> QED
  BY <1>1, <1>2, Invariance, ReservedStep, PTL
     DEF Spec, IInv, ImplementsCharge, ChargeOf!Spec
============================================================================
