# Verification of the EV Charge platform

TLA+ modules, TLC configurations and TLAPS proofs for the API of the EV Charge platform
(`src/apps/api`) and of the token refresh in the driver's app: charging sessions on OCPP
1.6J charge points and what they cost, the sockets and commands of the charge points,
their health and maintenance, reservations and the waitlist for their connectors, the
driver's wallet, payments through a gateway, and signing in. Paths without a prefix are
under `src/apps/api/src`.

## 1. The system

One NestJS process serves drivers and operators over HTTPS, holds the WebSocket of every
charge point, runs the timers, and keeps everything that must survive in PostgreSQL.
What it keeps in memory is lost when it restarts: pending OCPP calls, open sockets,
handlers between two statements. There is no queue and no job table; what a handler has
not done when the process dies is never done.

| Component | State | Operations | Talks to | Module |
|---|---|---|---|---|
| Status tables (`packages/domain/src/state`) | none | legal moves of sessions, connectors, chargers | used by all services | StatusRules |
| Session lifecycle (`sessions/`) | `charging_sessions`, connector and charger status | start, stop, pause, resume, confirmation by equipment, roll-back, finalization, reaper, idle timer | billing, connection manager, reservations, waitlist | OcppSessions, Charge |
| Inbound OCPP (`ocpp/ocpp-inbound.service`, `handlers/`) | `ocpp_transactions`, status rows | Boot, Status, Start, Stop, MeterValues, Authorize, Heartbeat | sessions, metering | OcppSessions, ConnectionManager |
| Connection manager, watchdog (`ocpp/`) | sockets and pending calls in memory | register, unregister, call with a timer, answer, OFFLINE after silence | charge point | ConnectionManager, ChargerCommands |
| Charger commands (`ocpp/charger-commands.service`) | `charger_commands` | execute, expire | connection manager | ChargerCommands, Dispatch |
| Session billing (`payments/session-billing.service`) | `payment_authorizations`, `billingStatus` | authorize, finalize, release | wallet, card provider | OcppSessions, WalletLedger, Metering |
| Metering, prices (`sessions/session-meter.processor`, `packages/domain/src/finance`) | energy and cost of a session | meter value, forced stop, final price | wallet, sessions | Metering |
| Wallet (`wallet/`) | `wallets`, `wallet_holds`, `wallet_transactions` | hold, capture, release, debit, credit | called in the caller's transaction | WalletLedger, Account |
| Payments (`payments/`) | `payments`, `payment_webhook_events` | create, webhook, expire, simulate, refund | gateway, wallet | Payments, Movements |
| Reservations (`reservations/reservations.*`) | `reservations`, connector status | create, cancel, activate, no-show, marks | sessions, timers | Reservations, Calendar |
| Waitlist (`reservations/waitlist.service`) | `charging_waitlist` | join, cancel, claim, notify, expire | sessions, timers | Waitlist |
| Health, incidents, maintenance (`operations/`) | `healthStatus`, `incidents`, `maintenance_windows` | one tick every 30 s; acknowledge, resolve; create, cancel | connection manager, commands | Operations, MaintenanceWindows |
| Authentication (`auth/`, `apps/driver/lib/api-client`) | `refresh_tokens`; the app's store | login, refresh with rotation, logout; the app's calls and their shared refresh | – | SignIn |
| Invitations, reconciliation (`invitations/`, `payments/payment-reconciliation.service`) | invitations, cases | create, accept, revoke; timers that report on the rows of others | – | not modelled |
| Realtime, events, notifications | log rows | fan-out | errors are caught and dropped | not modelled |
| Administration, web applications, simulators, deployment | master data | CRUD, presentation | – | not modelled |

`PROJECT.json` lists each with its status and the reason for what is left out.

### What is hard here

* **A handler is several commits.** `start()` is three transactions and a network call,
  `StopTransaction` is a statement and two transactions, an OCPP notification is three
  statements. Between them other handlers run and the process may die.
* **Read, await, write by id.** The usual shape of the code is a `findUnique`, a check,
  and later an `update({ where: { id } })` with no condition on the status read. Which
  of these are protected by a row lock, a unique index or a conditional update, and
  which are not, is what most of the properties are about.
* **Two sources of truth.** The server asks (RemoteStart, RemoteStop), the charge point
  decides (StartTransaction, StopTransaction), and answer, message and timeout come in
  any order. The platform's central rule, that only equipment starts and ends energy,
  is a property of that race.
* **Money in three places.** Hold, authorization and session billing status are separate
  rows; the payment has a flag of its own beside the wallet's entry; the gateway has a
  status no transaction covers.
* **Sockets outlive their meaning.** A replaced or silent socket closes long after its
  successor has registered, an answer comes after its timer, and a link may be lost
  without anyone noticing until the watchdog does.
* **Timers against everyone.** The scheduler's tick, the watchdog, the reaper and the
  expiry of calls and reservations work on lists they read earlier, while operators,
  drivers and equipment change the same rows.
* **READ COMMITTED.** Transactions use PostgreSQL's default isolation, so a value read
  before a lock is stale after it.

`PROJECT.json`, `hazards`, gives every one of these at its line.

## 2. The modules

```
StatusRules --- OcppSessions           ConnectionManager --- ChargerCommands
            \-- Reservations                              \-- MaintenanceWindows --- Operations

Abstract:  Charge        Calendar      Dispatch         Account       Movements
              ^             ^             ^                ^              ^
         OcppSessions  Reservations  ChargerCommands  WalletLedger     Payments

Metering        Waitlist        SignIn
```

A line is EXTENDS, an arrow a refinement: an INSTANCE with a mapping of the variables
(`ChargeOf`, `CalendarOf`, `DispatchOf`, `AccountOf`, `MovementsOf`), checked by TLC as a
property of the module's run and proved in its `...Proofs` module. Each detailed module of
the diagram has an `MC...` module and a `.cfg` for TLC, except StatusRules,
ConnectionManager and MaintenanceWindows, which others extend.

The abstract modules say in a page each what a component promises, without its handlers,
locks and rows:

| Module | Promise |
|---|---|
| Charge | Money is reserved once, before the charge point is asked for energy; it is debited at most once, after a delivery has ended; what was debited is not given back, and the reverse. |
| Calendar | A booking is accepted once and clear of the live bookings of its connector, keeps its window, and is closed for good; a connector is given to a session only when the end of the one before is on record. |
| Dispatch | Nothing is executed before its record says SENT, or twice; a record says only what the charge point answered; ACCEPTED, REJECTED and FAILED are final, TIMEOUT is not; a connector leaves service only by an accepted command. |
| Account | The balance changes only by posting an entry, each key once, and is never negative. |
| Movements | What is shown as confirmed is in the wallet; a top-up is credited only after it was paid; a refund takes back only what was put there; each once. |

Where two modules describe the same rows at two granularities, the text says which answers which question: the settlement of a session is
in OcppSessions, its locks in WalletLedger, its amounts in Metering.

### StatusRules
The three transition tables as constant functions (`SessionNext`, `ConnectorNext`,
`ChargerNext`), `CanMove` (writing the current status is always legal), and the two
different ways the code derives a charger's status from its connectors: over all of them
(`AggregateStatus`, `syncChargerStatus`) and from the notified one alone
(`NotifiedChargerStatus`, `applyConnectorStatus`).

### OcppSessions
Sessions on one charge point with several connectors.

| Model | Code |
|---|---|
| `session`, `connector`, `charger` | the three status columns |
| `start[s]` | how far the `start()` call of `s` is: `checked` (reads done), `created`, `authorized`, `waiting` (RemoteStart sent), `failing` (in the catch block), `releasing` (the roll-back has read the hold OPEN), `conflict`, `done` |
| `sawAvailable` | the charger status `start()` read before its transaction and uses in it |
| `remote[s]` | the RemoteStartTransaction as the charge point sees it |
| `hold`, `auth`, `billing` | `wallet_holds.status`, `payment_authorizations.status`, `billingStatus` |
| `debited` | the wallet's debits `billing-capture-<session>` |
| `txOf`, `lastTx`, `stoppedTx` | `ocpp_transactions` |
| `opening`, `overlapped` | StartTransaction handlers between their look for an open row and their insert; history: sessions for which one began while another was under way |
| `calls` | handlers between a read and the write it leads to |
| `notices`, `boot` | a StatusNotification or BootNotification between its statements |
| `online` | the connection manager has an open socket |

Granularity: one step is one database transaction, or one statement outside a transaction
with the reads just before it. An exception inside a transaction leaves no trace of the
transaction (`FinalizeThrows`, and the `ELSE` branches of `RollbackFailedStart`,
`ReapApply`, `PauseApply`, `ResumeApply`). What a
transaction reads unlocked before its first write is a step of its own wherever another
handler can come in between:

* `startTransaction()` is the look for an open row of the idTag (`StartTransaction`), the
  reading of the highest number (`StartNumber`), the insert (`StartRow`), and the
  confirmation of the session. There is no lock, and no index on the idTag: two messages
  whose handlers overlap open two rows with two numbers, or the second insert throws on the
  unique number. `OneOpenTransaction` therefore excepts the sessions in `overlapped`, and
  says that repetitions one after the other, with lost answers and crashes between row and
  confirmation, open one row.
* `releaseHold` reads the hold (`RollbackRead`) and updates it by id
  (`RollbackFailedStart`), also over a capture committed in between: the hold then says
  RELEASED although the wallet was debited. `captureHold` reads without a lock too, but
  behind `finalizeSessionRecord`'s update of the session row, which the roll-back writes
  before it commits, so no release comes between its read and its write. A hold already
  released is not captured: authorization and `billingStatus` then say CAPTURED and nothing
  is debited. When the two transactions wait for each other's row PostgreSQL undoes one
  (`RollbackUndone`, `FinalizeThrows`).

The environment. The charge point may open a transaction for any session whose
RemoteStart it accepted, repeat StartTransaction, stop at any moment after it has learnt
the transaction's number, and notify any status in `Reported` for any connector at any
time. By OCPP-J it has one request outstanding: `Answered` lets it send the next message
when the last has been handled. With `MayFail` it may give up waiting, so handlers
overlap; notifications remain one at a time. `MayFail` also lets the socket drop, the
watchdog mark the charger OFFLINE and the process die. The reaper looks at sessions at
least 60 s old and a command times out after 10 s, so it finds only calls of `start()`
that have ended (`ReapScan`). Pause and resume send nothing to OCPP equipment (the
provider's methods do nothing there).

`ImplementsCharge` maps `asked` to the sessions whose RemoteStart was sent, `drawing` to
those with an open OCPP row, `ended` to those with a stopped one, and `settled` to the
receipts. `money` is the debit where there is one and the hold where there is none: the
status column of the hold is not final, the debit is. `CaptureIsFinal` is about the
authorization, which is re-read before it is written.

Left out of this module: sessions that consume a reservation (Reservations has them),
card pre-authorization, the mock provider's immediate path, and meter values, which are in Metering. A
meter value changes no status of a prepaid session: its forced stop is written in a
transaction that the next line's exception undoes
(`sessions/session-meter.processor.ts:154`).

Reached in the model, and checked by no run because no invariant can be stated without
excepting it: the reaper fails a session and leaves its hold open
(`sessions/sessions.service.ts:776`, the exception `OpenHoldExplained` names); pause,
resume, the reaper and CHARGING_COMPLETE write a status by id over a session that has
ended since they read it (`:565`).

### ConnectionManager
The sockets of one charge point, seen from both ends, and the two rows kept with them. It
has no specification of its own: ChargerCommands and Operations compose its actions.

| Model | Code |
|---|---|
| `socket[k]`, `linked[k]` | `ws.readyState` on the server; whether the charge point's end is up. A silently lost link leaves the socket OPEN |
| `registered` | `connections.get(chargerId)` |
| `heard` | `lastMessageAt` and `lastSeenAt` are within the watchdog's threshold |
| `charger`, `connector` | `chargers.status`, `connectors.status` |
| `Connect`, `SocketClosed` | `register()`, by any socket not in use (sockets have no names); the close handler's `unregister()` and `markDisconnected` |
| `sweep` and `SweepStep` | `checkStale()`: first the registry's silent socket, then the rows of chargers not seen; `markOffline` is a read (`mark`, `markRow`) and a write (`write`, `writeRow`) |
| `BootReceived`, `BootCharger`, `BootConnectors` | `applyBoot`; `busy` stands for a live session, with which it ends early |

The environment: a charge point has one link at a time and, while it has one, its
heartbeats arrive within the threshold. The link is lost and the process dies at any
moment (`MaxFaults`). One charge point is enough: the registry is a map by charger, and
its entries do not touch each other.

### ChargerCommands
`execute()` of `ChargerCommandsService`, statement by statement (`at[c]`), over the
sockets of ConnectionManager.

| Model | Code |
|---|---|
| `row[c]` | `charger_commands.status` |
| `pending` | the manager's map of calls by unique id, with a timer each (`CallTimer`) |
| `frames` | calls and answers under way, each on its socket |
| `did[c]` | what the charge point did with the command: history for the property |
| `Receive`, `Match` | `resolveIncomingResult`, by unique id, whatever the socket |
| `RecordAnswer`, `RecordError`, `WriteConnector` | the end of `execute()`; `/timeout/i` on the error's text. The charge point may accept, reject, or answer with a CALLERROR, which ends the call as an error |
| `Expire`, `Overdue` | `expirePending()`: SENT rows whose `sentAt` is old |

`ImplementsDispatch` maps `record` to the row, `done` to what the charge point did, and
`service` to the connector. It shows where a time-out leaves the operator: the charge point
may execute afterwards, and a late answer may still turn TIMEOUT, but not FAILED, into the
truth.

A crash loses handlers, pending calls and frames; rows stay. The manager's own error text
is "OCPP ... timed out", which `/timeout/i` does not match, so a command whose timer fires
is recorded FAILED, although `docs/operations.md:22` speaks of TIMEOUT. A row left QUEUED
by a crash has no `sentAt` and is never expired; `SentSettles` excepts it by name.

### MaintenanceWindows and Operations
MaintenanceWindows has the rows of windows, the clock, and what must hold between them and
the connector (`WindowsInTime`). Operations is the scheduler of `operations/` over the same sockets: health, the CHARGER_OFFLINE incident
and the maintenance windows of one charge point.

| Model | Code |
|---|---|
| `at[Tick]`, the actions `Begin` to `Finish` | one tick: `refreshAll`, `detect`, the maintenance tick, awaited in that order |
| `station` | `stations.status`, as far as MAINTENANCE goes; set and reset by an administrator |
| `health`, `seen` | `chargers.healthStatus`, as far as OFFLINE and MAINTENANCE go; what the statements read so far make it. `MAINTENANCE` comes first, by the station or by a window |
| `keyed`, `stray` | the status of the incident that has the `openKey`; whether a row without it is live |
| `window[w]`, `phase[w]` | `maintenance_windows.status`; where now is with respect to the window |
| `list`, `sends` | the windows a tick has listed; the command a tick or a request awaits |
| `Acknowledge`, `Resolve`, `Cancel` | operators' requests, each a write by id |
| `Create`, `CreateActivate` | `create()`: the insert, ACTIVE at once for a window that has begun or has even passed, then `activate()`'s update and command |

Assumption: a tick ends before the next begins. It takes longer than 30 s only when it
awaits the timers of many commands. Commands are seen by their outcome.

Reached in the model, claimed by no document: cancelling an ACTIVE window sends nothing,
so the connector stays out of service until a boot frees it, and a boot frees it also
while a window lasts; a cancellation between a tick's list and its write is overwritten
(the window still ends); completing one of two overlapping windows puts the connector back
in service; a crash between a window's status and its command leaves the command unsent; a
late write of `markOffline` leaves a connected charger OFFLINE until its next boot, with its
incident open; `acknowledge()` writes ACKNOWLEDGED by id also over a row that has been closed
before or meanwhile (`operations/incidents.service.ts:137`), which is then live without its
key (`stray`), and the tick, which looks for the key, never closes it.

`docs/incidents.md:26` has the recovery resolve the open incident. `ReturnIsNoticed` says of
that what the code does: it is about the incident with the key, and about a charge point that
is back and that no late `markOffline` has marked OFFLINE again; the two cases just named are
outside it. `LostIsReported` is about a station that is not itself closed for maintenance,
since then health says MAINTENANCE first.

Left out: no code resolves a connector's fault; a charger that was never seen is never
reported.

### Metering
The money of one charge from its first meter value to its capture.

| Model | Code |
|---|---|
| `session`, `cost`, `energy`, `billing` | the session's columns |
| `hold`, `auth`, `balance`, `debits` | hold, authorization, wallet, and the session's debits by key |
| `device`, `register`, `readings` | the charge point, its register, meter values under way |
| `MeterRead`, `MeterCommit` | `handleMeterValue`: the read before its transaction, the transaction |
| `ForceStop`, `ForceStopAccepted`, `ForceStopRefused` | `forceStopSession`, which asks the charge point inside the transaction; the exception after it undoes what was written |
| `StopRead`, `StopWrite`, `CaptureWallet`, `CaptureCard`, `CaptureFails` | `confirmStopFromEquipment`, then `finalizeSessionRecord` with `finalizeInTx` |
| `FinalizeUndone` | an exception in `finalizeSessionRecord`: connector, charger or receipt |
| `Price` | `calculateSessionCost`, `calculateFinalCost` |

Messages of a socket are handled concurrently, so meter values overlap each other and the
stop; `RowLocked` is the row lock a forced stop keeps while it waits for the charge point.
`Measure` reaches every reading up to `MaxEnergy` in whole units; a tariff is in whole
cents per unit, so nothing is rounded. Crashes, and tariffs by the minute, are left out.

`finalizeSessionRecord` may throw and be undone after the stop has been written
(`sessions/sessions.service.ts:1052`, `:1061`, `:1168`): connector and charger are not in this
module, so `FinalizeUndone` may happen to any stop. The session then stays ACTIVE with its
authorization open, and nothing tries again. `EnvelopeSettles` names that as its one
exception; how it comes about is the subject of `StopSettles` (section 4). What
`EnvelopeSettles` adds is that the forced stop at the envelope, whose own writes are undone,
and its refusals take nothing away from the settlement by the charge point's stop.

Reached in the model: a meter value between the stop's write and its capture changes the
cost that is captured, or, after it, debits the wallet once more (`PrepaidIsNotMetered` is about the time before);
the authorization records
the whole cost although the hold covered less (`payments/session-billing.service.ts:194`);
a session is completed when its capture fails; parking is part of every final price.

### Waitlist
The queue of one station.

| Model | Code |
|---|---|
| `entry[e]` | a row of `charging_waitlist`; `lapsed` is `expiresAt < now`, `ahead` is history: the rows that stood before it |
| `join[j]`: `JoinLook`, `JoinPosition`, `JoinCreate` | `join()`: the look for an entry, the last position, the insert |
| `claim`: `ClaimRead`, `ClaimWrite` | `claim()`; a late claim writes EXPIRED |
| `call[h]`: `Choose`, `Call` | `notifyNext()`: the row in front, then NOTIFIED by id |
| `sweep`: `SweepList`, `SweepExpire`, `SweepCallsNext` | `expireClaims()`, each expiry followed by `notifyNext()` |
| `Cancel`, `WindowPasses` | `cancel()`, of any row; time |

A wish is any combination of scope, connector and type that `joinWaitlistSchema` accepts
(`Wish`); a null column restricts nothing, and the type of a named connector is filled in
(`Wanted`). The constant `Wishes` says which of them the run asks for.

Assumptions: the window is minutes long, so a handler that has chosen a row has written it
before the row's window passes; a pass of the timer ends before the next begins.

Reached in the model, claimed by no document: a driver who joins twice at once has two
entries, and two newcomers share a position; two handlers call the same row; a row that
was cancelled or claimed after it had been chosen is NOTIFIED again; a late claim and a
cancelled call pass the turn to nobody, so a free connector may stay unoffered; a
newcomer to one connector may stand before one who waits for the whole station. Outside
it: cancelling or missing a reservation frees a connector and calls nobody.

### SignIn
The driver's app on a phone against the rotation of refresh tokens.

| Model | Code |
|---|---|
| `token[t]`, `lapsed` | a row of `refresh_tokens` with its family; access tokens that have expired |
| `stored`, `call[r]`, `refresh[r]` | the app's store; `apiFetch()`; the `tryRefresh()` a call has started (`refreshInFlight`) |
| `RefreshChecked`, `RefreshIssued`, `RefreshReplaced`, `RefreshReused` | the statements of `refresh()`; a replaced token revokes its family |
| `Login`, `LogoutSend`, `LogoutEnds` | `login()`, `logout()` |
| `excused` | history: the driver has signed out, or a refresh was lost, since the last quiet sign-in |

Outside `StaysSignedIn`, by its `excused`: a lost answer to a refresh signs the driver out,
and a refresh in flight across a sign-out stores its tokens afterwards. Outside the model:
the web applications' proxy (`apps/admin/app/api/proxy/[...path]/route.ts`) refreshes for
each request on its own, so that parallel requests after an expiry may present a replaced
token and sign the operator out; and a reset of the password revokes every token of the user
(`auth/auth.service.ts:339`), which signs the driver out as it should.

### Reservations
Reservations of the connectors of one station, and what sessions, walk-in drivers and the
charge point do to the same connectors.

| Model | Code |
|---|---|
| `booking[r]`, `status[r]` | the row of `reservations`: its connector (or the station at large) and window, and its status |
| `connector[c]` | `connectors.status` |
| `session[s]`, `at[s]`, `under[s]` | the session's status as far as reservations see it, its connector, its `reservationId`. `ACTIVE` is ACTIVE or PAUSED, `CHARGING_COMPLETE` that or IDLE |
| `charged`, `ended` | history: the sessions the equipment started; those that were settled or timed out |
| `pending` | writes to a session by id that were decided from an earlier read: the rest of a `start()`, of a pause or resume, of the end of a charge or the idle timer, of the reaper |
| `calls` | statements that are still to come, of a driver's request, of a timer's pass, or of a session's start and end |
| `reports` | StatusNotifications between the look for a live reservation, the write, and the look for an ACTIVE session |
| `Request`, `CreateCheck`, `CreateRefused`, `CreateInsert` | `create()` |
| `CancelRead`, `Close`, `Look`, `Free` | `cancel()`; with `NoShowPass`, `expireNoShow()` |
| `ActivatePass`, `ActivateLook`, `ActivateReserve` | `activateDue()` |
| `StartCheck`, `StartLock`, `StartConflict`, `StartReturns`, `RollbackFailedStart` | the part of `start()` that deals with reservation and connector, and its two ends |
| `HoldRead`/`HoldWrite`, `IdleRead`, `OverWrite`, `ReapRead`/`ReapWrite` | `pause`, `resume`; the idle timer and CHARGING_COMPLETE; the reaper: read, then written by id whatever the status is by then |
| `ConfirmStart` + `MarkActive`, `Finish` + `MarkCompleted` | the end of a start and of a session, each followed by `markActive` or `markCompleted` outside the transaction |
| `ReportRead`, `ReportWrite`, `ReportSession` | `applyConnectorStatus` with its shield for live reservations |

Granularity: `create()` is its checks, then the look for a clash under the row lock of
the connector, then the insert and commit; the lock is held between the two
(`RowLocked`), and a request for the station at large locks nothing. Closing a
reservation is a write by id, a look at the connector and, if it was RESERVED, a write by
id. A pass of a timer lists its reservations once and handles them one after the other.

Assumptions: a pass of a timer ends before its next tick begins; a reservation stands for
its driver, since no one else may name it; the connectors are OCPP connectors. The mock
provider's sessions take another way through finalization, which never marks the
reservation completed. While it charges, the charge point reports the end of the charge
(FINISHING) and no connector free. `CHARGING` stands for SUSPENDED too.

COMPLETED and FAILED are not final. `pause` and `resume`
(`sessions/sessions.service.ts:565`, `:619`), the idle timer and CHARGING_COMPLETE
(`ocpp/ocpp-inbound.service.ts:244`) write by id over a session that has ended since it was
read, and the reaper (`sessions/sessions.service.ts:776`) over one the equipment has started.
A revived session may stand beside the connector's next one, and may be finished again. The
properties are what remains:

* `OneSessionPerConnector`: two sessions occupy a connector only if one of them was settled
  or timed out before (`ended`), as `OneUnsettledSession` says in OcppSessions;
* `UsedMeansCharged`: a used reservation has a session that the equipment started, whatever
  its status says now;
* in `ImplementsCalendar` a session uses its connector until its end is on record.

`ImplementsCalendar` maps `slot` to the booking of a row, `live` to the rows with a live
status, and `using` to the connectors of occupying sessions that are not in `ended`. The
connector's status is not in the promise: two timers write it by id, and it may be stale.

Weaknesses of the code that are behaviours of this model: the no-show timer lists a
CONFIRMED reservation while its driver's session starts, and closes it as missed after the
session has become ACTIVE and before `markActive` (`reservations.service.ts:254`);
`activateDue` can write
RESERVED after the reservation was cancelled or missed, and nothing then frees the
connector until the charge point reports; a driver whose reservation is for the station
at large may start on a connector reserved for another; a crash between the end of a
session and `markCompleted` leaves the reservation ACTIVE.

### WalletLedger and Account
One wallet and any number of concurrent transactions (`job[w]`). What a transaction reads
before it holds the wallet's row lock is a step of its own (`HoldRead`, `CaptureRead`,
`ReleaseRead`, `CreditRead`); from the lock to the commit is one step. `Abort` undoes a
transaction at any point. The unique indexes behind the idempotency keys are guards on
`Posted`. Reached in the model: holds that exceed the balance, because `createHold`
compares with a balance read before the lock (`wallet.service.ts:92`), and a release that
overwrites a capture (`:155`); the properties say that balance, statement, captures and
keys stay right all the same. Amounts are small naturals; the width of the column is not modelled.
`Account` is what the wallet promises: a balance that changes only by posting entries,
each key once, and never below zero.

### Payments
Payments against an external gateway that confirms, fails and refunds on its own and
reports in events that are repeated until processed and may arrive late, out of order or
before the payment's row is committed. `applyStatus` is a read (`ApplyRead`) and a write
(`ApplyWrite`), because the row is read without a lock. Asaas and the demo gateway are
one model: a webhook uses either the status it carries or that of a fresh look-up. The
wallet appears as the number of entries under each idempotency key, and may refuse a
refund's debit (`ApplyRefused`, `Abandon`). `internal` payments are those a finished
session creates; they have nothing at the gateway. `create()` asks for an immediate capture
(`authorizeOnly: false`), so its charge is assumed to be answered confirmed or pending and
never AUTHORIZED. Demo top-ups, which are
rows that never reach a gateway, are left out. `ImplementsMovements` leaves out events,
workers and the gateway's later course, and keeps what a driver can compare: payments shown
as confirmed, `walletCredited`, and the wallet's entries. Reached in the model: a refund notified
while the confirmation is being applied debits nothing (`payments.service.ts:351`); an
operator's refund whose debit throws stays REFUND_PENDING (`:308`); expiry writes EXPIRED
over CONFIRMED (`:344`); a charge whose row was lost to a crash has webhooks that fail for
ever (`:81`).

## 3. The runs

| Run | Instance | Shows | Distinct states |
|---|---|---|---|
| `sessions_contention` | 2 sessions, 1 connector, 2 transactions, 2 handlers in flight, no failures | energy needs a transaction and an authorization; one unsettled session per connector | 1.8 million |
| `sessions_equipment` | 1 session, 2 connectors, failures and crashes | settlement needs a stop; hold and authorization agree; open holds are explained; one open transaction but for overlaps; captures are final; **refinement** of `Charge` | 1.0 million |
| `wallet` | 3 workers, 2 sessions, 1 charge, 1 credit, amounts 1..2 | the statement explains the balance; captures are debits; **refinement** of `Account` | 51 thousand |
| `payments` | 1 payment, 1 event, 2 workers, demo outcomes | posted once; flag and wallet agree; moves are backed; confirmations are not forgotten; **refinement** of `Movements` | 1.1 million |
| `reservations` | 2 reservations, 2 sessions, 1 connector, 3 rows and late writes, 3 moments, crashes | live reservations do not overlap; one session not ended occupies a connector; closed stays closed; ACTIVE and COMPLETED are earned by a charge; **refinement** of `Calendar` | 1.2 million |
| `commands` | 2 commands, 2 sockets, 1 boot, 1 fault | answers are the equipment's; a connected charge point is the registered one; **refinement** of `Dispatch`; **liveness**: what was sent is settled | 339 thousand |
| `operations` | 1 window, 2 sockets, 1 boot, 1 fault, 1 act of an operator or administrator | windows take effect in their time; **liveness**: a lost charge point is reported, a returned one is noticed, windows end | 677 thousand |
| `metering` | 2 handlers of meter values, energy 0..3, envelope 3, wallet of 4, wallet or card | nothing is metered that is authorized; no cost beyond the envelope is shown; **liveness**: a charge beyond it is settled, or its settlement undone | 35 thousand |
| `waitlist` | 2 drivers, 2 connectors of one type, 2 rows, 1 request to join, 1 session's end, the timer, 1 crash | windows are not cut short; the queue's order is kept; **liveness**: calls end | 756 thousand |
| `sign_in` | 2 calls, 4 tokens, 1 lost refresh | the app's calls do not sign the driver out | 1.3 million |
| `stop_settles` | sessions | disagreement, section 4 | – |
| `billed_is_consumed` | metering, register not at zero | disagreement, section 4 | – |

The runs of metering, waitlist and sign-in also check the type invariant. All modules'
type invariants are proved.

### Bounds, and why they are enough

Contention needs two sessions on one connector, and each hazard there involves one start
against one other handler, so two handlers in flight produce each pair. The second
connector matters only because the charger's status is derived from both, and one session
and the charge point's notifications already drive both. Two transactions per instance
allow a repeated StartTransaction, overlapping or not, and a second charge. The equipment
run's charge point reports FINISHING, the end of a charge; what another status does to a
session is in the contention run, which has AVAILABLE too. Three wallet workers are the
smallest number with a capture, a release and a third request that spends the balance
between a read and its lock; a balance of 2 with amounts 1 and 2 makes every comparison
succeed, be equal, and fail. Two payment workers produce every pair of overlapping
operations; a repeated event is the same event taken again. With three rows (`MaxRows`, which
counts the writes a start() or a late handler still owes a session with the rows), two reservations meet one session, one
reservation meets two sessions, and a late write meets a session and a reservation, or the
next session of its connector; the clash of two
reservations, and a reservation whose driver finds a walk-in on its connector, are both among
these. `MaxCalls` = 1 lets a driver, the charge point or a handler's read begin something only
when nothing is in flight (a start() counts while its session is PREPARING), but requests to
create, the timers and the late writes themselves do not wait for it; two starts that
race for a connector are in the contention run. Crashes are not bounded in this run. Three moments hold a
window, a grace that ends inside it, and a window that follows it directly.

Two sockets are a connection and its replacement, which is what `register`, `unregister`
and the matching of late answers can confuse; one fault separates the two, silently or by
a crash; two commands are the smallest number whose answers can be swapped. One window and
one incident are enough for `operations`: windows meet only in the connector's status, and
the one property that reads it, `WindowsInTime`, is proved for any number of windows;
`MaxHandled` = 1 lets an operator, or an administrator who
closes the station, act once at any moment; opening it again and closing a stray row are not
counted. Two meter values and the stop are three writers of the same row; the tariff
has a connection fee, a minimum and parking of its own, so that every branch of the price
is taken, and the envelope lies inside the range of prices. Two rows of the waitlist make one driver pass or be
passed; three rows are beyond TLC, and the proofs cover them. The run's wishes have all three scopes, and STATION with a
connector named. Two calls of the app are a refresh and one who must join it; four tokens
are the first, two rotations and a new sign-in.

Bounds are the constants marked `bound:` in the modules, plus `Reported` (which statuses
are notified), `Simulated` (which demo outcomes are named) and `Wishes`. Symmetry sets
only permute model values no definition names, and no run with symmetry checks liveness.

Deadlock is checked in the session runs. The others allow it, because there the driver,
the operator or the charge point may simply do nothing more.

### Fairness, and why the code justifies it

All of it is weak fairness of steps that node itself drives: an awaited statement
returns and its handler goes on; `setInterval` and `setTimeout` fire; time passes. A crash
is not fair and, in the runs with liveness, happens a bounded number of times, so that a
handler it destroys is not assumed to end. Nothing is assumed of drivers, operators or links.

* `commands`: the handler of each command (its own timer ends every call), the scheduler's
  expiry, the watchdog. The charge point may never answer.
* `operations`: the tick, each awaited command (but not `create()`'s step from insert to update), the watchdog, a boot's handler, time. The
  close event of a socket is not assumed: a lost link is found by silence. `LostIsReported`
  and `ReturnIsNoticed` are about a charge point that is gone, or back and booted, for good.
* `waitlist`: calls lapse, the timer runs, handlers in flight go on. Nobody has to claim.
* `metering`: the charge point goes on measuring while it charges and sends (and repeats)
  the StopTransaction of what it has ended, as OCPP 1.6 requires; handlers go on. It may
  refuse a RemoteStop `MaxRefusals` times, and the driver need not stop: the property is
  that the envelope does. An undone settlement is not repeated.

Sessions, wallet, payments, reservations and sign-in have no fairness. A session's end
rests on the charge point alone, and `StopSettles` below shows that even a stopped one may
stay open.

## 4. Disagreements found

Each is a run that checks one statement taken from the repository's documents, with the
shortest behaviour TLC finds.

* **`StopSettles`** – `docs/architecture/session-lifecycle.md:49`. Session 1 charges on
  connector 1, session 2 has just been created on connector 2. StopTransaction for
  session 1 marks the OCPP row stopped; finalization frees connector 1, derives PREPARING
  for the charger, finds CHARGING to PREPARING illegal, throws, and is undone. A repeated
  StopTransaction is answered as a replay. A crash between the two commits ends the same.
* **`BilledIsConsumed`** – `docs/billing.md:20`. A charge point's energy register is
  absolute, as `Energy.Active.Import.Register` is. Meter values are booked as the session's
  energy as they come; StopTransaction subtracts `meterStart`, and the greater of the two
  is billed. A register that stood at 1 when the charge began bills one unit that was not
  consumed.

The weaknesses section 2 lists as "reached in the model" are behaviours too; each module
names them where they are, so that a reader who changes that code knows what the model
will show.

## 5. What is proved

Theorems are in eight `...Proofs` modules. They hold for every value of the constants that
satisfies the named assumptions of the module they extend, which TLC evaluates in every
run of it: `SessionsAssumption`, `BoundsAssumption`, `ReportedAssumption` (OcppSessions);
`OpeningAssumption`, `AmountAssumption` (WalletLedger); `NamesAssumption`,
`TimesAssumption`, `ReportedAssumption` (Reservations); `NoEventAssumption`,
`SimulatedAssumption` (Payments); `SocketsAssumption`, `LinkBoundsAssumption`,
`AskAssumption` (ChargerCommands and the sockets it extends);
`MethodsAssumption`, `TariffAssumption`,
`AmountsAssumption` (Metering); `NoneAssumption`, `WishesAssumption`, `WaitlistBounds`
(Waitlist); `SignInBounds` (SignIn). The theorems about Operations, which ConnectionProofs takes by
INSTANCE, state its `OperationsAssumption` as their hypothesis.

**Sessions.** All properties of the two runs. None but the type invariant is inductive. The strengthening `IInv` adds
- `StageInv`: what each stage of `start()` implies about the session and its money (a call
  that waits or fails has created its session and, past `authorized`, opened its hold);
- `CommandInv`: a command is sent only for an authorized session, and a transaction exists
  only for a session that was commanded;
- `CallInv`: what a handler in flight knows: a `confirmStart` has its row, a `confirmStop`
  or `finalize` has a stopped row, a `pause`, `resume` or `complete` has seen a session
  that had a transaction.

Each invariant is then one lemma per group of actions. `OpenHoldExplained` is the delicate
one: it needs that the reaper records its time-out in the same step, that a roll-back
releases before it fails the session, and that finalization without a named stop reason
keeps the recorded one. `OneOpenTransaction` is proved beside `IInv` by
`OverlapInv`: outside `overlapped` a session has one StartTransaction handler in flight at
most, which found no open row and will find none when it inserts. `OneUnsettledSession` rests on `WriterInv`: a
handler that will write a status by id has seen its session charging, so the session is
never rolled back, and if it has ended in the meantime a receipt or a time-out marks it.
`start()` looks for every live status, hence only a marked session comes back to life
beside another. `SessionsImplementCharge` needs, beside `IInv`, that money is reserved before
the command is sent and that a captured hold has been debited (`ReservedInv`); a release that
overwrites a captured hold is a stutter, because the debit stays.

**Wallet.** The three properties of the run, and three more (types, a balance that is
never negative, keys that post once). The key lemma is `EveryStepMoves`: every step
either posts one entry, under a key not posted before, whose balance is the new balance
and at least zero, or leaves balance and statement alone. Non-negativity, the statement's
arithmetic, uniqueness of keys and the refinement of `Account` follow from it.
`CapturedIsDebited` needs `CaptureInv`: an open hold whose capture is in flight has
captured nothing, and no entry carries its key.

**Payments.** All five properties. `PaymentInv` says what each worker holds (`JobInv`:
a worker that is about to confirm has a payment paid at the gateway, a refund under way
that will debit has seen a credit), what the gateway and its events imply (`GatewayInv`,
`EventInv`: an event that confirms is about a paid charge), and what a closed or confirmed
status implies (`StatusInv`, `RowInv`). Most of it rests on facts that only grow: `paid`,
`credited`, the time marks and the wallet's entries (`Grows`), which is why a decision
taken on an old row is still safe. `MovedOnce` is the idempotency keys' doing,
`ConfirmationsCount` that of marking the event after the commit. In
`PaymentsImplementMovements` the one step that is not a stutter or a row of its own is
`applyStatus`'s write (`WriteIsMovement`): whatever old row it was decided on, it credits,
refunds, confirms or closes, and confirms only what has been credited.

**Reservations.** All five properties of the run, along two invariants. `OverlapInv` is
about `create()`: rows and requests have a booking (`RowsBooked`), a request in flight
has no row yet (`RequestsAreNew`) and is either before or after its look for a clash
(`OneRequest`), at most one request per connector is between look and insert
(`OneInsertPerConnector`, the row lock), and what that one saw still holds
(`InsertsDoNotClash`). The last is where the lock is needed: another insert on the
connector is the only step that makes a reservation live. `ClosesRows` says that what is
about to be closed exists, so a write by id brings no row to life; with it
`ClosedStaysClosed` follows, `markActive` and `markCompleted` being conditional on a
live status. `UseInv` is about sessions: a late write that makes a
session live was decided for one the equipment had started, and such a session either still
charges or has its end on record (`FatesInv`); a mark to come names a reservation whose
session has charged (`MarksAreEarned`). `OneSessionPerConnector` is proved there without any
use of the connector's status: the look for occupying sessions inside the transaction is
what carries it, so that a stray RESERVED or AVAILABLE does no harm, and only a session in
`ended` comes back beside another.
`ReservationsImplementCalendar` joins the two invariants: an insert books clear of what is
live, everything else closes, hands a free connector over, or leaves the calendar alone.

**Sockets: commands and the scheduler** (ConnectionProofs). `LinkedIsRegistered` is inductive
with the types: an open socket that is linked is the newest, and `unregister` looks whose entry it removes. `AnswerInv` adds to
`AnswersAreTheEquipments` that a command is sent at most once (`SentOnce`), that each
answer under way says what the charge point did (`FramesAgree`), and that a handler holds
only such an answer (`HandlersAgree`).
The refinement of `Dispatch` needs to know how far a handler has come from the record it
owns and the reverse (`RowsInv`), and that a handler waits exactly while its call is pending
(`TimersInv`), so that a late answer finds no handler that has gone on. The scheduler is
proved over the same sockets, with the lemmas about them used once. `OpsInv` adds to its
types and to `WindowsInTime` what a tick knows while it waits: a command under way, or a
`create()` between its two writes, concerns a window that has begun (`Sending`), what is listed is still due or still over (`Listed`,
for time only goes forward), and the key it saw free is free (`KeyIsFree`).

**Metering.** `MoneyInv`: the stages of the stop follow the device and the session
(`StopFollows`), and before the settlement hold and authorization stand as they were
opened (`StillAuthorized`), so that the branch that debits the wallet is not reached, and
the branch that would show more than the envelope throws. The type invariant needs that
the price is monotone in the energy.

**Waitlist.** `CallsInv` for `NotCutShort`: a row that has lapsed is in no handler's hands,
and what the timer has listed or a late claim has read has lapsed. `QueueInv` for
`FirstComeFirstCalled`: the rows ahead of a row exist and have lower positions
(`AheadInv`, `JoinInv`), positions do not change, and a chosen row passes over none that
waits for the same connector (`PassedInv`); nobody comes back to WAITING.

**SignIn.** `SingleFlight` (at most one refresh is under way, and every call that waits
awaits it) with `SignedIn`: the refresh in flight replaces the row that is stored, and a
row once replaced is not stored again, unless `excused`.

**Only model-checked.** Every invariant, action property and refinement of the runs is
proved. Out of the prover's reach, and so TLC's alone: the liveness properties `SentSettles`, `LostIsReported`,
`ReturnIsNoticed`, `WindowsEnd`, `EnvelopeSettles` and `CallsEnd`; `ENABLED`; induction
over data; and anything that rests on a `RECURSIVE` operator, of which there is none.

## 6. Plan

What would add most next:

1. The mock provider's sessions, which start and finish without equipment, and the
   simulator's state machine; with them the paths of `sessions.service.ts` and
   `session-meter.processor.ts` that OcppSessions and Metering leave out.
2. Connectors of several types in the waitlist's run, and Reservations composed with
   Waitlist: the two paths that free a connector and call nobody.
3. Windows of a station, with a session in progress.
4. Invitations; the web applications' refresh.

## 7. Not modelled

Formats (OCPP frames, HTTP, JSON), tenancy checks, tax and rounding of a tariff, receipts'
contents, notifications, the screens of the web and driver applications and deployment:
they hold no state the modelled behaviour depends on. These are most of the repository:
of the lines counted as its implementation, the greater part are controllers, DTOs,
read-only queries and user interfaces, which have no transition to model.

The station page is a read-only view. Two of its rules differ from the services they stand
for: it offers a charge (`stations/stations.service.ts:595`) where `start()` refuses
(`sessions/sessions.service.ts:214`), and its count of free connectors includes those of
OFFLINE chargers, unlike `docs/charger-health.md:50`. Payment methods (which card is the
default) and invitations (an acceptance that overwrites a revocation) each have one race
on a row nothing else reads. Reconciliation derives reports and opens cases it never
closes.

Wall-clock time is abstracted to the order of events; where the code compares two
durations the model uses the result (60 s against 10 s in the reaper, two timeouts in the
expiry of commands, the window of a call against the handler that opens it).
