------------------------------ MODULE Metering ------------------------------
(***************************************************************************)
(* The money of one charge while it is measured: SessionMeterProcessor,    *)
(* which prices every meter value, stops the charge at the authorized      *)
(* envelope and debits the wallet when nothing is authorized, against the  *)
(* charge point's StopTransaction, which prices the charge once more and   *)
(* captures.                                                               *)
(*                                                                         *)
(* Messages of one socket are handled concurrently: a handler reads the    *)
(* session, awaits, and works on in a transaction with what it has read.   *)
(* A transaction that has updated the session's row keeps it locked, also  *)
(* while the forced stop waits for the charge point's answer.              *)
(*                                                                         *)
(* The charge has started: the session is ACTIVE and AUTHORIZED, from a    *)
(* hold on the wallet or from a card.  How it gets there, and crashes, are *)
(* OcppSessions' subject; the ledger's own locks are WalletLedger's.       *)
(***************************************************************************)
EXTENDS Integers, FiniteSets, FiniteSetsExt

CONSTANTS
  Meters,       \* bound: handlers of meter values in flight at once
  Methods,      \* how the driver may pay: "WALLET", "CARD"
  Tariff,       \* the snapshot on the session: [perKwh, connection, minimum, parking], in cents
  Limit,        \* the authorized envelope
  Funds,        \* the wallet's balance when the charge starts
  MeterStart,   \* the charge point's energy register at StartTransaction
  MaxEnergy,    \* bound: where the register stops
  MaxRefusals,  \* bound: RemoteStop calls of the processor that fail
  MaxSpent      \* bound: what other debits take from the wallet meanwhile

ASSUME MethodsAssumption == Methods \subseteq {"WALLET", "CARD"}
ASSUME TariffAssumption ==
  Tariff \in [perKwh : Nat, connection : Nat, minimum : Nat, parking : Nat]
ASSUME AmountsAssumption ==
  /\ Limit \in Nat \ {0} /\ Funds \in Nat /\ MeterStart \in Nat /\ MaxEnergy \in Nat
  /\ MaxRefusals \in Nat /\ MaxSpent \in Nat
  /\ MeterStart <= MaxEnergy /\ Limit <= Funds

VARIABLES
  method,    \* payment_authorizations.method
  session,   \* charging_sessions.status
  cost,      \* charging_sessions.cost_cents
  energy,    \* charging_sessions.energy_kwh
  billing,   \* charging_sessions.billing_status
  hold,      \* wallet_holds: status and capturedCents
  auth,      \* payment_authorizations: status and capturedAmountCents
  balance,   \* wallets.balance_cents
  debits,    \* the session's debits: idempotency key and amount
  spent,     \* taken by other debits
  device,    \* the charge point: "charging", "ending" or "stopped"
  register,  \* its energy register
  readings,  \* meter values under way
  meter,     \* meter[m]: a handler of a meter value
  stop,      \* the handler of StopTransaction
  refusals   \* RemoteStop calls that failed

rowVars    == <<session, cost, energy, billing, hold, auth, balance, debits>>
deviceVars == <<device, register, readings>>
vars == <<method, rowVars, spent, deviceVars, meter, stop, refusals>>

----------------------------------------------------------------------------
(* Vocabulary *)

Most(a, b)  == Max({a, b})
Least(a, b) == Min({a, b})

\* calculateSessionCost, of a whole number of units.  What is charged by the minute grows as the
\* energy does and is left out.  calculateFinalCost always adds the parking price.
Subtotal(e, complete) ==
  e * Tariff.perKwh + Tariff.connection + (IF complete THEN Tariff.parking ELSE 0)

Price(e, complete) ==
  IF Subtotal(e, complete) = 0 THEN 0 ELSE Most(Subtotal(e, complete), Tariff.minimum)

MaxCost == Price(MaxEnergy, TRUE)

Idle   == [at |-> "idle", energy |-> 0, before |-> 0]
NoStop == [at |-> "none", energy |-> 0, cost |-> 0]

\* debitForSession's keys: 0 for billing-capture-<session>, n for meter-<session>-<n>.
Debited(key) == \E d \in debits : d.key = key
Debit(key, amount) ==
  /\ debits' = debits \union {[key |-> key, amount |-> amount]}
  /\ balance' = balance - amount

\* Mutant: only a hold counts as paid in advance.
PrepaidByHold == hold.status = "OPEN"

Prepaid == hold.status = "OPEN" \/ auth.status = "AUTHORIZED"

\* A transaction that has updated the session's row and is not over.
RowLocked == \E m \in Meters : meter[m].at = "stopping"

----------------------------------------------------------------------------
(* The charge point.  It reports its register, and stops for the driver, the vehicle or a *)
(* RemoteStop; its StopTransaction comes after that.                                      *)

Measure ==
  /\ device = "charging"
  /\ register' = Least(register + 1, MaxEnergy)
  /\ readings' = readings \union {register'}
  /\ UNCHANGED <<method, rowVars, spent, device, meter, stop, refusals>>

EndCharge ==
  /\ device = "charging"
  /\ device' = "ending"
  /\ UNCHANGED <<method, rowVars, spent, register, readings, meter, stop, refusals>>

SendStop ==
  /\ device = "ending"
  /\ device' = "stopped"
  /\ stop' = [NoStop EXCEPT !.at = "sent"]
  /\ UNCHANGED <<method, rowVars, spent, register, readings, meter, refusals>>

----------------------------------------------------------------------------
(* handleMeterValue *)

\* The read before the transaction: the session must be ACTIVE.
MeterRead(m, e) ==
  /\ meter[m] = Idle /\ e \in readings
  /\ readings' = readings \ {e}
  /\ meter' = IF session = "ACTIVE"
              THEN [meter EXCEPT ![m] = [at |-> "read", energy |-> e, before |-> cost]] ELSE meter
  /\ UNCHANGED <<method, rowVars, spent, device, register, stop, refusals>>

New(m)   == Price(meter[m].energy, FALSE)
Delta(m) == New(m) - meter[m].before
Owed(m)  == ~Prepaid /\ Delta(m) > 0 /\ ~Debited(New(m))

\* Mutant: the envelope is not looked at.
OverLimitNever(m) == FALSE

OverLimit(m) == Prepaid /\ New(m) > Limit

Unfunded(m)  == Owed(m) /\ balance < Delta(m)

MeterCommit(m) ==
  /\ meter[m].at = "read" /\ ~RowLocked
  /\ ~OverLimit(m) /\ ~Unfunded(m)
  /\ energy' = meter[m].energy
  /\ cost' = New(m)
  /\ IF Owed(m) THEN Debit(New(m), Delta(m)) ELSE UNCHANGED <<debits, balance>>
  /\ meter' = [meter EXCEPT ![m] = Idle]
  /\ UNCHANGED <<method, session, billing, hold, auth, spent, deviceVars, stop, refusals>>

\* forceStopSession: the charge point is asked while the transaction stays open.
ForceStop(m) ==
  /\ meter[m].at = "read" /\ ~RowLocked
  /\ OverLimit(m) \/ Unfunded(m)
  /\ meter' = [meter EXCEPT ![m] = IF session = "ACTIVE" THEN [@ EXCEPT !.at = "stopping"] ELSE Idle]
  /\ UNCHANGED <<method, rowVars, spent, deviceVars, stop, refusals>>

\* Mutant: what forceStopSession writes is committed.
ForceStopAcceptedCommits(m) ==
  /\ meter[m].at = "stopping"
  /\ device = "charging"
  /\ device' = "ending"
  /\ session' = "FAILED"
  /\ meter' = [meter EXCEPT ![m] = Idle]
  /\ UNCHANGED <<method, cost, energy, billing, hold, auth, balance, debits, spent, register,
                 readings, stop, refusals>>

\* The answer comes, the session is written FAILED, and the exception that follows undoes
\* everything the transaction wrote.
ForceStopAccepted(m) ==
  /\ meter[m].at = "stopping"
  /\ device = "charging"
  /\ device' = "ending"
  /\ meter' = [meter EXCEPT ![m] = Idle]
  /\ UNCHANGED <<method, rowVars, spent, register, readings, stop, refusals>>

\* No answer, or the charge point has nothing left to stop.
ForceStopRefused(m) ==
  /\ meter[m].at = "stopping"
  /\ IF device = "charging" THEN refusals < MaxRefusals /\ refusals' = refusals + 1
                            ELSE UNCHANGED refusals
  /\ meter' = [meter EXCEPT ![m] = Idle]
  /\ UNCHANGED <<method, rowVars, spent, deviceVars, stop>>

----------------------------------------------------------------------------
(* confirmStopFromEquipment and finalizeSessionRecord *)

\* The row is read; the final energy is the greater of the two.
StopRead ==
  /\ stop.at = "sent"
  /\ stop' = IF session # "ACTIVE" THEN [stop EXCEPT !.at = "done"]
             ELSE LET e == Most(energy, register - MeterStart)
                  IN [at |-> "read", energy |-> e, cost |-> Most(cost, Price(e, TRUE))]
  /\ UNCHANGED <<method, rowVars, spent, deviceVars, meter, refusals>>

\* Hold or authorization exist, so nothing is debited here.
StopWrite ==
  /\ stop.at = "read" /\ ~RowLocked
  /\ energy' = stop.energy
  /\ cost' = stop.cost
  /\ stop' = [stop EXCEPT !.at = "written"]
  /\ UNCHANGED <<method, session, billing, hold, auth, balance, debits, spent, deviceVars,
                 meter, refusals>>

Finishes ==
  /\ stop.at = "written" /\ ~RowLocked
  /\ session' = "COMPLETED"
  /\ stop' = [stop EXCEPT !.at = "done"]
  /\ UNCHANGED <<method, cost, energy, spent, deviceVars, meter, refusals>>

\* captureHold takes no more than the hold; the authorization records the whole cost.
CaptureWallet ==
  LET amount == Least(cost, Limit) IN
  /\ Finishes
  /\ method = "WALLET" /\ amount <= balance
  /\ IF amount > 0 THEN Debit(0, amount) ELSE UNCHANGED <<debits, balance>>
  /\ hold' = [status |-> "CAPTURED", captured |-> amount]
  /\ auth' = [status |-> "CAPTURED", captured |-> cost]
  /\ billing' = "CAPTURED"

CaptureCard ==
  /\ Finishes
  /\ method = "CARD"
  /\ auth' = [status |-> "CAPTURED", captured |-> cost]
  /\ billing' = "CAPTURED"
  /\ UNCHANGED <<hold, balance, debits>>

\* Mutant: the word for a session is written for its billing.
CaptureFailsFailed ==
  /\ Finishes
  /\ method = "WALLET" => Least(cost, Limit) > balance
  /\ billing' = "FAILED"
  /\ UNCHANGED <<hold, auth, balance, debits>>

\* The wallet has too little, or the gateway refuses: the session is completed unpaid.
CaptureFails ==
  /\ Finishes
  /\ method = "WALLET" => Least(cost, Limit) > balance
  /\ billing' = "PAYMENT_FAILED"
  /\ UNCHANGED <<hold, auth, balance, debits>>

\* The connector or the charger is in a status from which the charge's end allows no transition, or
\* the receipt cannot be written: the transaction is undone with its capture.  What StopWrite wrote
\* stays, the session stays ACTIVE, and nobody finalizes it again.
FinalizeUndone ==
  /\ stop.at = "written" /\ ~RowLocked
  /\ stop' = [stop EXCEPT !.at = "undone"]
  /\ UNCHANGED <<method, rowVars, spent, deviceVars, meter, refusals>>

----------------------------------------------------------------------------

\* Another debit of the same wallet; debits do not look at holds.
SpendElsewhere ==
  /\ spent < MaxSpent /\ balance > 0
  /\ spent' = spent + 1
  /\ balance' = balance - 1
  /\ UNCHANGED <<method, session, cost, energy, billing, hold, auth, debits, deviceVars, meter,
                 stop, refusals>>

Init ==
  /\ method \in Methods
  /\ session = "ACTIVE" /\ cost = 0 /\ energy = 0 /\ billing = "AUTHORIZED"
  /\ hold = [status |-> IF method = "WALLET" THEN "OPEN" ELSE "NONE", captured |-> 0]
  /\ auth = [status |-> "AUTHORIZED", captured |-> 0]
  /\ balance = Funds /\ debits = {} /\ spent = 0
  /\ device = "charging" /\ register = MeterStart /\ readings = {}
  /\ meter = [m \in Meters |-> Idle]
  /\ stop = NoStop
  /\ refusals = 0

MeterStep(m) == \/ \E e \in readings : MeterRead(m, e)
                \/ MeterCommit(m) \/ ForceStop(m) \/ ForceStopAccepted(m) \/ ForceStopRefused(m)

StopStep == \/ StopRead \/ StopWrite \/ CaptureWallet \/ CaptureCard \/ CaptureFails
            \/ FinalizeUndone

Next ==
  \/ Measure \/ EndCharge \/ SendStop
  \/ \E m \in Meters : MeterStep(m)
  \/ StopStep
  \/ SpendElsewhere

(***************************************************************************)
(* Fairness.  The charge point goes on measuring while it charges, sends   *)
(* the StopTransaction of what it ended (and repeats it until it is        *)
(* answered), and handlers and transactions that can go on do.  That it    *)
(* obeys a RemoteStop is not assumed beyond MaxRefusals, nor that the      *)
(* driver stops.                                                           *)
(***************************************************************************)
Fairness ==
  /\ WF_vars(Measure) /\ WF_vars(SendStop) /\ WF_vars(StopStep)
  /\ \A m \in Meters : WF_vars(MeterStep(m))

Spec == Init /\ [][Next]_vars /\ Fairness

----------------------------------------------------------------------------
(* Properties *)

\* Type invariant.
TypeOK ==
  /\ method \in Methods
  /\ session \in {"ACTIVE", "COMPLETED", "FAILED"}
  /\ cost \in 0..MaxCost /\ energy \in 0..MaxEnergy
  /\ billing \in {"AUTHORIZED", "CAPTURED", "PAYMENT_FAILED"}
  /\ hold \in [status : {"NONE", "OPEN", "CAPTURED"}, captured : 0..Limit]
  /\ auth \in [status : {"AUTHORIZED", "CAPTURED"}, captured : 0..MaxCost]
  /\ balance \in 0..Funds
  /\ debits \subseteq [key : 0..MaxCost, amount : 1..MaxCost]
  /\ spent \in 0..MaxSpent
  /\ device \in {"charging", "ending", "stopped"}
  /\ register \in MeterStart..MaxEnergy
  /\ readings \subseteq MeterStart..MaxEnergy
  /\ meter \in [Meters -> [at : {"idle", "read", "stopping"}, energy : 0..MaxEnergy, before : 0..MaxCost]]
  /\ stop \in [at : {"none", "sent", "read", "written", "done", "undone"},
               energy : 0..MaxEnergy, cost : 0..MaxCost]
  /\ refusals \in 0..MaxRefusals

\* docs/billing.md:13: while the charge is authorized, by hold or by card, its meter values
\* debit nothing.
PrepaidIsNotMetered ==
  auth.status = "AUTHORIZED" => debits = {}

\* Until the charge point has stopped, the driver is shown no cost beyond the envelope: the
\* write that would is undone, whatever becomes of the forced stop.
ShownWithinEnvelope ==
  stop.at \in {"none", "sent", "read"} => cost <= Limit

BeyondEnvelope == {e \in MeterStart..MaxEnergy : Price(e, FALSE) > Limit}

\* A charge that measures more than the envelope is stopped, and settled by the charge point's own
\* stop, since the forced stop itself closes nothing that the capture needs open; the one exception
\* is a settlement that is undone with its transaction (FinalizeUndone, and OcppSessions'
\* StopSettles for how that comes about).
EnvelopeSettles ==
  register \in BeyondEnvelope ~>
    \/ session = "COMPLETED" /\ billing \in {"CAPTURED", "PAYMENT_FAILED"}
    \/ stop.at = "undone"

\* docs/billing.md:20: what was consumed is captured, and nothing besides.
BilledIsConsumed ==
  billing = "CAPTURED" /\ method = "WALLET" =>
    MapThenSumSet(LAMBDA d : d.amount, debits) = Least(Price(register - MeterStart, TRUE), Limit)
============================================================================
