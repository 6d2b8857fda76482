---------------------------- MODULE MeteringProofs ----------------------------
(***************************************************************************)
(* Theorems about Metering, for every tariff, envelope, balance and        *)
(* register, and every number of handlers.                                 *)
(***************************************************************************)
EXTENDS Metering, TLAPS

----------------------------------------------------------------------------
(* Amounts *)

\* The greater and the lesser of two numbers.
LEMMA MostLeast ==
  ASSUME NEW a \in Int, NEW b \in Int
  PROVE  /\ Most(a, b) = IF a >= b THEN a ELSE b
         /\ Least(a, b) = IF a <= b THEN a ELSE b
<1>1. Most(a, b) = CHOOSE x \in {a, b} : \A y \in {a, b} : x >= y BY DEF Most, Max
<1>2. Least(a, b) = CHOOSE x \in {a, b} : \A y \in {a, b} : x <= y BY DEF Least, Min
<1>3. \E x \in {a, b} : \A y \in {a, b} : x >= y OBVIOUS
<1>4. \E x \in {a, b} : \A y \in {a, b} : x <= y OBVIOUS
<1>5. Most(a, b) \in {a, b} /\ \A y \in {a, b} : Most(a, b) >= y BY <1>1, <1>3
<1>6. Least(a, b) \in {a, b} /\ \A y \in {a, b} : Least(a, b) <= y BY <1>2, <1>4
<1> QED BY <1>5, <1>6

\* More energy costs no less.
LEMMA ProductGrows ==
  ASSUME NEW a \in Nat, NEW b \in Nat, NEW k \in Nat, a <= b
  PROVE  a * k \in Nat /\ b * k \in Nat /\ a * k <= b * k
<1>1. (b - a) * k \in Nat /\ b * k = a * k + (b - a) * k OBVIOUS
<1> QED BY <1>1

\* What the minimum makes of a subtotal grows with it.
Priced(subtotal, minimum) == IF subtotal = 0 THEN 0 ELSE Most(subtotal, minimum)

LEMMA MinimumGrows ==
  ASSUME NEW a \in Nat, NEW b \in Nat, NEW k \in Nat, a <= b
  PROVE  Priced(b, k) \in Nat /\ Priced(a, k) \in 0..Priced(b, k)
<1>1. /\ Most(a, k) = IF a >= k THEN a ELSE k
      /\ Most(b, k) = IF b >= k THEN b ELSE k
  BY MostLeast
<1> QED BY <1>1 DEF Priced

\* A price is an amount, and no energy the register can show costs more than MaxCost.
LEMMA PriceBound ==
  ASSUME NEW e \in 0..MaxEnergy
  PROVE  Price(e, TRUE) \in 0..MaxCost /\ Price(e, FALSE) \in 0..MaxCost /\ MaxCost \in Nat
<1> USE TariffAssumption, AmountsAssumption
<1> DEFINE low == e * Tariff.perKwh
           high == MaxEnergy * Tariff.perKwh
           connection == Tariff.connection
           parking == Tariff.parking
           minimum == Tariff.minimum
           whole == Subtotal(e, TRUE)
           running == Subtotal(e, FALSE)
           most == Subtotal(MaxEnergy, TRUE)
<1>1. low \in Nat /\ high \in Nat /\ low <= high BY ProductGrows
<1>2. connection \in Nat /\ parking \in Nat /\ minimum \in Nat OBVIOUS
<1>3. /\ whole = low + connection + parking
      /\ running = low + connection + 0
      /\ most = high + connection + parking
  BY DEF Subtotal
<1>4. /\ Price(e, TRUE) = Priced(whole, minimum) /\ Price(e, FALSE) = Priced(running, minimum)
      /\ MaxCost = Priced(most, minimum)
  BY DEF Price, MaxCost, Priced
<1> HIDE DEF low, high, connection, parking, minimum, whole, running, most
<1>5. /\ whole \in Nat /\ running \in Nat /\ most \in Nat
      /\ whole <= most /\ running <= most
  BY <1>1, <1>2, <1>3
<1>6. Priced(most, minimum) \in Nat /\ Priced(whole, minimum) \in 0..Priced(most, minimum)
  BY <1>2, <1>5, MinimumGrows
<1>7. Priced(running, minimum) \in 0..Priced(most, minimum)
  BY <1>2, <1>5, MinimumGrows
<1> QED BY <1>4, <1>6, <1>7, Zenon

----------------------------------------------------------------------------
(* Type correctness *)

\* What a handler prices is an amount.
LEMMA MeterAmounts ==
  ASSUME TypeOK, NEW m \in Meters
  PROVE  New(m) \in 0..MaxCost /\ meter[m].before \in 0..MaxCost /\ MaxCost \in Nat
<1>1. meter[m].energy \in 0..MaxEnergy /\ meter[m].before \in 0..MaxCost BY DEF TypeOK
<1> QED BY <1>1, PriceBound DEF New

LEMMA TypeStep == TypeOK /\ [Next]_vars => TypeOK'
<1> SUFFICES ASSUME TypeOK, [Next]_vars PROVE TypeOK'
  OBVIOUS
<1> USE AmountsAssumption, PriceBound DEF TypeOK
<1>0. MaxCost \in Nat
  <2>1. MaxEnergy \in 0..MaxEnergy OBVIOUS
  <2> QED BY <2>1, PriceBound
<1>1. CASE Measure
  <2>1. register' \in MeterStart..MaxEnergy
    <3>1. register + 1 \in Int /\ MaxEnergy \in Int OBVIOUS
    <3> QED BY <1>1, <3>1, MostLeast DEF Measure
  <2> QED BY <1>1, <2>1 DEF Measure, rowVars
<1>2. CASE EndCharge BY <1>2 DEF EndCharge, rowVars
<1>3. CASE SendStop
  <2>1. [NoStop EXCEPT !.at = "sent"] = [at |-> "sent", energy |-> 0, cost |-> 0] BY DEF NoStop
  <2>2. stop' = [at |-> "sent", energy |-> 0, cost |-> 0] /\ device' = "stopped" BY <1>3, <2>1 DEF SendStop
  <2>3. stop' \in [at : {"none", "sent", "read", "written", "done", "undone"}, energy : 0..MaxEnergy, cost : 0..MaxCost]
    BY <1>0, <2>2
  <2> QED BY <1>3, <2>2, <2>3 DEF SendStop, rowVars
<1>4. ASSUME NEW m \in Meters, NEW e \in readings, MeterRead(m, e) PROVE TypeOK'
  <2>1. [at |-> "read", energy |-> e, before |-> cost] \in
          [at : {"idle", "read", "stopping"}, energy : 0..MaxEnergy, before : 0..MaxCost]
    OBVIOUS
  <2> QED BY <1>4, <2>1 DEF MeterRead, rowVars
<1>5. ASSUME NEW m \in Meters, MeterCommit(m) PROVE TypeOK'
  <2>1. meter[m].energy \in 0..MaxEnergy OBVIOUS
  <2>2. New(m) \in 0..MaxCost /\ meter[m].before \in 0..MaxCost BY MeterAmounts
  <2>3. meter' \in [Meters -> [at : {"idle", "read", "stopping"}, energy : 0..MaxEnergy, before : 0..MaxCost]]
    BY <1>0, <1>5 DEF MeterCommit, Idle
  <2>4. balance' \in 0..Funds /\ debits' \subseteq [key : 0..MaxCost, amount : 1..MaxCost]
    <3>1. CASE ~Owed(m) BY <1>5, <3>1 DEF MeterCommit
    <3>2. CASE Owed(m)
      <4>1. Delta(m) \in 1..MaxCost BY <1>0, <2>2, <3>2 DEF Owed, Delta
      <4>2. balance >= Delta(m) BY <1>5, <3>2, <4>1 DEF MeterCommit, Unfunded
      <4>3. balance' = balance - Delta(m) /\ debits' = debits \union {[key |-> New(m), amount |-> Delta(m)]}
        BY <1>5, <3>2 DEF MeterCommit, Debit
      <4> HIDE DEF New, Delta
      <4> QED BY <2>2, <4>1, <4>2, <4>3
    <3> QED BY <3>1, <3>2
  <2>5. energy' \in 0..MaxEnergy /\ cost' \in 0..MaxCost BY <1>5, <2>1, <2>2 DEF MeterCommit
  <2> QED BY <1>5, <2>3, <2>4, <2>5 DEF MeterCommit, deviceVars
<1>6. ASSUME NEW m \in Meters, ForceStop(m) PROVE TypeOK'
  <2>1. meter' \in [Meters -> [at : {"idle", "read", "stopping"}, energy : 0..MaxEnergy, before : 0..MaxCost]]
    BY <1>0, <1>6 DEF ForceStop, Idle
  <2> QED BY <1>6, <2>1 DEF ForceStop, rowVars, deviceVars
<1>7. ASSUME NEW m \in Meters, ForceStopAccepted(m) \/ ForceStopRefused(m) PROVE TypeOK'
  <2>1. meter' \in [Meters -> [at : {"idle", "read", "stopping"}, energy : 0..MaxEnergy, before : 0..MaxCost]]
    BY <1>0, <1>7 DEF ForceStopAccepted, ForceStopRefused, Idle
  <2>2. CASE ForceStopAccepted(m) BY <2>1, <2>2 DEF ForceStopAccepted, rowVars
  <2>3. CASE ForceStopRefused(m)
    <3>1. refusals' \in 0..MaxRefusals BY <2>3 DEF ForceStopRefused
    <3> QED BY <2>1, <2>3, <3>1 DEF ForceStopRefused, rowVars, deviceVars
  <2> QED BY <1>7, <2>2, <2>3
<1>8. CASE StopRead
  <2> DEFINE e == Most(energy, register - MeterStart)
  <2>1. e \in 0..MaxEnergy
    <3>1. energy \in Int /\ register - MeterStart \in 0..MaxEnergy OBVIOUS
    <3> QED BY <3>1, MostLeast
  <2> HIDE DEF e
  <2>2. Most(cost, Price(e, TRUE)) \in 0..MaxCost
    <3> DEFINE p == Price(e, TRUE)
    <3>1. p \in 0..MaxCost BY <2>1
    <3> HIDE DEF p
    <3>2. Most(cost, p) = IF cost >= p THEN cost ELSE p BY <1>0, <3>1, MostLeast
    <3>3. Most(cost, p) \in 0..MaxCost BY <3>1, <3>2
    <3> QED BY <3>3 DEF p
  <2>3. stop' = IF session # "ACTIVE" THEN [stop EXCEPT !.at = "done"]
                ELSE [at |-> "read", energy |-> e, cost |-> Most(cost, Price(e, TRUE))]
    BY <1>8 DEF StopRead, e
  <2>4. stop' \in [at : {"none", "sent", "read", "written", "done", "undone"}, energy : 0..MaxEnergy, cost : 0..MaxCost]
    BY <2>1, <2>2, <2>3
  <2> QED BY <1>8, <2>4 DEF StopRead, rowVars, deviceVars
<1>9. CASE StopWrite BY <1>9 DEF StopWrite, deviceVars
<1>10. ASSUME Finishes
       PROVE  /\ session' \in {"ACTIVE", "COMPLETED", "FAILED"}
              /\ stop' \in [at : {"none", "sent", "read", "written", "done", "undone"}, energy : 0..MaxEnergy, cost : 0..MaxCost]
              /\ UNCHANGED <<method, cost, energy, spent, device, register, readings, meter, refusals>>
  BY <1>10 DEF Finishes, deviceVars
<1>11. CASE CaptureWallet
  <2> DEFINE amount == Least(cost, Limit)
  <2>1. amount \in 0..Limit /\ amount \in 0..MaxCost BY <1>0, MostLeast
  <2> HIDE DEF amount
  <2>2. /\ amount <= balance
        /\ IF amount > 0 THEN Debit(0, amount) ELSE UNCHANGED <<debits, balance>>
        /\ hold' = [status |-> "CAPTURED", captured |-> amount]
        /\ auth' = [status |-> "CAPTURED", captured |-> cost]
        /\ billing' = "CAPTURED" /\ Finishes
    BY <1>11 DEF CaptureWallet, amount
  <2>3. balance' \in 0..Funds /\ debits' \subseteq [key : 0..MaxCost, amount : 1..MaxCost]
    BY <1>0, <2>1, <2>2 DEF Debit
  <2> QED BY <1>10, <2>1, <2>2, <2>3
<1>12. CASE CaptureCard BY <1>10, <1>12 DEF CaptureCard
<1>13. CASE CaptureFails BY <1>10, <1>13 DEF CaptureFails
<1>16. CASE FinalizeUndone BY <1>16 DEF FinalizeUndone, rowVars, deviceVars
<1>14. CASE SpendElsewhere BY <1>14 DEF SpendElsewhere, deviceVars
<1>15. CASE UNCHANGED vars BY <1>15 DEF vars, rowVars, deviceVars
<1> QED
  BY <1>1, <1>2, <1>3, <1>4, <1>5, <1>6, <1>7, <1>8, <1>9, <1>11, <1>12, <1>13, <1>14, <1>15, <1>16
  DEF Next, MeterStep, StopStep

LEMMA TypeStart == Init => TypeOK
<1> USE AmountsAssumption
<1>1. MaxEnergy \in 0..MaxEnergy OBVIOUS
<1>2. MaxCost \in Nat BY <1>1, PriceBound
<1>3. 0 \in 0..MaxCost /\ 0 \in 0..MaxEnergy /\ 0 \in 0..Limit /\ 0 \in 0..MaxSpent /\ 0 \in 0..MaxRefusals
  BY <1>2
<1>4. Idle \in [at : {"idle", "read", "stopping"}, energy : 0..MaxEnergy, before : 0..MaxCost]
  BY <1>3 DEF Idle
<1>5. NoStop \in [at : {"none", "sent", "read", "written", "done", "undone"}, energy : 0..MaxEnergy, cost : 0..MaxCost]
  BY <1>3 DEF NoStop
<1> QED BY <1>3, <1>4, <1>5, MethodsAssumption DEF Init, TypeOK

\* Amounts stay amounts: no debit exceeds the balance it is taken from, no capture the hold.
THEOREM TypeCorrect == Spec => []TypeOK
  BY TypeStart, TypeStep, PTL DEF Spec

----------------------------------------------------------------------------
(* Authorized charges *)

\* The authorization stays open until the charge point's stop has been settled; whoever prices
\* a meter value by then finds it, whether a hold or a card stands behind it.
StillAuthorized == stop.at # "done" => auth.status = "AUTHORIZED"

\* The handler of the stop begins with it.
StopFollows == device # "stopped" => stop.at = "none"

MoneyInv == StopFollows /\ StillAuthorized /\ PrepaidIsNotMetered /\ ShownWithinEnvelope

LEMMA MoneyStep == TypeOK /\ MoneyInv /\ [Next]_vars => MoneyInv'
<1> SUFFICES ASSUME TypeOK, MoneyInv, [Next]_vars PROVE MoneyInv'
  OBVIOUS
<1> USE DEF MoneyInv, StopFollows, StillAuthorized, PrepaidIsNotMetered, ShownWithinEnvelope
<1>1. CASE UNCHANGED <<auth, debits, cost, stop>> /\ (device = "stopped" => device' = "stopped")
  BY <1>1
<1>2. CASE SendStop
  <2>1. [NoStop EXCEPT !.at = "sent"] = [at |-> "sent", energy |-> 0, cost |-> 0] BY DEF NoStop
  <2>2. stop'.at = "sent" /\ UNCHANGED <<auth, debits, cost>> BY <1>2, <2>1 DEF SendStop, rowVars
  <2>3. stop.at = "none" /\ device' = "stopped" BY <1>2 DEF SendStop
  <2> QED BY <2>2, <2>3
<1>3. ASSUME NEW m \in Meters, MeterCommit(m) PROVE MoneyInv'
  <2>1. CASE auth.status = "AUTHORIZED"
    <3>1. Prepaid BY <2>1 DEF Prepaid
    <3>2. debits' = debits BY <1>3, <3>1 DEF MeterCommit, Owed
    <3>3. New(m) \in Int /\ Limit \in Int BY MeterAmounts, AmountsAssumption
    <3>4. cost' <= Limit
      <4>1. ~(New(m) > Limit) /\ cost' = New(m) BY <1>3, <3>1 DEF MeterCommit, OverLimit
      <4> HIDE DEF New
      <4> QED BY <3>3, <4>1
    <3> QED BY <1>3, <2>1, <3>2, <3>4 DEF MeterCommit, deviceVars
  <2>2. CASE auth.status # "AUTHORIZED" BY <1>3, <2>2 DEF MeterCommit, deviceVars
  <2> QED BY <2>1, <2>2
<1>4. CASE StopRead BY <1>4 DEF StopRead, rowVars, deviceVars, TypeOK
<1>5. CASE StopWrite BY <1>5 DEF StopWrite, deviceVars, TypeOK
<1>6. CASE CaptureWallet \/ CaptureCard
  BY <1>6 DEF CaptureWallet, CaptureCard, Finishes, deviceVars, TypeOK
<1>7. CASE CaptureFails BY <1>7 DEF CaptureFails, Finishes, deviceVars, TypeOK
<1>8. CASE FinalizeUndone BY <1>8 DEF FinalizeUndone, rowVars, deviceVars, TypeOK
<1> QED
  BY <1>1, <1>2, <1>3, <1>4, <1>5, <1>6, <1>7, <1>8
  DEF Next, vars, rowVars, deviceVars, MeterStep, StopStep, Measure, EndCharge, MeterRead, ForceStop,
      ForceStopAccepted, ForceStopRefused, SpendElsewhere

LEMMA MoneyStart == Init => MoneyInv
  BY AmountsAssumption DEF Init, MoneyInv, StopFollows, StillAuthorized,
     PrepaidIsNotMetered, ShownWithinEnvelope, NoStop

LEMMA MoneyAlways == Spec => []MoneyInv
<1>1. TypeOK /\ MoneyInv /\ [Next]_vars => MoneyInv' BY MoneyStep
<1> QED BY <1>1, MoneyStart, TypeCorrect, PTL DEF Spec

\* docs/billing.md:13: the meter values of an authorized charge debit nothing, by hold or by
\* card, whatever a handler has read of the session before.
THEOREM AuthorizedIsNotMetered == Spec => []PrepaidIsNotMetered
<1>1. MoneyInv => PrepaidIsNotMetered BY DEF MoneyInv
<1> QED BY <1>1, MoneyAlways, PTL

\* The session shows no cost beyond the authorized envelope until the charge point has stopped.
THEOREM EnvelopeIsKept == Spec => []ShownWithinEnvelope
<1>1. MoneyInv => ShownWithinEnvelope BY DEF MoneyInv
<1> QED BY <1>1, MoneyAlways, PTL
=============================================================================
