------------------------------ MODULE Payments ------------------------------
(***************************************************************************)
(* PaymentsService: top-ups paid at a gateway (PIX, card), the webhooks    *)
(* that report on them, their expiry, the demo's simulated outcomes, and   *)
(* refunds of top-ups and of session payments.                             *)
(*                                                                         *)
(* A worker is a request or a timer tick.  applyStatus runs in a           *)
(* READ COMMITTED transaction that reads the payment without a lock and    *)
(* decides from what it read; its first update takes the row lock, which   *)
(* it keeps until the commit, so the read is one step and the rest another.*)
(* The gateway moves on its own, repeats an event until it is processed,   *)
(* and delivers events in any order.  The wallet is the count of entries   *)
(* under each idempotency key; its amounts are WalletLedger's subject.     *)
(***************************************************************************)
EXTENDS Naturals, FiniteSets

CONSTANTS
  Payments,    \* payment identifiers
  Events,      \* external event identifiers
  Workers,     \* requests and timer ticks that may be in flight together
  NoEvent,     \* marks a status change no event asked for
  Simulated    \* bound: the outcomes a driver of the demo may name

ASSUME NoEventAssumption == NoEvent \notin Events
ASSUME SimulatedAssumption ==
  Simulated \subseteq {"CONFIRMED", "FAILED", "EXPIRED", "CANCELLED", "REFUNDED"}

VARIABLES
  internal,  \* payments of finished sessions, taken from the wallet (provider "internal");
             \* the others are top-ups made at a gateway
  status,    \* status[p]: payments.status, "NONE" before the row exists
  credited,  \* payments with walletCredited
  marks,     \* marks[p]: which of the columns that are never cleared are set
  posted,    \* posted[key]: how often the wallet has an entry under the key
  gateway,   \* gateway[p]: the status of p at the gateway, "NONE" before it is created
  paid,      \* payments the driver has paid at the gateway
  event,     \* event[e]: what the gateway reports in event e
  row,       \* row[e]: the webhook event's row, "PROCESSED" once processedAt is set
  job        \* job[w]: what worker w is at

paymentVars == <<internal, status, credited, marks>>
gatewayVars == <<gateway, paid, event>>
vars == <<paymentVars, posted, gatewayVars, row, job>>

----------------------------------------------------------------------------
(* Vocabulary *)

PaymentStatus == {"PENDING", "AUTHORIZED", "CONFIRMED", "COMPLETED", "FAILED", "CANCELLED",
                  "EXPIRED", "REFUND_PENDING", "REFUNDED", "PARTIALLY_REFUNDED"}

SuccessStatuses == {"CONFIRMED", "COMPLETED"}
BlockedStatuses == {"CANCELLED", "EXPIRED", "REFUNDED", "FAILED"}
RefundedStatuses == {"REFUNDED", "PARTIALLY_REFUNDED"}

\* What the gateway does on its own.
GatewayNext ==
  [ PENDING            |-> {"AUTHORIZED", "CONFIRMED", "FAILED"},
    AUTHORIZED         |-> {"CONFIRMED", "CANCELLED"},
    CONFIRMED          |-> {"REFUNDED"},
    FAILED             |-> {}, CANCELLED |-> {}, EXPIRED |-> {}, REFUNDED |-> {},
    PARTIALLY_REFUNDED |-> {} ]

GatewayStatus == DOMAIN GatewayNext
Keys          == {"credit", "refund-debit", "refund-credit"} \X Payments
Marks         == {"confirmedAt", "cancelledAt", "failureCode", "refundedAmount"}

NotSent == [sent |-> FALSE]
Event   == {NotSent} \union [sent : {TRUE}, p : Payments, says : GatewayStatus, differs : BOOLEAN]

Idle == [op |-> "idle"]
Job  == {Idle}
        \union [op : {"charged"}, p : Payments, confirmed : BOOLEAN]
        \union [op : {"read"}, p : Payments, next : PaymentStatus, e : Events \union {NoEvent}]
        \union [op : {"write"}, p : Payments, next : PaymentStatus,
                e : Events \union {NoEvent}, credited : BOOLEAN]
        \union [op : {"mark"}, e : Events]
        \union [op : {"pending", "refund", "debit", "finish"}, p : Payments,
                partial : BOOLEAN, credited : BOOLEAN]

Take(w, j)   == job' = [job EXCEPT ![w] = j]
Finished(w)  == Take(w, Idle)
Apply(p, next, e) == [op |-> "read", p |-> p, next |-> next, e |-> e]

\* Mutant: the wallet does not look the idempotency key up.
PostAgain(key) == posted' = [posted EXCEPT ![key] = @ + 1]

\* One wallet entry per idempotency key; a key found is a replay.
Post(key) == posted' = [posted EXCEPT ![key] = IF @ = 0 THEN 1 ELSE @]

\* The columns applyStatus sets with a status.
MarksOf(next) ==
  CASE next \in SuccessStatuses          -> {"confirmedAt"}
    [] next \in {"CANCELLED", "EXPIRED"} -> {"cancelledAt"}
    [] next = "FAILED"                   -> {"failureCode"}
    [] next \in RefundedStatuses         -> {"refundedAmount"}
    [] OTHER                             -> {}

----------------------------------------------------------------------------
(* create *)

\* The gateway is asked first: a PIX is pending there, a card or demo charge confirmed.
CreateCharge(w, p) ==
  /\ job[w] = Idle
  /\ p \notin internal /\ gateway[p] = "NONE"
  /\ \E confirmed \in BOOLEAN :
       /\ gateway' = [gateway EXCEPT ![p] = IF confirmed THEN "CONFIRMED" ELSE "PENDING"]
       /\ paid' = IF confirmed THEN paid \union {p} ELSE paid
       /\ Take(w, [op |-> "charged", p |-> p, confirmed |-> confirmed])
  /\ UNCHANGED <<paymentVars, posted, event, row>>

\* Mutant: the row is created with the status the gateway returned.
CreateRowConfirmed(w) ==
  /\ job[w].op = "charged"
  /\ status' = [status EXCEPT ![job[w].p] = IF job[w].confirmed THEN "CONFIRMED" ELSE "PENDING"]
  /\ IF job[w].confirmed THEN Take(w, Apply(job[w].p, "CONFIRMED", NoEvent)) ELSE Finished(w)
  /\ UNCHANGED <<internal, credited, marks, posted, gatewayVars, row>>

CreateRow(w) ==
  /\ job[w].op = "charged"
  /\ status' = [status EXCEPT ![job[w].p] = "PENDING"]
  /\ IF job[w].confirmed THEN Take(w, Apply(job[w].p, "CONFIRMED", NoEvent)) ELSE Finished(w)
  /\ UNCHANGED <<internal, credited, marks, posted, gatewayVars, row>>

----------------------------------------------------------------------------
(* applyStatus *)

\* The read, and the returns decided from it.
ApplyRead(w) ==
  /\ job[w].op = "read"
  /\ LET j == job[w]
         ignored == \/ status[j.p] = j.next
                    \/ status[j.p] \in SuccessStatuses \union BlockedStatuses
                         /\ j.next \in SuccessStatuses
     IN IF ignored
        THEN IF j.e = NoEvent THEN Finished(w) ELSE Take(w, [op |-> "mark", e |-> j.e])
        ELSE Take(w, [op |-> "write", p |-> j.p, next |-> j.next, e |-> j.e,
                      credited |-> j.p \in credited])
  /\ UNCHANGED <<paymentVars, posted, gatewayVars, row>>

\* Mutants: the refund is debited although nothing was credited; the credit leaves the
\* payment's own flag as it was.
WalletMovesUncredited(p, next, wasCredited) ==
  \/ /\ next \in SuccessStatuses /\ ~wasCredited
     /\ Post(<<"credit", p>>)
     /\ credited' = credited \union {p}
  \/ /\ next \in RefundedStatuses
     /\ Post(<<"refund-debit", p>>)
     /\ UNCHANGED credited
  \/ /\ next \notin RefundedStatuses
     /\ next \in SuccessStatuses => wasCredited
     /\ UNCHANGED <<posted, credited>>

WalletMovesUnflagged(p, next, wasCredited) ==
  \/ /\ next \in SuccessStatuses /\ ~wasCredited
     /\ Post(<<"credit", p>>)
     /\ UNCHANGED credited
  \/ /\ next \notin SuccessStatuses \/ wasCredited
     /\ UNCHANGED <<posted, credited>>

\* The wallet's part of the transaction, decided from the flag that was read.
WalletMoves(p, next, wasCredited) ==
  \/ /\ next \in SuccessStatuses /\ ~wasCredited
     /\ Post(<<"credit", p>>)
     /\ credited' = credited \union {p}
  \/ /\ next \in RefundedStatuses /\ wasCredited
     /\ Post(<<"refund-debit", p>>)
     /\ UNCHANGED credited
  \/ /\ next \in RefundedStatuses /\ ~wasCredited /\ p \in internal
     /\ Post(<<"refund-credit", p>>)
     /\ UNCHANGED credited
  \/ /\ next \in SuccessStatuses => wasCredited
     /\ next \in RefundedStatuses => ~wasCredited /\ p \notin internal
     /\ UNCHANGED <<posted, credited>>

ApplyWrite(w) ==
  /\ job[w].op = "write"
  /\ LET j == job[w] IN
     /\ status' = [status EXCEPT ![j.p] = j.next]
     /\ marks' = [marks EXCEPT ![j.p] = @ \union MarksOf(j.next)]
     /\ WalletMoves(j.p, j.next, j.credited)
     /\ IF j.e = NoEvent THEN Finished(w) ELSE Take(w, [op |-> "mark", e |-> j.e])
  /\ UNCHANGED <<internal, gatewayVars, row>>

\* The wallet refuses the debit of a refund (InsufficientBalanceError): all of it is
\* undone, and the event it came from stays unprocessed.
ApplyRefused(w) ==
  /\ job[w].op = "write"
  /\ job[w].next \in RefundedStatuses /\ job[w].credited
  /\ posted[<<"refund-debit", job[w].p>>] = 0
  /\ Finished(w)
  /\ UNCHANGED <<paymentVars, posted, gatewayVars, row>>

----------------------------------------------------------------------------
(* Webhooks, expiry, simulated outcomes *)

\* Mutant: the event is marked processed when it is received.
WebhookMarksFirst(w, e) ==
  /\ job[w] = Idle
  /\ event[e].sent /\ row[e] # "PROCESSED"
  /\ status[event[e].p] # "NONE"
  /\ ~event[e].differs
  /\ row' = [row EXCEPT ![e] = "PROCESSED"]
  /\ \E next \in {event[e].says, gateway[event[e].p]} : Take(w, Apply(event[e].p, next, e))
  /\ UNCHANGED <<paymentVars, posted, gatewayVars>>

\* The row is created or found unprocessed, and the payment found.  The status is the one
\* the event carries or, for the real gateway, the one a fresh look-up returns.
Webhook(w, e) ==
  /\ job[w] = Idle
  /\ event[e].sent /\ row[e] # "PROCESSED"
  /\ status[event[e].p] # "NONE"
  /\ ~event[e].differs
  /\ row' = [row EXCEPT ![e] = IF @ = "NONE" THEN "RECEIVED" ELSE @]
  /\ \E next \in {event[e].says, gateway[event[e].p]} : Take(w, Apply(event[e].p, next, e))
  /\ UNCHANGED <<paymentVars, posted, gatewayVars>>

\* The event overtook the payment's row: refused, so that the gateway sends it again.
WebhookTooEarly(w, e) ==
  /\ job[w] = Idle
  /\ event[e].sent /\ row[e] # "PROCESSED"
  /\ status[event[e].p] = "NONE"
  /\ row' = [row EXCEPT ![e] = "FAILED"]
  /\ UNCHANGED <<paymentVars, posted, gatewayVars, job>>

\* The amount paid is not the payment's: a reconciliation case, and no credit.
WebhookMismatch(w, e) ==
  /\ job[w] = Idle
  /\ event[e].sent /\ row[e] # "PROCESSED"
  /\ status[event[e].p] # "NONE"
  /\ event[e].differs
  /\ row' = [row EXCEPT ![e] = "PROCESSED"]
  /\ UNCHANGED <<paymentVars, posted, gatewayVars, job>>

WebhookMark(w) ==
  /\ job[w].op = "mark"
  /\ row' = [row EXCEPT ![job[w].e] = "PROCESSED"]
  /\ Finished(w)
  /\ UNCHANGED <<paymentVars, posted, gatewayVars>>

\* expireDue lists the pending payments past their time and expires them one by one.
ExpireScan(w, p) ==
  /\ job[w] = Idle
  /\ status[p] = "PENDING"
  /\ Take(w, Apply(p, "EXPIRED", NoEvent))
  /\ UNCHANGED <<paymentVars, posted, gatewayVars, row>>

\* Demo gateway only: the driver names the outcome.
Simulate(w, p, outcome) ==
  /\ job[w] = Idle
  /\ status[p] # "NONE"
  /\ gateway' = IF p \notin internal THEN [gateway EXCEPT ![p] = outcome] ELSE gateway
  /\ paid' = IF p \notin internal /\ outcome = "CONFIRMED" THEN paid \union {p} ELSE paid
  /\ Take(w, Apply(p, outcome, NoEvent))
  /\ UNCHANGED <<paymentVars, posted, event, row>>

----------------------------------------------------------------------------
(* refund *)

\* The check, on the row as read.  A request repeated under its key is answered with the
\* row while the refund is pending or done, and so changes nothing either.
RefundRead(w, p, partial) ==
  /\ job[w] = Idle
  /\ status[p] \in SuccessStatuses \union {"AUTHORIZED"}
  /\ Take(w, [op |-> "pending", p |-> p, partial |-> partial, credited |-> p \in credited])
  /\ UNCHANGED <<paymentVars, posted, gatewayVars, row>>

\* A session payment has nothing at the gateway: applyStatus finishes its refund.
RefundPending(w) ==
  /\ job[w].op = "pending"
  /\ status' = [status EXCEPT ![job[w].p] = "REFUND_PENDING"]
  /\ IF job[w].p \in internal
     THEN Take(w, Apply(job[w].p, "REFUNDED", NoEvent))
     ELSE Take(w, [job[w] EXCEPT !.op = "refund"])
  /\ UNCHANGED <<internal, credited, marks, posted, gatewayVars, row>>

RefundGateway(w) ==
  /\ job[w].op = "refund"
  /\ gateway[job[w].p] \in {"CONFIRMED", "AUTHORIZED", "REFUNDED"}
  /\ gateway' = [gateway EXCEPT ![job[w].p] =
                   IF job[w].partial THEN "PARTIALLY_REFUNDED" ELSE "REFUNDED"]
  /\ Take(w, [job[w] EXCEPT !.op = IF job[w].credited THEN "debit" ELSE "finish"])
  /\ UNCHANGED <<paymentVars, posted, paid, event, row>>

RefundDebit(w) ==
  /\ job[w].op = "debit"
  /\ Post(<<"refund-debit", job[w].p>>)
  /\ Take(w, [job[w] EXCEPT !.op = "finish"])
  /\ UNCHANGED <<paymentVars, gatewayVars, row>>

RefundFinish(w) ==
  /\ job[w].op = "finish"
  /\ status' = [status EXCEPT ![job[w].p] =
                  IF job[w].partial THEN "PARTIALLY_REFUNDED" ELSE "REFUNDED"]
  /\ marks' = [marks EXCEPT ![job[w].p] = @ \union {"refundedAmount"}]
  /\ Finished(w)
  /\ UNCHANGED <<internal, credited, posted, gatewayVars, row>>

\* The gateway refuses or is unreachable, the wallet refuses the debit, or the server dies:
\* what the worker has written stays, the rest is not done.
Abandon(w) ==
  /\ job[w] # Idle
  /\ Finished(w)
  /\ UNCHANGED <<paymentVars, posted, gatewayVars, row>>

----------------------------------------------------------------------------
(* The gateway *)

GatewayMoves(p) ==
  /\ gateway[p] # "NONE"
  /\ \E next \in GatewayNext[gateway[p]] :
       /\ gateway' = [gateway EXCEPT ![p] = next]
       /\ paid' = IF next = "CONFIRMED" THEN paid \union {p} ELSE paid
  /\ UNCHANGED <<paymentVars, posted, event, row, job>>

\* An event carries the status of the moment it is made; it may arrive much later.
GatewayReports(p, e) ==
  /\ gateway[p] # "NONE"
  /\ ~event[e].sent
  /\ \E differs \in BOOLEAN :
       event' = [event EXCEPT ![e] = [sent |-> TRUE, p |-> p, says |-> gateway[p],
                                      differs |-> differs]]
  /\ UNCHANGED <<paymentVars, posted, gateway, paid, row, job>>

----------------------------------------------------------------------------
(* Specification *)

Init ==
  /\ internal \in SUBSET Payments
  /\ status = [p \in Payments |-> IF p \in internal THEN "COMPLETED" ELSE "NONE"]
  /\ credited = {}
  /\ marks = [p \in Payments |-> IF p \in internal THEN {"confirmedAt"} ELSE {}]
  /\ posted = [key \in Keys |-> 0]
  /\ gateway = [p \in Payments |-> "NONE"]
  /\ paid = {}
  /\ event = [e \in Events |-> NotSent]
  /\ row = [e \in Events |-> "NONE"]
  /\ job = [w \in Workers |-> Idle]

WorkerStep(w) ==
  \/ \E p \in Payments : CreateCharge(w, p) \/ ExpireScan(w, p)
  \/ \E p \in Payments, outcome \in Simulated : Simulate(w, p, outcome)
  \/ \E e \in Events : Webhook(w, e) \/ WebhookTooEarly(w, e) \/ WebhookMismatch(w, e)
  \/ \E p \in Payments, partial \in BOOLEAN : RefundRead(w, p, partial)
  \/ CreateRow(w) \/ ApplyRead(w) \/ ApplyWrite(w) \/ ApplyRefused(w) \/ WebhookMark(w)
  \/ RefundPending(w) \/ RefundGateway(w) \/ RefundDebit(w) \/ RefundFinish(w) \/ Abandon(w)

Next ==
  \/ \E w \in Workers : WorkerStep(w)
  \/ \E p \in Payments : GatewayMoves(p) \/ (\E e \in Events : GatewayReports(p, e))

Spec == Init /\ [][Next]_vars

----------------------------------------------------------------------------
(* Properties *)

\* Type invariant.
TypeOK ==
  /\ internal \subseteq Payments
  /\ status \in [Payments -> PaymentStatus \union {"NONE"}]
  /\ credited \subseteq Payments
  /\ marks \in [Payments -> SUBSET Marks]
  /\ posted \in [Keys -> Nat]
  /\ gateway \in [Payments -> GatewayStatus \union {"NONE"}]
  /\ paid \subseteq Payments
  /\ event \in [Events -> Event]
  /\ row \in [Events -> {"NONE", "RECEIVED", "FAILED", "PROCESSED"}]
  /\ job \in [Workers -> Job]

\* One external payment is one credit, one refund is one debit or one credit: webhooks, a
\* retry, the driver's confirmation and an operator's refund that overlap move the money
\* of a payment at most once each way.
PostedOnce == \A key \in Keys : posted[key] <= 1

\* The payment's own flag and the wallet's entry, two rows of two services, say the same.
FlagAgreesWithWallet == \A p \in Payments : p \in credited <=> posted[<<"credit", p>>] > 0

\* Money moves only where it has moved before: a refund takes out of the wallet what the payment
\* had put there, and a top-up puts there what the driver has paid at the gateway, in whatever
\* order confirmation, expiry and refund are notified and applied.
MovesAreBacked ==
  \A p \in Payments :
    /\ posted[<<"refund-debit", p>>] > 0 => posted[<<"credit", p>>] > 0
    /\ p \notin internal /\ posted[<<"credit", p>>] > 0 => p \in paid

\* A confirmation the gateway need not send again is not lost: when its event is marked
\* processed the wallet has been credited, unless the payment had been closed before.
ConfirmationNotForgotten ==
  \A e \in Events :
    row[e] = "PROCESSED" /\ event[e].sent /\ event[e].says = "CONFIRMED" /\ ~event[e].differs
      => \/ posted[<<"credit", event[e].p>>] > 0
         \/ marks[event[e].p] \cap {"cancelledAt", "failureCode", "refundedAmount"} # {}

\* Payments and the wallet for who compares them: see module Movements.
MovementsOf == INSTANCE Movements WITH
  confirmed <- {p \in Payments : status[p] \in SuccessStatuses}

\* Whatever overlaps or comes out of order, a payment becomes confirmed in the step that puts its
\* money into the wallet or later, and every move of the money has its cause and happens once.
ImplementsMovements == MovementsOf!Spec
============================================================================
