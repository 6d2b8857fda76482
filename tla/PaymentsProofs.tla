---------------------------- MODULE PaymentsProofs ----------------------------
(***************************************************************************)
(* Theorems about Payments, for every set of payments, events and workers. *)
(***************************************************************************)
EXTENDS Payments, TLAPS

----------------------------------------------------------------------------
(* Jobs *)

\* What a job of each kind carries.
LEMMA JobFields ==
  ASSUME NEW j \in Job
  PROVE  /\ j.op = "charged" => j.p \in Payments /\ j.confirmed \in BOOLEAN
         /\ j.op \in {"read", "write"} =>
              j.p \in Payments /\ j.next \in PaymentStatus /\ j.e \in Events \union {NoEvent}
         /\ j.op = "write" => j.credited \in BOOLEAN
         /\ j.op = "mark" => j.e \in Events
         /\ j.op \in {"pending", "refund", "debit", "finish"} =>
              j.p \in Payments /\ j.partial \in BOOLEAN /\ j.credited \in BOOLEAN
  BY DEF Job, Idle

\* The jobs the actions give to a worker.
LEMMA JobsMade ==
  /\ Idle \in Job /\ Idle.op = "idle"
  /\ \A p \in Payments, confirmed \in BOOLEAN :
       [op |-> "charged", p |-> p, confirmed |-> confirmed] \in Job
  /\ \A p \in Payments, next \in PaymentStatus, e \in Events \union {NoEvent} :
       Apply(p, next, e) \in Job
  /\ \A p \in Payments, next \in PaymentStatus, e \in Events \union {NoEvent}, was \in BOOLEAN :
       [op |-> "write", p |-> p, next |-> next, e |-> e, credited |-> was] \in Job
  /\ \A e \in Events : [op |-> "mark", e |-> e] \in Job
  /\ \A op \in {"pending", "refund", "debit", "finish"}, p \in Payments, partial, was \in BOOLEAN :
       [op |-> op, p |-> p, partial |-> partial, credited |-> was] \in Job
  BY DEF Job, Idle, Apply

\* Later stages of a refund carry what its first one read.
LEMMA RefundGoesOn ==
  ASSUME NEW j \in Job, j.op \in {"pending", "refund", "debit", "finish"},
         NEW op \in {"pending", "refund", "debit", "finish"}
  PROVE  [j EXCEPT !.op = op] = [op |-> op, p |-> j.p, partial |-> j.partial, credited |-> j.credited]
  BY DEF Job, Idle

LEMMA StatusSets ==
  /\ GatewayStatus = {"PENDING", "AUTHORIZED", "CONFIRMED", "FAILED", "CANCELLED", "EXPIRED",
                      "REFUNDED", "PARTIALLY_REFUNDED"}
  /\ GatewayStatus \subseteq PaymentStatus
  /\ \A s \in GatewayStatus : GatewayNext[s] \subseteq GatewayStatus
  BY DEF GatewayStatus, GatewayNext, PaymentStatus

LEMMA EventFields ==
  ASSUME NEW v \in Event, v.sent
  PROVE  v.p \in Payments /\ v.says \in GatewayStatus /\ v.differs \in BOOLEAN
<1>1. ~NotSent.sent BY Zenon DEF NotSent
<1>2. v # NotSent BY <1>1, Zenon
<1>3. v \in [sent : {TRUE}, p : Payments, says : GatewayStatus, differs : BOOLEAN] BY <1>2, Zenon DEF Event
<1> QED BY <1>3

LEMMA EventsMade ==
  ASSUME NEW p \in Payments, NEW says \in GatewayStatus, NEW differs \in BOOLEAN
  PROVE  [sent |-> TRUE, p |-> p, says |-> says, differs |-> differs] \in Event
  BY DEF Event

LEMMA KeysMade ==
  \A p \in Payments : <<"credit", p>> \in Keys /\ <<"refund-debit", p>> \in Keys /\ <<"refund-credit", p>> \in Keys
  BY DEF Keys

----------------------------------------------------------------------------
(* Type correctness *)

LEMMA PostType ==
  ASSUME TypeOK, NEW key \in Keys, Post(key)
  PROVE  posted' \in [Keys -> Nat]
  BY DEF TypeOK, Post

\* A payment an event tells of exists at the gateway, and goes on existing there.
Reported == \A e \in Events : event[e].sent => gateway[event[e].p] # "NONE"

LEMMA ReportedStep == TypeOK /\ Reported /\ [Next]_vars => Reported'
<1> SUFFICES ASSUME TypeOK, Reported, [Next]_vars PROVE Reported'
  OBVIOUS
<1> USE DEF TypeOK
<1>1. \A p \in Payments : gateway[p] # "NONE" => gateway'[p] # "NONE"
  <2>1. ASSUME NEW w \in Workers, NEW p \in Payments, CreateCharge(w, p)
        PROVE  \A q \in Payments : gateway[q] # "NONE" => gateway'[q] # "NONE"
    BY <2>1 DEF CreateCharge
  <2>2. ASSUME NEW w \in Workers, NEW p \in Payments, NEW outcome \in Simulated, Simulate(w, p, outcome)
        PROVE  \A q \in Payments : gateway[q] # "NONE" => gateway'[q] # "NONE"
    BY <2>2, SimulatedAssumption DEF Simulate
  <2>3. ASSUME NEW w \in Workers, RefundGateway(w)
        PROVE  \A q \in Payments : gateway[q] # "NONE" => gateway'[q] # "NONE"
    BY <2>3 DEF RefundGateway
  <2>4. ASSUME NEW p \in Payments, GatewayMoves(p)
        PROVE  \A q \in Payments : gateway[q] # "NONE" => gateway'[q] # "NONE"
    BY <2>4, StatusSets DEF GatewayMoves
  <2> QED
    BY <2>1, <2>2, <2>3, <2>4
    DEF Next, WorkerStep, vars, paymentVars, gatewayVars, ExpireScan, Webhook, WebhookTooEarly, WebhookMismatch,
        RefundRead, CreateRow, ApplyRead, ApplyWrite, ApplyRefused, WebhookMark, RefundPending, RefundDebit,
        RefundFinish, Abandon, GatewayReports
<1>2. CASE UNCHANGED event
  BY <1>1, <1>2, EventFields DEF Reported
<1>3. ASSUME NEW p \in Payments, NEW e \in Events, GatewayReports(p, e) PROVE Reported'
  <2>1. PICK differs \in BOOLEAN :
          event' = [event EXCEPT ![e] = [sent |-> TRUE, p |-> p, says |-> gateway[p], differs |-> differs]]
    BY <1>3 DEF GatewayReports
  <2>2. gateway' = gateway /\ gateway[p] # "NONE" BY <1>3 DEF GatewayReports
  <2> QED BY <2>1, <2>2 DEF Reported
<1> QED
  BY <1>2, <1>3
  DEF Next, WorkerStep, vars, gatewayVars, CreateCharge, Simulate, RefundGateway, GatewayMoves, ExpireScan,
      Webhook, WebhookTooEarly, WebhookMismatch, RefundRead, CreateRow, ApplyRead, ApplyWrite, ApplyRefused,
      WebhookMark, RefundPending, RefundDebit, RefundFinish, Abandon

LEMMA TypeStep == TypeOK /\ Reported /\ [Next]_vars => TypeOK'
<1> SUFFICES ASSUME TypeOK, Reported, [Next]_vars PROVE TypeOK'
  OBVIOUS
<1> USE DEF TypeOK
<1>1. ASSUME NEW w \in Workers, NEW j \in Job, Take(w, j) PROVE job' \in [Workers -> Job]
  BY <1>1 DEF Take
<1>2. ASSUME NEW w \in Workers, Finished(w) PROVE job' \in [Workers -> Job]
  BY <1>1, <1>2, JobsMade DEF Finished
<1>3. ASSUME NEW w \in Workers, NEW p \in Payments, CreateCharge(w, p) PROVE TypeOK'
  <2>1. job' \in [Workers -> Job] BY <1>1, <1>3, JobsMade DEF CreateCharge
  <2> QED BY <1>3, <2>1, StatusSets DEF CreateCharge, paymentVars
<1>4. ASSUME NEW w \in Workers, CreateRow(w) PROVE TypeOK'
  <2>1. job[w].p \in Payments BY <1>4, JobFields DEF CreateRow
  <2>2. Apply(job[w].p, "CONFIRMED", NoEvent) \in Job BY <2>1, JobsMade DEF PaymentStatus
  <2>3. job' \in [Workers -> Job] BY <1>1, <1>2, <1>4, <2>2 DEF CreateRow
  <2> QED BY <1>4, <2>3 DEF CreateRow, gatewayVars, PaymentStatus
<1>5. ASSUME NEW w \in Workers, ApplyRead(w) PROVE TypeOK'
  <2>1. /\ job[w].p \in Payments /\ job[w].next \in PaymentStatus /\ job[w].e \in Events \union {NoEvent}
    BY <1>5, JobFields DEF ApplyRead
  <2>2. (job[w].p \in credited) \in BOOLEAN OBVIOUS
  <2>3. [op |-> "write", p |-> job[w].p, next |-> job[w].next, e |-> job[w].e,
         credited |-> job[w].p \in credited] \in Job
    BY <2>1, <2>2, JobsMade
  <2>4. job[w].e # NoEvent => [op |-> "mark", e |-> job[w].e] \in Job BY <2>1, JobsMade
  <2>5. job' \in [Workers -> Job] BY <1>1, <1>2, <1>5, <2>3, <2>4 DEF ApplyRead
  <2> QED BY <1>5, <2>5 DEF ApplyRead, paymentVars, gatewayVars
<1>6. ASSUME NEW w \in Workers, ApplyWrite(w) PROVE TypeOK'
  <2>1. /\ job[w].p \in Payments /\ job[w].next \in PaymentStatus /\ job[w].e \in Events \union {NoEvent}
    BY <1>6, JobFields DEF ApplyWrite
  <2>2. job[w].e # NoEvent => [op |-> "mark", e |-> job[w].e] \in Job BY <2>1, JobsMade
  <2>3. job' \in [Workers -> Job] BY <1>1, <1>2, <1>6, <2>2 DEF ApplyWrite
  <2>4. posted' \in [Keys -> Nat] /\ credited' \subseteq Payments
    BY <1>6, <2>1, PostType, KeysMade DEF ApplyWrite, WalletMoves
  <2>5. MarksOf(job[w].next) \subseteq Marks BY DEF MarksOf, Marks
  <2>6. marks' \in [Payments -> SUBSET Marks] BY <1>6, <2>5 DEF ApplyWrite
  <2>7. status' \in [Payments -> PaymentStatus \union {"NONE"}] BY <1>6, <2>1 DEF ApplyWrite
  <2> QED BY <1>6, <2>3, <2>4, <2>6, <2>7 DEF ApplyWrite, gatewayVars
<1>7. ASSUME NEW w \in Workers, ApplyRefused(w) \/ Abandon(w) PROVE TypeOK'
  <2>1. job' \in [Workers -> Job] BY <1>2, <1>7 DEF ApplyRefused, Abandon
  <2> QED BY <1>7, <2>1 DEF ApplyRefused, Abandon, paymentVars, gatewayVars
<1>8. ASSUME NEW w \in Workers, NEW e \in Events, Webhook(w, e) PROVE TypeOK'
  <2>1. event[e].p \in Payments /\ event[e].says \in GatewayStatus
    BY <1>8, EventFields DEF Webhook
  <2>3. PICK next \in {event[e].says, gateway[event[e].p]} : Take(w, Apply(event[e].p, next, e))
    BY <1>8 DEF Webhook
  <2>4. gateway[event[e].p] \in GatewayStatus
    BY <1>8, <2>1 DEF Webhook, Reported
  <2>5. Apply(event[e].p, next, e) \in Job BY <2>1, <2>4, StatusSets, JobsMade
  <2>6. job' \in [Workers -> Job] BY <1>1, <2>3, <2>5
  <2> QED BY <1>8, <2>6 DEF Webhook, paymentVars, gatewayVars
<1>9. ASSUME NEW w \in Workers, NEW e \in Events, WebhookTooEarly(w, e) \/ WebhookMismatch(w, e)
      PROVE  TypeOK'
  BY <1>9 DEF WebhookTooEarly, WebhookMismatch, paymentVars, gatewayVars
<1>10. ASSUME NEW w \in Workers, WebhookMark(w) PROVE TypeOK'
  <2>1. job' \in [Workers -> Job] BY <1>2, <1>10 DEF WebhookMark
  <2> QED BY <1>10, <2>1 DEF WebhookMark, paymentVars, gatewayVars
<1>11. ASSUME NEW w \in Workers, NEW p \in Payments, ExpireScan(w, p) PROVE TypeOK'
  <2>1. Apply(p, "EXPIRED", NoEvent) \in Job BY JobsMade DEF PaymentStatus
  <2>2. job' \in [Workers -> Job] BY <1>1, <1>11, <2>1 DEF ExpireScan
  <2> QED BY <1>11, <2>2 DEF ExpireScan, paymentVars, gatewayVars
<1>12. ASSUME NEW w \in Workers, NEW p \in Payments, NEW outcome \in Simulated, Simulate(w, p, outcome)
       PROVE  TypeOK'
  <2>0. outcome \in GatewayStatus /\ outcome \in PaymentStatus
    BY SimulatedAssumption, StatusSets
  <2>1. Apply(p, outcome, NoEvent) \in Job BY <2>0, JobsMade
  <2>2. job' \in [Workers -> Job] BY <1>1, <1>12, <2>1 DEF Simulate
  <2> QED BY <1>12, <2>0, <2>2 DEF Simulate, paymentVars
<1>13. ASSUME NEW w \in Workers, NEW p \in Payments, NEW partial \in BOOLEAN, RefundRead(w, p, partial)
       PROVE  TypeOK'
  <2>0. (p \in credited) \in BOOLEAN OBVIOUS
  <2>1. [op |-> "pending", p |-> p, partial |-> partial, credited |-> p \in credited] \in Job
    BY <2>0, JobsMade
  <2>2. job' \in [Workers -> Job] BY <1>1, <1>13, <2>1 DEF RefundRead
  <2> QED BY <1>13, <2>2 DEF RefundRead, paymentVars, gatewayVars
<1>14. ASSUME NEW w \in Workers, job[w].op \in {"pending", "refund", "debit", "finish"},
              NEW op \in {"pending", "refund", "debit", "finish"}
       PROVE  [job[w] EXCEPT !.op = op] \in Job /\ job[w].p \in Payments
  <2>1. job[w] \in Job OBVIOUS
  <2>2. job[w].p \in Payments /\ job[w].partial \in BOOLEAN /\ job[w].credited \in BOOLEAN
    BY <1>14, <2>1, JobFields
  <2>3. [job[w] EXCEPT !.op = op] = [op |-> op, p |-> job[w].p, partial |-> job[w].partial, credited |-> job[w].credited]
    BY <1>14, <2>1, RefundGoesOn
  <2>4. [op |-> op, p |-> job[w].p, partial |-> job[w].partial, credited |-> job[w].credited] \in Job
    BY <2>2, JobsMade
  <2> QED BY <2>2, <2>3, <2>4, Zenon
<1>15. ASSUME NEW w \in Workers, RefundPending(w) PROVE TypeOK'
  <2>1. [job[w] EXCEPT !.op = "refund"] \in Job /\ job[w].p \in Payments
    BY <1>14, <1>15 DEF RefundPending
  <2>2. Apply(job[w].p, "REFUNDED", NoEvent) \in Job BY <2>1, JobsMade DEF PaymentStatus
  <2>3. job' \in [Workers -> Job] BY <1>1, <1>15, <2>1, <2>2 DEF RefundPending
  <2> QED BY <1>15, <2>3 DEF RefundPending, gatewayVars, PaymentStatus
<1>16. ASSUME NEW w \in Workers, RefundGateway(w) PROVE TypeOK'
  <2>1. /\ [job[w] EXCEPT !.op = "debit"] \in Job /\ [job[w] EXCEPT !.op = "finish"] \in Job
        /\ job[w].p \in Payments
    BY <1>14, <1>16 DEF RefundGateway
  <2>2. job' \in [Workers -> Job] BY <1>1, <1>16, <2>1 DEF RefundGateway
  <2>3. gateway' \in [Payments -> GatewayStatus \union {"NONE"}]
    BY <1>16, StatusSets DEF RefundGateway
  <2> QED BY <1>16, <2>2, <2>3 DEF RefundGateway, paymentVars
<1>17. ASSUME NEW w \in Workers, RefundDebit(w) PROVE TypeOK'
  <2>1. [job[w] EXCEPT !.op = "finish"] \in Job /\ job[w].p \in Payments
    BY <1>14, <1>17 DEF RefundDebit
  <2>2. job' \in [Workers -> Job] BY <1>1, <1>17, <2>1 DEF RefundDebit
  <2>3. posted' \in [Keys -> Nat] BY <1>17, <2>1, PostType, KeysMade DEF RefundDebit
  <2> QED BY <1>17, <2>2, <2>3 DEF RefundDebit, paymentVars, gatewayVars
<1>18. ASSUME NEW w \in Workers, RefundFinish(w) PROVE TypeOK'
  <2>2. job' \in [Workers -> Job] BY <1>2, <1>18 DEF RefundFinish
  <2>3. marks' \in [Payments -> SUBSET Marks] BY <1>18 DEF RefundFinish, Marks
  <2>4. status' \in [Payments -> PaymentStatus \union {"NONE"}] BY <1>18 DEF RefundFinish, PaymentStatus
  <2> QED BY <1>18, <2>2, <2>3, <2>4 DEF RefundFinish, gatewayVars
<1>19. ASSUME NEW p \in Payments, GatewayMoves(p) PROVE TypeOK'
  <2>1. gateway' \in [Payments -> GatewayStatus \union {"NONE"}]
    BY <1>19, StatusSets DEF GatewayMoves
  <2> QED BY <1>19, <2>1 DEF GatewayMoves, paymentVars
<1>20. ASSUME NEW p \in Payments, NEW e \in Events, GatewayReports(p, e) PROVE TypeOK'
  <2>0. gateway[p] \in GatewayStatus BY <1>20 DEF GatewayReports
  <2>1. event' \in [Events -> Event] BY <1>20, <2>0, EventsMade DEF GatewayReports
  <2> QED BY <1>20, <2>1 DEF GatewayReports, paymentVars
<1>21. CASE UNCHANGED vars BY <1>21 DEF vars, paymentVars, gatewayVars
<1> QED
  BY <1>3, <1>4, <1>5, <1>6, <1>7, <1>8, <1>9, <1>10, <1>11, <1>12, <1>13, <1>15, <1>16, <1>17, <1>18,
     <1>19, <1>20, <1>21
  DEF Next, WorkerStep

LEMMA TypeStart == Init => TypeOK
<1> SUFFICES ASSUME Init PROVE TypeOK
  OBVIOUS
<1>1. status \in [Payments -> PaymentStatus \union {"NONE"}] BY DEF Init, PaymentStatus
<1>2. marks \in [Payments -> SUBSET Marks] BY DEF Init, Marks
<1>3. event \in [Events -> Event] /\ job \in [Workers -> Job] BY JobsMade DEF Init, Event
<1> QED BY <1>1, <1>2, <1>3 DEF Init, TypeOK
LEMMA TypeAlways == Spec => [](TypeOK /\ Reported)
<1>1. Init => TypeOK /\ Reported BY TypeStart DEF Init, Reported, NotSent
<1>2. TypeOK /\ Reported /\ [Next]_vars => (TypeOK /\ Reported)' BY TypeStep, ReportedStep
<1> QED BY <1>1, <1>2, PTL DEF Spec

\* Rows, the gateway, events and jobs keep their types: no status is written that the payment's
\* column does not know, whether it comes from an event, a look-up, a timer or an operator.
THEOREM TypeCorrect == Spec => []TypeOK
<1>1. TypeOK /\ Reported => TypeOK OBVIOUS
<1> QED BY <1>1, TypeAlways, PTL
----------------------------------------------------------------------------
(* What is never taken back                                                *)

LEMMA PostGrows ==
  ASSUME TypeOK, NEW key \in Keys, Post(key)
  PROVE  /\ \A k \in Keys : posted[k] > 0 => posted'[k] > 0
         /\ posted'[key] > 0
         /\ \A k \in Keys \ {key} : posted'[k] = posted[k]
         /\ posted[key] <= 1 => posted'[key] <= 1
  BY DEF TypeOK, Post

LEMMA Grows ==
  ASSUME TypeOK, [Next]_vars
  PROVE  /\ internal' = internal /\ credited \subseteq credited' /\ paid \subseteq paid'
         /\ \A key \in Keys : posted[key] > 0 => posted'[key] > 0
         /\ \A p \in Payments : marks[p] \subseteq marks'[p]
         /\ \A e \in Events : event[e].sent => event'[e] = event[e]
<1> USE DEF TypeOK
<1>1. internal' = internal /\ paid \subseteq paid'
  BY DEF Next, WorkerStep, vars, paymentVars, gatewayVars, CreateCharge, Simulate, RefundGateway, GatewayMoves,
         ExpireScan, Webhook, WebhookTooEarly, WebhookMismatch, RefundRead, CreateRow, ApplyRead, ApplyWrite,
         ApplyRefused, WebhookMark, RefundPending, RefundDebit, RefundFinish, Abandon, GatewayReports
<1>2. ASSUME NEW w \in Workers, ApplyWrite(w)
      PROVE  /\ credited \subseteq credited'
             /\ \A key \in Keys : posted[key] > 0 => posted'[key] > 0
             /\ \A p \in Payments : marks[p] \subseteq marks'[p]
             /\ UNCHANGED event
  <2>1. job[w].p \in Payments BY <1>2, JobFields DEF ApplyWrite
  <2>2. \A key \in Keys : posted[key] > 0 => posted'[key] > 0
    BY <1>2, <2>1, PostGrows, KeysMade DEF ApplyWrite, WalletMoves
  <2>3. credited \subseteq credited' BY <1>2 DEF ApplyWrite, WalletMoves
  <2>4. \A p \in Payments : marks[p] \subseteq marks'[p] BY <1>2 DEF ApplyWrite
  <2> QED BY <1>2, <2>2, <2>3, <2>4 DEF ApplyWrite, gatewayVars
<1>3. ASSUME NEW w \in Workers, RefundDebit(w)
      PROVE  /\ \A key \in Keys : posted[key] > 0 => posted'[key] > 0
             /\ UNCHANGED <<credited, marks, event>>
  <2>1. job[w].p \in Payments BY <1>3, JobFields DEF RefundDebit
  <2> QED BY <1>3, <2>1, PostGrows, KeysMade DEF RefundDebit, paymentVars, gatewayVars
<1>4. ASSUME NEW w \in Workers, RefundFinish(w)
      PROVE  (\A p \in Payments : marks[p] \subseteq marks'[p]) /\ UNCHANGED <<credited, posted, event>>
  BY <1>4 DEF RefundFinish, gatewayVars
<1>5. ASSUME NEW p \in Payments, NEW e \in Events, GatewayReports(p, e)
      PROVE  (\A f \in Events : event[f].sent => event'[f] = event[f]) /\ UNCHANGED <<credited, posted, marks>>
  BY <1>5 DEF GatewayReports, paymentVars
<1> QED
  BY <1>1, <1>2, <1>3, <1>4, <1>5
  DEF Next, WorkerStep, vars, paymentVars, gatewayVars, CreateCharge, Simulate, RefundGateway, GatewayMoves,
      ExpireScan, Webhook, WebhookTooEarly, WebhookMismatch, RefundRead, CreateRow, ApplyRead,
      ApplyRefused, WebhookMark, RefundPending, Abandon

----------------------------------------------------------------------------
(* The invariant                                                           *)

Credit(p)    == posted[<<"credit", p>>] > 0
Closings     == {"CANCELLED", "EXPIRED", "FAILED", "REFUNDED", "PARTIALLY_REFUNDED"}
ClosingMarks == {"cancelledAt", "failureCode", "refundedAmount"}
Closed(p)    == marks[p] \cap ClosingMarks # {}
Confirms(e)  == event[e].sent /\ event[e].says = "CONFIRMED" /\ ~event[e].differs

\* What a worker carries is still true when it is used.
JobInv(w) ==
  /\ job[w].op = "charged" /\ job[w].confirmed => job[w].p \in paid
  /\ job[w].op \in {"read", "write"} =>
       /\ job[w].next \in GatewayStatus
       /\ job[w].next = "CONFIRMED" => job[w].p \in internal \union paid
       /\ job[w].e # NoEvent =>
            /\ event[job[w].e].sent /\ job[w].p = event[job[w].e].p
            /\ Confirms(job[w].e) => job[w].next \notin {"PENDING", "AUTHORIZED"}
  /\ job[w].op \in {"write", "pending", "refund", "debit", "finish"} /\ job[w].credited =>
       job[w].p \in credited
  /\ job[w].op = "debit" => job[w].credited
  /\ job[w].op = "mark" => /\ event[job[w].e].sent
                           /\ Confirms(job[w].e) => Credit(event[job[w].e].p) \/ Closed(event[job[w].e].p)

\* Only top-ups are at the gateway; what is confirmed there has been paid and moves no way back.
GatewayInv ==
  \A p \in Payments : /\ p \in internal => gateway[p] = "NONE"
                      /\ gateway[p] = "CONFIRMED" => p \in paid
                      /\ p \in paid => gateway[p] \notin {"NONE", "PENDING", "AUTHORIZED"}

EventInv == \A e \in Events : event[e].sent =>
              event[e].p \notin internal /\ (event[e].says = "CONFIRMED" => event[e].p \in paid)

\* A top-up's status is backed by the wallet or by a mark.
StatusInv ==
  \A p \in Payments : /\ status[p] \in SuccessStatuses /\ p \notin internal => Credit(p)
                      /\ status[p] \in Closings => Closed(p)

\* Only what was received is processed.
RowInv == \A e \in Events : row[e] = "PROCESSED" => event[e].sent

MoneyInv == PostedOnce /\ FlagAgreesWithWallet /\ MovesAreBacked

PaymentInv == /\ \A w \in Workers : JobInv(w)
              /\ GatewayInv /\ EventInv /\ RowInv /\ StatusInv /\ MoneyInv /\ ConfirmationNotForgotten

\* A worker that does nothing in a step carries what is true afterwards.
LEMMA OthersJob ==
  ASSUME TypeOK, [Next]_vars, NEW w \in Workers, JobInv(w), job'[w] = job[w]
  PROVE  JobInv(w)'
<1>1. job[w] \in Job BY DEF TypeOK
<1>2. /\ job[w].op \in {"read", "write"} => job[w].e \in Events \union {NoEvent}
      /\ job[w].op = "mark" => job[w].e \in Events
  BY <1>1, JobFields
<1>3. ASSUME NEW e \in Events, event[e].sent PROVE Confirms(e)' <=> Confirms(e)
  BY <1>3, Grows DEF Confirms
<1>4. ASSUME NEW p \in Payments, Credit(p) \/ Closed(p) PROVE (Credit(p) \/ Closed(p))'
  BY <1>4, Grows, KeysMade DEF Credit, Closed
<1>5. job[w].op = "mark" => JobInv(w)'
  <2> SUFFICES ASSUME job[w].op = "mark" PROVE JobInv(w)'
    OBVIOUS
  <2>1. event[job[w].e].sent /\ event'[job[w].e] = event[job[w].e] /\ event[job[w].e].p \in Payments
    BY <1>2, Grows, EventFields DEF JobInv, TypeOK
  <2> QED BY <1>2, <1>3, <1>4, <2>1 DEF JobInv
<1>6. job[w].op \in {"read", "write"} => JobInv(w)'
  <2> SUFFICES ASSUME job[w].op \in {"read", "write"} PROVE JobInv(w)'
    OBVIOUS
  <2>1. ASSUME job[w].e # NoEvent
        PROVE  event'[job[w].e] = event[job[w].e] /\ (Confirms(job[w].e)' <=> Confirms(job[w].e))
    BY <1>2, <1>3, <2>1, Grows DEF JobInv
  <2> QED BY <2>1, Grows DEF JobInv, Confirms
<1>7. job[w].op \notin {"mark", "read", "write"} => JobInv(w)' BY Grows DEF JobInv
<1> QED BY <1>5, <1>6, <1>7

LEMMA GatewayStep == TypeOK /\ PaymentInv /\ [Next]_vars => GatewayInv'
<1> SUFFICES ASSUME TypeOK, PaymentInv, [Next]_vars PROVE GatewayInv'
  OBVIOUS
<1> USE DEF TypeOK, GatewayInv, PaymentInv
<1>1. CASE UNCHANGED <<gateway, paid>> BY <1>1, Grows
<1>2. ASSUME NEW w \in Workers, NEW p \in Payments, CreateCharge(w, p) PROVE GatewayInv'
  BY <1>2, Grows DEF CreateCharge
<1>3. ASSUME NEW w \in Workers, NEW p \in Payments, NEW outcome \in Simulated, Simulate(w, p, outcome)
      PROVE  GatewayInv'
  BY <1>3, Grows, SimulatedAssumption DEF Simulate
<1>4. ASSUME NEW w \in Workers, RefundGateway(w) PROVE GatewayInv'
  BY <1>4, Grows DEF RefundGateway
<1>5. ASSUME NEW p \in Payments, GatewayMoves(p) PROVE GatewayInv'
  <2>1. PICK next \in GatewayNext[gateway[p]] :
          /\ gateway' = [gateway EXCEPT ![p] = next]
          /\ paid' = IF next = "CONFIRMED" THEN paid \union {p} ELSE paid
    BY <1>5 DEF GatewayMoves
  <2>2. gateway[p] # "NONE" BY <1>5 DEF GatewayMoves
  <2>3. /\ next \in GatewayStatus
        /\ gateway[p] \notin {"PENDING", "AUTHORIZED"} => next \notin {"PENDING", "AUTHORIZED", "CONFIRMED"}
    BY <2>2, StatusSets DEF GatewayNext
  <2>4. next # "NONE" /\ p \notin internal BY <2>2, <2>3, StatusSets
  <2> QED BY <2>1, <2>3, <2>4, Grows
<1> QED
  BY <1>1, <1>2, <1>3, <1>4, <1>5
  DEF Next, WorkerStep, vars, gatewayVars, ExpireScan, Webhook, WebhookTooEarly, WebhookMismatch, RefundRead,
      CreateRow, ApplyRead, ApplyWrite, ApplyRefused, WebhookMark, RefundPending, RefundDebit, RefundFinish,
      Abandon, GatewayReports

LEMMA EventStep == TypeOK /\ PaymentInv /\ [Next]_vars => EventInv'
<1> SUFFICES ASSUME TypeOK, PaymentInv, [Next]_vars PROVE EventInv'
  OBVIOUS
<1> USE DEF TypeOK, EventInv, PaymentInv
<1>1. CASE UNCHANGED event BY <1>1, Grows
<1>2. ASSUME NEW p \in Payments, NEW e \in Events, GatewayReports(p, e) PROVE EventInv'
  <2>1. PICK differs \in BOOLEAN :
          event' = [event EXCEPT ![e] = [sent |-> TRUE, p |-> p, says |-> gateway[p], differs |-> differs]]
    BY <1>2 DEF GatewayReports
  <2>2. gateway[p] # "NONE" BY <1>2 DEF GatewayReports
  <2> QED BY <2>1, <2>2, Grows DEF GatewayInv
<1> QED
  BY <1>1, <1>2
  DEF Next, WorkerStep, vars, gatewayVars, CreateCharge, Simulate, RefundGateway, GatewayMoves, ExpireScan,
      Webhook, WebhookTooEarly, WebhookMismatch, RefundRead, CreateRow, ApplyRead, ApplyWrite, ApplyRefused,
      WebhookMark, RefundPending, RefundDebit, RefundFinish, Abandon
\* The write of applyStatus, by what the worker carries.
LEMMA WriteMoves ==
  ASSUME TypeOK, PaymentInv, NEW w \in Workers, ApplyWrite(w), NEW p, p = job[w].p
  PROVE  /\ p \in Payments /\ job[w].next \in GatewayStatus
         /\ job[w].next = "CONFIRMED" => Credit(p)' /\ p \in internal \union paid
         /\ job[w].next \in Closings => Closed(p)'
         /\ \/ UNCHANGED <<posted, credited>>
            \/ job[w].next = "CONFIRMED" /\ Post(<<"credit", p>>) /\ credited' = credited \union {p}
            \/ p \in credited /\ Post(<<"refund-debit", p>>) /\ UNCHANGED credited
            \/ Post(<<"refund-credit", p>>) /\ UNCHANGED credited
<1> USE DEF TypeOK
<1>1. /\ job[w].op = "write" /\ p \in Payments /\ job[w].next \in GatewayStatus
      /\ job[w].credited => p \in credited
      /\ job[w].next = "CONFIRMED" => p \in internal \union paid
  BY JobFields DEF ApplyWrite, PaymentInv, JobInv
<1>2. job[w].next \in SuccessStatuses <=> job[w].next = "CONFIRMED"
  BY <1>1, StatusSets DEF SuccessStatuses
<1>3. WalletMoves(p, job[w].next, job[w].credited) BY DEF ApplyWrite
<1>4. \/ UNCHANGED <<posted, credited>>
      \/ job[w].next = "CONFIRMED" /\ Post(<<"credit", p>>) /\ credited' = credited \union {p}
      \/ p \in credited /\ Post(<<"refund-debit", p>>) /\ UNCHANGED credited
      \/ Post(<<"refund-credit", p>>) /\ UNCHANGED credited
  BY <1>1, <1>2, <1>3 DEF WalletMoves
<1>5. ASSUME job[w].next = "CONFIRMED" PROVE Credit(p)'
  <2>1. CASE job[w].credited
    <3>1. Credit(p) /\ UNCHANGED posted
      BY <1>1, <1>2, <1>3, <1>5, <2>1 DEF WalletMoves, RefundedStatuses, PaymentInv, MoneyInv,
                                          FlagAgreesWithWallet, Credit
    <3> QED BY <3>1 DEF Credit
  <2>2. CASE ~job[w].credited
    <3>1. Post(<<"credit", p>>) BY <1>2, <1>3, <1>5, <2>2 DEF WalletMoves, RefundedStatuses
    <3> QED BY <1>1, <3>1, PostGrows, KeysMade DEF Credit
  <2> QED BY <2>1, <2>2
<1>6. ASSUME job[w].next \in Closings PROVE Closed(p)'
  <2>1. MarksOf(job[w].next) \cap ClosingMarks # {}
    BY <1>6 DEF Closings, MarksOf, SuccessStatuses, RefundedStatuses, ClosingMarks
  <2>2. marks'[p] = marks[p] \union MarksOf(job[w].next) BY <1>1 DEF ApplyWrite
  <2> QED BY <2>1, <2>2 DEF Closed
<1> QED BY <1>1, <1>4, <1>5, <1>6

LEMMA StatusStep == TypeOK /\ PaymentInv /\ [Next]_vars => StatusInv'
<1> SUFFICES ASSUME TypeOK, PaymentInv, [Next]_vars PROVE StatusInv'
  OBVIOUS
<1> USE DEF TypeOK
<1>0. \A p \in Payments : (Credit(p) => Credit(p)') /\ (Closed(p) => Closed(p)')
  BY Grows, KeysMade DEF Credit, Closed
<1>1. CASE UNCHANGED status BY <1>0, <1>1, Grows DEF StatusInv, PaymentInv
<1>2. ASSUME NEW p \in Payments, NEW s, status' = [status EXCEPT ![p] = s],
             s = "CONFIRMED" => Credit(p)', s # "COMPLETED", s \in Closings => Closed(p)'
      PROVE  StatusInv'
  BY <1>0, <1>2, Grows DEF StatusInv, PaymentInv, SuccessStatuses
<1>3. ASSUME NEW w \in Workers, CreateRow(w) PROVE StatusInv'
  <2>1. job[w].p \in Payments BY <1>3, JobFields DEF CreateRow
  <2> QED BY <1>2, <1>3, <2>1 DEF CreateRow, Closings
<1>4. ASSUME NEW w \in Workers, ApplyWrite(w) PROVE StatusInv'
  <2>1. PICK p : p = job[w].p OBVIOUS
  <2>2. PICK s : s = job[w].next OBVIOUS
  <2>3. /\ p \in Payments /\ s \in GatewayStatus
        /\ s = "CONFIRMED" => Credit(p)'
        /\ s \in Closings => Closed(p)'
    BY <1>4, <2>1, <2>2, WriteMoves
  <2>4. status' = [status EXCEPT ![p] = s] BY <1>4, <2>1, <2>2 DEF ApplyWrite
  <2> QED BY <1>2, <2>3, <2>4, StatusSets
<1>5. ASSUME NEW w \in Workers, RefundPending(w) PROVE StatusInv'
  <2>1. job[w].p \in Payments BY <1>5, JobFields DEF RefundPending
  <2> QED BY <1>2, <1>5, <2>1 DEF RefundPending, Closings
<1>6. ASSUME NEW w \in Workers, RefundFinish(w) PROVE StatusInv'
  <2>0. PICK p : p = job[w].p OBVIOUS
  <2>1. p \in Payments BY <1>6, <2>0, JobFields DEF RefundFinish
  <2>2. Closed(p)' BY <1>6, <2>0, <2>1 DEF RefundFinish, Closed, ClosingMarks
  <2>3. PICK s \in {"PARTIALLY_REFUNDED", "REFUNDED"} : status' = [status EXCEPT ![p] = s]
    BY <1>6, <2>0 DEF RefundFinish
  <2> QED BY <1>2, <2>1, <2>2, <2>3
<1> QED
  BY <1>1, <1>3, <1>4, <1>5, <1>6
  DEF Next, WorkerStep, vars, paymentVars, CreateCharge, Simulate, RefundGateway, GatewayMoves, ExpireScan,
      Webhook, WebhookTooEarly, WebhookMismatch, RefundRead, ApplyRead, ApplyRefused, WebhookMark,
      RefundDebit, Abandon, GatewayReports

LEMMA MoneyStep == TypeOK /\ PaymentInv /\ [Next]_vars => MoneyInv'
<1> SUFFICES ASSUME TypeOK, PaymentInv, [Next]_vars PROVE MoneyInv'
  OBVIOUS
<1> USE DEF TypeOK
<1>0. PostedOnce /\ FlagAgreesWithWallet /\ MovesAreBacked BY DEF PaymentInv, MoneyInv
<1>1. CASE UNCHANGED <<posted, credited>>
  BY <1>0, <1>1, Grows DEF MoneyInv, PostedOnce, FlagAgreesWithWallet, MovesAreBacked
<1>2. ASSUME NEW key \in Keys, Post(key) PROVE PostedOnce'
  BY <1>0, <1>2, PostGrows DEF PostedOnce
<1>3. ASSUME NEW p \in Payments, Post(<<"credit", p>>), credited' = credited \union {p},
             p \in internal \union paid
      PROVE  MoneyInv'
  <2>1. /\ posted'[<<"credit", p>>] > 0
        /\ \A q \in Payments \ {p} : posted'[<<"credit", q>>] = posted[<<"credit", q>>]
        /\ \A q \in Payments : posted'[<<"refund-debit", q>>] = posted[<<"refund-debit", q>>]
    BY <1>3, PostGrows, KeysMade
  <2>2. FlagAgreesWithWallet' BY <1>0, <1>3, <2>1 DEF FlagAgreesWithWallet
  <2>3. MovesAreBacked'
    <3> SUFFICES ASSUME NEW q \in Payments
                 PROVE  /\ posted'[<<"refund-debit", q>>] > 0 => posted'[<<"credit", q>>] > 0
                        /\ q \notin internal' /\ posted'[<<"credit", q>>] > 0 => q \in paid'
      BY DEF MovesAreBacked
    <3>1. /\ posted[<<"refund-debit", q>>] > 0 => posted[<<"credit", q>>] > 0
          /\ q \notin internal /\ posted[<<"credit", q>>] > 0 => q \in paid
      BY <1>0 DEF MovesAreBacked
    <3>2. internal' = internal /\ paid \subseteq paid' BY Grows
    <3>3. CASE q = p BY <1>3, <2>1, <3>2, <3>3
    <3>4. CASE q # p BY <2>1, <3>1, <3>2, <3>4
    <3> QED BY <3>3, <3>4
  <2> QED BY <1>2, <1>3, <2>2, <2>3, KeysMade DEF MoneyInv
<1>4. ASSUME NEW p \in Payments, p \in credited, Post(<<"refund-debit", p>>), UNCHANGED credited
      PROVE  MoneyInv'
  <2>1. /\ \A q \in Payments : posted'[<<"credit", q>>] = posted[<<"credit", q>>]
        /\ \A q \in Payments \ {p} : posted'[<<"refund-debit", q>>] = posted[<<"refund-debit", q>>]
    BY <1>4, PostGrows, KeysMade
  <2>2. FlagAgreesWithWallet' BY <1>0, <1>4, <2>1 DEF FlagAgreesWithWallet
  <2>3. MovesAreBacked'
    <3>1. posted[<<"credit", p>>] > 0 BY <1>0, <1>4 DEF FlagAgreesWithWallet
    <3> QED BY <1>0, <2>1, <3>1, Grows DEF MovesAreBacked
  <2> QED BY <1>2, <1>4, <2>2, <2>3, KeysMade DEF MoneyInv
<1>5. ASSUME NEW p \in Payments, Post(<<"refund-credit", p>>), UNCHANGED credited
      PROVE  MoneyInv'
  <2>1. \A q \in Payments : /\ posted'[<<"credit", q>>] = posted[<<"credit", q>>]
                            /\ posted'[<<"refund-debit", q>>] = posted[<<"refund-debit", q>>]
    BY <1>5, PostGrows, KeysMade
  <2>2. FlagAgreesWithWallet' BY <1>0, <1>5, <2>1 DEF FlagAgreesWithWallet
  <2>3. MovesAreBacked' BY <1>0, <2>1, Grows DEF MovesAreBacked
  <2> QED BY <1>2, <1>5, <2>2, <2>3, KeysMade DEF MoneyInv
<1>6. ASSUME NEW w \in Workers, ApplyWrite(w) PROVE MoneyInv'
  BY <1>1, <1>3, <1>4, <1>5, <1>6, WriteMoves
<1>7. ASSUME NEW w \in Workers, RefundDebit(w) PROVE MoneyInv'
  <2>1. job[w].op = "debit" /\ job[w].p \in Payments BY <1>7, JobFields DEF RefundDebit
  <2>2. job[w].p \in credited BY <2>1 DEF PaymentInv, JobInv
  <2> QED BY <1>4, <1>7, <2>1, <2>2 DEF RefundDebit, paymentVars
<1> QED
  BY <1>1, <1>6, <1>7
  DEF Next, WorkerStep, vars, paymentVars, CreateCharge, Simulate, RefundGateway, GatewayMoves, ExpireScan,
      Webhook, WebhookTooEarly, WebhookMismatch, RefundRead, CreateRow, ApplyRead, ApplyRefused, WebhookMark,
      RefundPending, RefundFinish, Abandon, GatewayReports

LEMMA RowStep == TypeOK /\ PaymentInv /\ [Next]_vars => RowInv' /\ ConfirmationNotForgotten'
<1> SUFFICES ASSUME TypeOK, PaymentInv, [Next]_vars PROVE RowInv' /\ ConfirmationNotForgotten'
  OBVIOUS
<1> USE DEF TypeOK
<1>0. RowInv /\ ConfirmationNotForgotten BY DEF PaymentInv
<1>1. ASSUME NEW e \in Events, row'[e] = "PROCESSED",
             row[e] # "PROCESSED" => event[e].sent /\ (Confirms(e) => Credit(event[e].p) \/ Closed(event[e].p))
      PROVE  event'[e].sent /\ (Confirms(e)' => Credit(event[e].p)' \/ Closed(event[e].p)')
  <2>1. event[e].sent BY <1>0, <1>1 DEF RowInv
  <2>2. event'[e] = event[e] /\ event[e].p \in Payments BY <2>1, Grows, EventFields
  <2>3. Confirms(e) => Credit(event[e].p) \/ Closed(event[e].p)
    BY <1>0, <1>1 DEF ConfirmationNotForgotten, Confirms, Credit, Closed, ClosingMarks
  <2>4. Credit(event[e].p) \/ Closed(event[e].p) => Credit(event[e].p)' \/ Closed(event[e].p)'
    BY <2>2, Grows, KeysMade DEF Credit, Closed
  <2> QED BY <2>1, <2>2, <2>3, <2>4 DEF Confirms
<1>2. ASSUME \A e \in Events : row'[e] = "PROCESSED" /\ row[e] # "PROCESSED" =>
                event[e].sent /\ (Confirms(e) => Credit(event[e].p) \/ Closed(event[e].p))
      PROVE  RowInv' /\ ConfirmationNotForgotten'
  BY <1>1, <1>2 DEF RowInv, ConfirmationNotForgotten, Confirms, Credit, Closed, ClosingMarks
<1>3. CASE UNCHANGED row BY <1>2, <1>3
<1>4. ASSUME NEW w \in Workers, NEW e \in Events, Webhook(w, e) \/ WebhookTooEarly(w, e)
      PROVE  RowInv' /\ ConfirmationNotForgotten'
  <2>1. \A f \in Events : row'[f] = "PROCESSED" => row[f] = "PROCESSED"
    BY <1>4 DEF Webhook, WebhookTooEarly
  <2> QED BY <1>2, <2>1
<1>5. ASSUME NEW w \in Workers, NEW e \in Events, WebhookMismatch(w, e)
      PROVE  RowInv' /\ ConfirmationNotForgotten'
  <2>1. /\ event[e].sent /\ ~Confirms(e) /\ \A f \in Events \ {e} : row'[f] = row[f]
    BY <1>5 DEF WebhookMismatch, Confirms
  <2> QED BY <1>2, <2>1
<1>6. ASSUME NEW w \in Workers, WebhookMark(w) PROVE RowInv' /\ ConfirmationNotForgotten'
  <2>1. job[w].op = "mark" /\ job[w].e \in Events BY <1>6, JobFields DEF WebhookMark
  <2>2. /\ event[job[w].e].sent
        /\ Confirms(job[w].e) => Credit(event[job[w].e].p) \/ Closed(event[job[w].e].p)
    BY <2>1 DEF PaymentInv, JobInv
  <2>3. \A f \in Events \ {job[w].e} : row'[f] = row[f] BY <1>6 DEF WebhookMark
  <2> QED BY <1>2, <2>1, <2>2, <2>3
<1> QED
  BY <1>3, <1>4, <1>5, <1>6
  DEF Next, WorkerStep, vars, CreateCharge, Simulate, RefundGateway, GatewayMoves, ExpireScan, RefundRead,
      CreateRow, ApplyRead, ApplyWrite, ApplyRefused, RefundPending, RefundDebit, RefundFinish, Abandon,
      GatewayReports
\* A worker that turns to a new status of a payment may do so.
LEMMA AppliesJob ==
  ASSUME TypeOK, [Next]_vars, NEW w \in Workers, NEW p, NEW next \in GatewayStatus, NEW e,
         job'[w] = Apply(p, next, e),
         next = "CONFIRMED" => p \in internal \union paid',
         e # NoEvent => /\ event'[e].sent /\ p = event'[e].p
                        /\ Confirms(e)' => next \notin {"PENDING", "AUTHORIZED"}
  PROVE  JobInv(w)'
<1>1. /\ job'[w].op = "read" /\ job'[w].p = p /\ job'[w].next = next /\ job'[w].e = e BY DEF Apply
<1> QED BY <1>1, Grows DEF JobInv, Confirms

\* What a worker takes up in a step is true after it.
LEMMA JobStep ==
  ASSUME TypeOK, Reported, PaymentInv, [Next]_vars, NEW w \in Workers
  PROVE  JobInv(w)'
<1> USE DEF TypeOK
<1>0. job[w] \in Job /\ JobInv(w) BY DEF PaymentInv
<1>1. CASE job'[w] = job[w] BY <1>0, <1>1, OthersJob
<1>2. CASE job'[w] = Idle BY <1>2 DEF JobInv, Idle
<1>3. ASSUME NEW p \in Payments, CreateCharge(w, p) PROVE JobInv(w)'
  <2>1. PICK confirmed \in BOOLEAN :
          /\ paid' = IF confirmed THEN paid \union {p} ELSE paid
          /\ Take(w, [op |-> "charged", p |-> p, confirmed |-> confirmed])
    BY <1>3 DEF CreateCharge
  <2>2. job'[w] = [op |-> "charged", p |-> p, confirmed |-> confirmed] BY <2>1 DEF Take
  <2>3. confirmed => p \in paid' BY <2>1
  <2>4. job'[w].op = "charged" /\ job'[w].p = p /\ job'[w].confirmed = confirmed BY <2>2
  <2> QED BY <2>3, <2>4 DEF JobInv
<1>4. CASE CreateRow(w)
  <2>1. CASE job[w].confirmed
    <3>1. PICK p : p = job[w].p OBVIOUS
    <3>2. p \in paid /\ job'[w] = Apply(p, "CONFIRMED", NoEvent)
      BY <1>0, <1>4, <2>1, <3>1 DEF CreateRow, JobInv, Take
    <3>3. p \in paid' BY <3>2, Grows
    <3> QED BY <3>2, <3>3, StatusSets, AppliesJob
  <2>2. CASE ~job[w].confirmed BY <1>2, <1>4, <2>2 DEF CreateRow, Finished, Take
  <2> QED BY <2>1, <2>2
<1>5. CASE ApplyRead(w)
  <2>0. /\ job[w].op = "read" /\ job[w].p \in Payments /\ job[w].e \in Events \union {NoEvent}
        /\ job[w].next \in GatewayStatus
    BY <1>0, <1>5, JobFields DEF ApplyRead, JobInv
  <2> DEFINE ignored == \/ status[job[w].p] = job[w].next
                        \/ /\ status[job[w].p] \in SuccessStatuses \union BlockedStatuses
                           /\ job[w].next \in SuccessStatuses
             write == [op |-> "write", p |-> job[w].p, next |-> job[w].next, e |-> job[w].e,
                       credited |-> job[w].p \in credited]
  <2>1. UNCHANGED <<internal, credited, posted, marks, paid, event>>
    BY <1>5 DEF ApplyRead, paymentVars, gatewayVars
  <2>2. CASE ~ignored
    <3>1. job'[w] = write BY <1>5, <2>2 DEF ApplyRead, Take
    <3>2. /\ job'[w].op = "write" /\ job'[w].p = job[w].p /\ job'[w].next = job[w].next
          /\ job'[w].e = job[w].e /\ job'[w].credited = (job[w].p \in credited)
      BY <3>1
    <3> QED BY <1>0, <2>0, <2>1, <3>2 DEF JobInv, Confirms
  <2>3. CASE ignored /\ job[w].e # NoEvent
    <3>1. PICK e : e = job[w].e OBVIOUS
    <3>2. job'[w] = [op |-> "mark", e |-> e] BY <1>5, <2>3, <3>1 DEF ApplyRead, Take
    <3>3. /\ e \in Events /\ event[e].sent /\ job[w].p = event[e].p
          /\ Confirms(e) => job[w].next \notin {"PENDING", "AUTHORIZED"}
      BY <1>0, <2>0, <2>3, <3>1 DEF JobInv
    <3>4. event[e].p \in Payments /\ event[e].p \notin internal
      BY <3>3, EventFields DEF PaymentInv, EventInv
    <3>5. Confirms(e) => Credit(event[e].p) \/ Closed(event[e].p)
      BY <2>0, <2>3, <3>3, <3>4, StatusSets
      DEF PaymentInv, StatusInv, SuccessStatuses, BlockedStatuses, Closings
    <3> QED BY <2>1, <3>2, <3>3, <3>5 DEF JobInv, Confirms, Credit, Closed
  <2>4. CASE ignored /\ job[w].e = NoEvent
    BY <1>2, <1>5, <2>4 DEF ApplyRead, Finished, Take
  <2> QED BY <2>2, <2>3, <2>4
<1>6. CASE ApplyWrite(w)
  <2>1. CASE job[w].e = NoEvent BY <1>2, <1>6, <2>1 DEF ApplyWrite, Finished, Take
  <2>2. CASE job[w].e # NoEvent
    <3>1. PICK e, p, next : e = job[w].e /\ p = job[w].p /\ next = job[w].next OBVIOUS
    <3>2. job'[w] = [op |-> "mark", e |-> e] /\ UNCHANGED event
      BY <1>6, <2>2, <3>1 DEF ApplyWrite, Take, gatewayVars
    <3>3. /\ event[e].sent /\ p = event[e].p
          /\ Confirms(e) => next \notin {"PENDING", "AUTHORIZED"}
      BY <1>0, <1>6, <2>2, <3>1 DEF ApplyWrite, JobInv
    <3>4. /\ next \in GatewayStatus /\ (next = "CONFIRMED" => Credit(p)') /\ (next \in Closings => Closed(p)')
      BY <1>6, <3>1, WriteMoves
    <3>5. Confirms(e) => Credit(p)' \/ Closed(p)' BY <3>3, <3>4, StatusSets DEF Closings
    <3>6. event'[e] = event[e] /\ event'[e].p = p BY <3>2, <3>3
    <3> QED BY <3>2, <3>3, <3>5, <3>6 DEF JobInv, Confirms, Credit, Closed
  <2> QED BY <2>1, <2>2
<1>7. CASE ApplyRefused(w) \/ WebhookMark(w) \/ RefundFinish(w) \/ Abandon(w)
  BY <1>2, <1>7 DEF ApplyRefused, WebhookMark, RefundFinish, Abandon, Finished, Take
<1>8. ASSUME NEW e \in Events, Webhook(w, e) PROVE JobInv(w)'
  <2>1. /\ event[e].sent /\ event[e].p \in Payments /\ event[e].says \in GatewayStatus
        /\ UNCHANGED <<paid, event>>
    BY <1>8, EventFields DEF Webhook, gatewayVars
  <2>2. PICK p : p = event[e].p OBVIOUS
  <2>3. PICK next \in {event[e].says, gateway[p]} : job'[w] = Apply(p, next, e)
    BY <1>8, <2>2 DEF Webhook, Take
  <2>4. next \in GatewayStatus BY <2>1, <2>2, <2>3 DEF Reported
  <2>5. next = "CONFIRMED" => p \in paid'
    BY <2>1, <2>2, <2>3 DEF PaymentInv, GatewayInv, EventInv
  <2>6. Confirms(e) => next \notin {"PENDING", "AUTHORIZED"}
    BY <2>1, <2>2, <2>3 DEF PaymentInv, GatewayInv, EventInv, Confirms
  <2>7. Confirms(e)' <=> Confirms(e) BY <2>1 DEF Confirms
  <2> QED BY <2>1, <2>2, <2>3, <2>4, <2>5, <2>6, <2>7, AppliesJob
<1>9. ASSUME NEW p \in Payments, ExpireScan(w, p) PROVE JobInv(w)'
  <2>1. job'[w] = Apply(p, "EXPIRED", NoEvent) BY <1>9 DEF ExpireScan, Take
  <2> QED BY <2>1, StatusSets, AppliesJob
<1>10. ASSUME NEW p \in Payments, NEW outcome \in Simulated, Simulate(w, p, outcome) PROVE JobInv(w)'
  <2>1. job'[w] = Apply(p, outcome, NoEvent) BY <1>10 DEF Simulate, Take
  <2>2. outcome = "CONFIRMED" => p \in internal \union paid' BY <1>10 DEF Simulate
  <2> QED BY <2>1, <2>2, SimulatedAssumption, StatusSets, AppliesJob
<1>11. ASSUME NEW p \in Payments, NEW partial \in BOOLEAN, RefundRead(w, p, partial) PROVE JobInv(w)'
  <2>1. job'[w] = [op |-> "pending", p |-> p, partial |-> partial, credited |-> p \in credited]
    BY <1>11 DEF RefundRead, Take
  <2>2. job'[w].op = "pending" /\ job'[w].p = p /\ job'[w].credited = (p \in credited) BY <2>1
  <2> QED BY <2>2, Grows DEF JobInv
<1>12. ASSUME job[w].op \in {"pending", "refund", "debit"},
              NEW op \in {"refund", "debit", "finish"}, job'[w] = [job[w] EXCEPT !.op = op],
              op = "debit" => job[w].credited
       PROVE  JobInv(w)'
  <2>1. job'[w] = [op |-> op, p |-> job[w].p, partial |-> job[w].partial, credited |-> job[w].credited]
    BY <1>0, <1>12, RefundGoesOn
  <2>2. job'[w].op = op /\ job'[w].p = job[w].p /\ job'[w].credited = job[w].credited BY <2>1
  <2>3. job[w].credited => job[w].p \in credited' BY <1>0, <1>12, Grows DEF JobInv
  <2> QED BY <1>12, <2>2, <2>3 DEF JobInv
<1>13. CASE RefundPending(w)
  <2>1. CASE job[w].p \in internal
    <3>1. PICK p : p = job[w].p OBVIOUS
    <3>2. job'[w] = Apply(p, "REFUNDED", NoEvent) BY <1>13, <2>1, <3>1 DEF RefundPending, Take
    <3> QED BY <3>2, StatusSets, AppliesJob
  <2>2. CASE job[w].p \notin internal BY <1>12, <1>13, <2>2 DEF RefundPending, Take
  <2> QED BY <2>1, <2>2
<1>14. CASE RefundGateway(w)
  <2>1. CASE job[w].credited BY <1>12, <1>14, <2>1 DEF RefundGateway, Take
  <2>2. CASE ~job[w].credited BY <1>12, <1>14, <2>2 DEF RefundGateway, Take
  <2> QED BY <2>1, <2>2
<1>15. CASE RefundDebit(w) BY <1>12, <1>15 DEF RefundDebit, Take
<1>16. ASSUME NEW e \in Events, WebhookTooEarly(w, e) \/ WebhookMismatch(w, e) PROVE job'[w] = job[w]
  BY <1>16 DEF WebhookTooEarly, WebhookMismatch
<1>17. ASSUME WorkerStep(w) PROVE JobInv(w)'
  BY <1>1, <1>3, <1>4, <1>5, <1>6, <1>7, <1>8, <1>9, <1>10, <1>11, <1>13, <1>14, <1>15, <1>16, <1>17
  DEF WorkerStep
<1>18. ASSUME NEW v \in Workers, WorkerStep(v), v # w PROVE job'[w] = job[w]
  BY <1>18
  DEF WorkerStep, CreateCharge, Simulate, RefundGateway, ExpireScan, Webhook, WebhookTooEarly,
      WebhookMismatch, RefundRead, CreateRow, ApplyRead, ApplyWrite, ApplyRefused, WebhookMark, RefundPending,
      RefundDebit, RefundFinish, Abandon, Finished, Take
<1>19. CASE (\E p \in Payments : GatewayMoves(p) \/ \E e \in Events : GatewayReports(p, e)) \/ UNCHANGED vars
  BY <1>1, <1>19 DEF GatewayMoves, GatewayReports, vars
<1> QED BY <1>1, <1>17, <1>18, <1>19 DEF Next

----------------------------------------------------------------------------
(* Theorems *)

LEMMA PaymentStart == Init => PaymentInv
<1> SUFFICES ASSUME Init PROVE PaymentInv
  OBVIOUS
<1>1. \A w \in Workers : JobInv(w) BY DEF Init, JobInv, Idle
<1>2. GatewayInv /\ EventInv /\ RowInv BY DEF Init, GatewayInv, EventInv, RowInv, NotSent
<1>3. StatusInv BY DEF Init, StatusInv, SuccessStatuses, Closings
<1>4. MoneyInv /\ ConfirmationNotForgotten
  <2>1. \A key \in Keys : posted[key] = 0 BY DEF Init
  <2>2. credited = {} /\ \A e \in Events : row[e] = "NONE" BY DEF Init
  <2>3. PostedOnce BY <2>1 DEF PostedOnce
  <2>4. FlagAgreesWithWallet /\ MovesAreBacked
    <3>1. ASSUME NEW p \in Payments
          PROVE  ~(posted[<<"credit", p>>] > 0) /\ ~(posted[<<"refund-debit", p>>] > 0)
      <4>1. posted[<<"credit", p>>] = 0 /\ posted[<<"refund-debit", p>>] = 0 BY <2>1, KeysMade
      <4> QED BY <4>1
    <3>2. FlagAgreesWithWallet BY <2>2, <3>1, Zenon DEF FlagAgreesWithWallet
    <3>3. MovesAreBacked BY <3>1, Zenon DEF MovesAreBacked
    <3> QED BY <3>2, <3>3
  <2>5. ConfirmationNotForgotten BY <2>2 DEF ConfirmationNotForgotten
  <2> QED BY <2>3, <2>4, <2>5 DEF MoneyInv
<1> QED BY <1>1, <1>2, <1>3, <1>4 DEF PaymentInv

LEMMA PaymentAlways == Spec => []PaymentInv
<1>1. TypeOK /\ Reported /\ PaymentInv /\ [Next]_vars => PaymentInv'
  BY JobStep, GatewayStep, EventStep, StatusStep, MoneyStep, RowStep DEF PaymentInv
<1> QED BY <1>1, PaymentStart, TypeAlways, PTL DEF Spec

\* A payment's money moves at most once each way, whichever webhooks, timers, operators and
\* retries ask for it together: the wallet's keys hold although applyStatus reads without a lock.
THEOREM MovedOnce == Spec => []PostedOnce
<1>1. PaymentInv => PostedOnce BY DEF PaymentInv, MoneyInv
<1> QED BY <1>1, PaymentAlways, PTL

\* walletCredited and the wallet's entry never disagree: they are written in one transaction.
THEOREM FlagIsTrue == Spec => []FlagAgreesWithWallet
<1>1. PaymentInv => FlagAgreesWithWallet BY DEF PaymentInv, MoneyInv
<1> QED BY <1>1, PaymentAlways, PTL

\* Refunds take back what was credited, and credits were paid at the gateway.
THEOREM MovesHaveCause == Spec => []MovesAreBacked
<1>1. PaymentInv => MovesAreBacked BY DEF PaymentInv, MoneyInv
<1> QED BY <1>1, PaymentAlways, PTL

\* An event that confirms a payment is marked processed only when the wallet has the money or the
\* payment had been closed: what applyStatus ignores was applied before.
THEOREM ConfirmationsCount == Spec => []ConfirmationNotForgotten
<1>1. PaymentInv => ConfirmationNotForgotten BY DEF PaymentInv
<1> QED BY <1>1, PaymentAlways, PTL

----------------------------------------------------------------------------
(* The refinement of Movements *)

Shown == {p \in Payments : status[p] \in SuccessStatuses}

\* A status written shows its payment as confirmed, or no longer.
LEMMA ShownStep ==
  ASSUME TypeOK, NEW p \in Payments, NEW s, status' = [status EXCEPT ![p] = s]
  PROVE  Shown' = IF s \in SuccessStatuses THEN Shown \union {p} ELSE Shown \ {p}
<1>1. status'[p] = s /\ \A q \in Payments \ {p} : status'[q] = status[q] BY DEF TypeOK
<1> QED BY <1>1 DEF Shown

\* A wallet entry is the first of its key, or changes nothing.
LEMMA PostEnters ==
  ASSUME TypeOK, NEW move \in {"credit", "refund-debit", "refund-credit"}, NEW p \in Payments,
         Post(<<move, p>>)
  PROVE  MovementsOf!Enters(move, p) \/ UNCHANGED posted
<1>1. <<move, p>> \in Keys BY DEF Keys
<1>2. CASE posted[<<move, p>>] = 0 BY <1>1, <1>2 DEF Post, MovementsOf!Enters
<1>3. CASE posted[<<move, p>>] # 0
  <2>1. posted' = [posted EXCEPT ![<<move, p>>] = posted[<<move, p>>]] BY <1>1, <1>3 DEF Post, TypeOK
  <2> QED BY <1>1, <2>1 DEF TypeOK
<1> QED BY <1>2, <1>3

\* The one transaction of applyStatus that moves money.
LEMMA WriteIsMovement ==
  ASSUME TypeOK, PaymentInv, [Next]_vars, NEW w \in Workers, ApplyWrite(w)
  PROVE  MovementsOf!Next \/ UNCHANGED MovementsOf!vars
<1> PICK p, next : p = job[w].p /\ next = job[w].next
  OBVIOUS
<1>1. /\ p \in Payments /\ next \in GatewayStatus /\ (job[w].credited => p \in credited)
      /\ next = "CONFIRMED" => p \in internal \union paid
  BY JobFields DEF TypeOK, ApplyWrite, PaymentInv, JobInv
<1>2. UNCHANGED <<internal, paid>> BY DEF ApplyWrite, gatewayVars
<1>3. next \in SuccessStatuses <=> next = "CONFIRMED" BY <1>1, StatusSets DEF SuccessStatuses
<1>4. Shown' = IF next = "CONFIRMED" THEN Shown \union {p} ELSE Shown \ {p}
  <2>1. status' = [status EXCEPT ![p] = next] BY DEF ApplyWrite
  <2> QED BY <1>1, <1>3, <2>1, ShownStep
<1>5. WalletMoves(p, next, job[w].credited) BY DEF ApplyWrite
<1>6. CASE /\ next = "CONFIRMED" /\ ~job[w].credited
           /\ Post(<<"credit", p>>) /\ credited' = credited \union {p}
  <2>1. CASE p \in credited
    <3>1. posted[<<"credit", p>>] # 0
      BY <1>1, <2>1, KeysMade DEF PaymentInv, MoneyInv, FlagAgreesWithWallet, TypeOK
    <3>2. UNCHANGED posted
      <4>1. <<"credit", p>> \in Keys BY <1>1, KeysMade
      <4>2. posted' = [posted EXCEPT ![<<"credit", p>>] = posted[<<"credit", p>>]]
        BY <1>6, <3>1, <4>1 DEF Post, TypeOK
      <4> QED BY <4>1, <4>2 DEF TypeOK
    <3>3. credited' = credited BY <1>6, <2>1
    <3>4. MovementsOf!Confirm(p) BY <1>2, <1>4, <1>6, <2>1, <3>2, <3>3 DEF MovementsOf!Confirm, Shown
    <3> QED BY <1>1, <3>4 DEF MovementsOf!Next
  <2>2. CASE p \notin credited
    <3>1. posted[<<"credit", p>>] = 0
      <4>1. ~(posted[<<"credit", p>>] > 0) BY <1>1, <2>2 DEF PaymentInv, MoneyInv, FlagAgreesWithWallet
      <4>2. posted[<<"credit", p>>] \in Nat BY <1>1, KeysMade DEF TypeOK
      <4> QED BY <4>1, <4>2
    <3>2. MovementsOf!Enters("credit", p) BY <1>1, <1>6, <3>1, KeysMade DEF Post, MovementsOf!Enters, TypeOK
    <3>3. MovementsOf!Credit(p) BY <1>1, <1>2, <1>4, <1>6, <2>2, <3>2 DEF MovementsOf!Credit, Shown
    <3> QED BY <1>1, <3>3 DEF MovementsOf!Next
  <2> QED BY <2>1, <2>2
<1>7. CASE /\ next # "CONFIRMED" /\ UNCHANGED credited
           /\ \/ p \in credited /\ Post(<<"refund-debit", p>>)
              \/ p \in internal /\ Post(<<"refund-credit", p>>)
  <2>1. Shown' = Shown \ {p} BY <1>4, <1>7
  <2>2. CASE UNCHANGED posted
    <3>1. MovementsOf!Close(p) BY <1>2, <1>7, <2>1, <2>2 DEF MovementsOf!Close, Shown
    <3> QED BY <1>1, <3>1 DEF MovementsOf!Next
  <2>3. CASE \/ p \in credited /\ MovementsOf!Enters("refund-debit", p)
             \/ p \in internal /\ MovementsOf!Enters("refund-credit", p)
    <3>1. MovementsOf!Refund(p) BY <1>2, <1>7, <2>1, <2>3 DEF MovementsOf!Refund, Shown
    <3> QED BY <1>1, <3>1 DEF MovementsOf!Next
  <2> QED BY <1>1, <1>7, <2>2, <2>3, PostEnters
<1>8. CASE UNCHANGED <<posted, credited>> /\ (next = "CONFIRMED" => p \in credited)
  <2>1. CASE next = "CONFIRMED"
    <3>1. MovementsOf!Confirm(p) BY <1>2, <1>4, <1>8, <2>1 DEF MovementsOf!Confirm, Shown
    <3> QED BY <1>1, <3>1 DEF MovementsOf!Next
  <2>2. CASE next # "CONFIRMED"
    <3>1. MovementsOf!Close(p) BY <1>2, <1>4, <1>8, <2>2 DEF MovementsOf!Close, Shown
    <3> QED BY <1>1, <3>1 DEF MovementsOf!Next
  <2> QED BY <2>1, <2>2
<1>9. next \in RefundedStatuses => next # "CONFIRMED" BY DEF RefundedStatuses
<1> QED BY <1>1, <1>3, <1>5, <1>6, <1>7, <1>8, <1>9 DEF WalletMoves

\* Payments implements Movements: each transaction of applyStatus, each step of a refund, and what
\* the gateway does on its own is one of the moves a driver may see, or none.
THEOREM PaymentsImplementMovements == Spec => ImplementsMovements
<1>1. Init => MovementsOf!Init
  <2> SUFFICES ASSUME Init PROVE MovementsOf!Init
    OBVIOUS
  <2>1. Shown = internal BY DEF Init, Shown, SuccessStatuses
  <2> QED BY <2>1 DEF Init, Shown, Keys, MovementsOf!Init
<1>2. TypeOK /\ PaymentInv /\ [Next]_vars => [MovementsOf!Next]_(MovementsOf!vars)
  <2> SUFFICES ASSUME TypeOK, PaymentInv, [Next]_vars PROVE MovementsOf!Next \/ UNCHANGED MovementsOf!vars
    OBVIOUS
  <2>1. ASSUME UNCHANGED <<internal, status, credited, posted>>, paid' = paid
        PROVE  UNCHANGED MovementsOf!vars
    BY <2>1 DEF MovementsOf!vars
  <2>2. ASSUME NEW p \in Payments, p \notin internal, paid' = paid \union {p},
               UNCHANGED <<internal, status, credited, posted>>
        PROVE  MovementsOf!Next
    <3>1. MovementsOf!Pay(p) BY <2>2 DEF MovementsOf!Pay
    <3> QED BY <3>1 DEF MovementsOf!Next
  <2>3. ASSUME NEW p \in Payments, NEW s, s \notin SuccessStatuses, status' = [status EXCEPT ![p] = s],
               UNCHANGED <<internal, paid, credited, posted>>
        PROVE  MovementsOf!Next
    <3>1. Shown' = Shown \ {p} BY <2>3, ShownStep
    <3>2. MovementsOf!Close(p) BY <2>3, <3>1 DEF MovementsOf!Close, Shown
    <3> QED BY <3>2 DEF MovementsOf!Next
  <2>4. ASSUME NEW w \in Workers, NEW p \in Payments, CreateCharge(w, p)
        PROVE  MovementsOf!Next \/ UNCHANGED MovementsOf!vars
    BY <2>1, <2>2, <2>4 DEF CreateCharge, paymentVars
  <2>5. ASSUME NEW w \in Workers, NEW p \in Payments, NEW outcome \in Simulated, Simulate(w, p, outcome)
        PROVE  MovementsOf!Next \/ UNCHANGED MovementsOf!vars
    BY <2>1, <2>2, <2>5 DEF Simulate, paymentVars
  <2>6. ASSUME NEW p \in Payments, GatewayMoves(p) PROVE MovementsOf!Next \/ UNCHANGED MovementsOf!vars
    <3>1. p \notin internal BY <2>6 DEF GatewayMoves, PaymentInv, GatewayInv
    <3>2. paid' = paid \/ paid' = paid \union {p} BY <2>6 DEF GatewayMoves
    <3> QED BY <2>1, <2>2, <2>6, <3>1, <3>2 DEF GatewayMoves, paymentVars
  <2>7. ASSUME NEW w \in Workers, CreateRow(w) \/ RefundPending(w) PROVE MovementsOf!Next
    <3>1. job[w].p \in Payments BY <2>7, JobFields DEF CreateRow, RefundPending, TypeOK
    <3>2. \E s \in {"PENDING", "REFUND_PENDING"} : status' = [status EXCEPT ![job[w].p] = s]
      BY <2>7 DEF CreateRow, RefundPending
    <3> QED BY <2>3, <2>7, <3>1, <3>2 DEF CreateRow, RefundPending, gatewayVars, SuccessStatuses
  <2>8. ASSUME NEW w \in Workers, RefundFinish(w) PROVE MovementsOf!Next
    <3>1. job[w].p \in Payments BY <2>8, JobFields DEF RefundFinish, TypeOK
    <3>2. \E s \in {"PARTIALLY_REFUNDED", "REFUNDED"} : status' = [status EXCEPT ![job[w].p] = s]
      BY <2>8 DEF RefundFinish
    <3> QED BY <2>3, <2>8, <3>1, <3>2 DEF RefundFinish, gatewayVars, SuccessStatuses
  <2>9. ASSUME NEW w \in Workers, RefundDebit(w) PROVE MovementsOf!Next \/ UNCHANGED MovementsOf!vars
    <3>1. PICK p : p = job[w].p OBVIOUS
    <3>2. p \in Payments /\ p \in credited /\ Post(<<"refund-debit", p>>)
      BY <2>9, <3>1, JobFields DEF RefundDebit, TypeOK, PaymentInv, JobInv
    <3>3. UNCHANGED <<internal, status, credited, paid>> BY <2>9 DEF RefundDebit, paymentVars, gatewayVars
    <3>4. CASE UNCHANGED posted BY <2>1, <3>3, <3>4
    <3>5. CASE MovementsOf!Enters("refund-debit", p)
      <4>1. MovementsOf!Refund(p) BY <3>2, <3>3, <3>5 DEF MovementsOf!Refund
      <4> QED BY <3>2, <4>1 DEF MovementsOf!Next
    <3> QED BY <3>2, <3>4, <3>5, PostEnters
  <2>10. CASE UNCHANGED <<internal, status, credited, posted, paid>> BY <2>1, <2>10
  <2> QED
    BY <2>4, <2>5, <2>6, <2>7, <2>8, <2>9, <2>10, WriteIsMovement
    DEF Next, WorkerStep, vars, paymentVars, gatewayVars, ExpireScan, Webhook, WebhookTooEarly, WebhookMismatch,
        RefundRead, ApplyRead, ApplyRefused, WebhookMark, RefundGateway, Abandon, GatewayReports
<1> QED BY <1>1, <1>2, TypeAlways, PaymentAlways, PTL DEF Spec, ImplementsMovements, MovementsOf!Spec
=============================================================================
