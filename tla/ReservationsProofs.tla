------------------------- MODULE ReservationsProofs -------------------------
(***************************************************************************)
(* Theorems about Reservations, for every set of reservations, sessions    *)
(* and connectors, every length of the windows, of the grace and of the    *)
(* early check-in, and every number of crashes.                            *)
(***************************************************************************)
EXTENDS Reservations, TLAPS

----------------------------------------------------------------------------
(* Type correctness *)

\* The connector's vocabulary, written out.
LEMMA ConnectorVocabulary ==
  ConnectorStatus = {"AVAILABLE", "PREPARING", "CHARGING", "SUSPENDED", "FINISHING",
                     "UNAVAILABLE", "FAULTED", "RESERVED"}
  BY DEF ConnectorStatus, ConnectorNext

\* Every statement to come is a call.
LEMMA OnIsCall ==
  ASSUME NEW by \in {"driver", "timer", "session"}, NEW r \in Reservations,
         NEW op \in {"create", "insert", "due", "reserve", "close", "look", "free", "begin",
                     "complete"}
  PROVE  On(by, op, r) \in Call
  BY DEF On, Call

\* Every step of a request keeps the types.
LEMMA CreateStepType ==
  ASSUME TypeOK, NEW r \in Reservations, CreateStep(r)
  PROVE  TypeOK'
<1> USE OnIsCall DEF TypeOK, rowVars, sessionVars, placeVars, fateVars, Add, Done, Become
<1>1. ASSUME NEW c \in Connectors \union {NoConnector}, NEW from \in 0..MaxNow,
             NEW to \in 0..MaxNow, Request(r, c, from, to)
      PROVE  TypeOK'
  <2>1. [con |-> c, start |-> from, end |-> to] \in Booking
    BY TimesAssumption DEF Booking
  <2> QED BY <1>1, <2>1 DEF Request
<1>2. CASE CreateRefused(r)
  <2>1. NoBooking \in Booking BY DEF NoBooking, Booking
  <2> QED BY <1>2, <2>1 DEF CreateRefused
<1>3. CASE CreateCheck(r) BY <1>3 DEF CreateCheck
<1>4. CASE CreateInsert(r) BY <1>4 DEF CreateInsert, ReservationStatus, LIVE_RESERVATION
<1> QED BY <1>1, <1>2, <1>3, <1>4, CreateStep(r) DEF CreateStep

\* Every step that closes a reservation keeps the types.
LEMMA CloseStepType ==
  ASSUME TypeOK, NEW r \in Reservations, NEW by \in Closers,
         CancelRead(r) \/ Close(by, r) \/ Look(by, r) \/ Free(by, r)
  PROVE  TypeOK'
<1> USE OnIsCall, ConnectorVocabulary DEF TypeOK, rowVars, sessionVars, placeVars, fateVars, Add,
       Done, Become, Closers
<1>1. CASE CancelRead(r) BY <1>1 DEF CancelRead
<1>2. CASE Close(by, r)
  <2>1. status' \in [Reservations -> ReservationStatus \union {"NONE"}]
    BY <1>2 DEF Close, Closed, ReservationStatus, LIVE_RESERVATION
  <2>2. calls' \subseteq Call BY <1>2 DEF Close
  <2> QED BY <1>2, <2>1, <2>2 DEF Close
<1>3. CASE Look(by, r) BY <1>3 DEF Look
<1>4. CASE Free(by, r) BY <1>4 DEF Free
<1> QED BY <1>1, <1>2, <1>3, <1>4

\* The passes of the timers and the steps of activateDue keep the types.
LEMMA TimerStepType ==
  ASSUME TypeOK, NoShowPass \/ ActivatePass \/ \E r \in Reservations : ActivateStep(r)
  PROVE  TypeOK'
<1> USE OnIsCall, ConnectorVocabulary DEF TypeOK, rowVars, sessionVars, placeVars, fateVars, Add,
       Done, Become
<1>1. CASE NoShowPass BY <1>1 DEF NoShowPass
<1>2. CASE ActivatePass BY <1>2 DEF ActivatePass
<1>3. ASSUME NEW r \in Reservations, ActivateStep(r)
      PROVE  TypeOK'
  BY <1>3 DEF ActivateStep, ActivateLook, ActivateReserve
<1> QED BY <1>1, <1>2, <1>3

\* Every write to come is one.
LEMMA ToIsWrite ==
  ASSUME NEW op \in {"start", "hold", "over", "reap"}, NEW s \in Sessions
  PROVE  To(op, s) \in Write
  BY DEF To, Write

\* Every step of a session, and what it makes of its reservation, keeps the types.
LEMMA SessionStepType ==
  ASSUME TypeOK,
         \/ \E s \in Sessions : SessionStep(s)
         \/ \E r \in Reservations : MarkActive(r) \/ MarkCompleted(r)
  PROVE  TypeOK'
<1> USE OnIsCall, ToIsWrite, ConnectorVocabulary
    DEF TypeOK, rowVars, sessionVars, placeVars, fateVars, Add, Done
<1>1. ASSUME NEW s \in Sessions, NEW c \in Connectors,
             NEW r \in Reservations \union {NoReservation}, StartCheck(s, c, r)
      PROVE  TypeOK'
  BY <1>1 DEF StartCheck
<1>2. ASSUME NEW s \in Sessions, StartRefused(s) \/ StartConflict(s) \/ StartConflictRelease(s)
      PROVE  TypeOK'
  BY <1>2 DEF StartRefused, StartConflict, StartConflictRelease, Forget, Unprepared
<1>3. ASSUME NEW s \in Sessions, StartLock(s) \/ StartReturns(s) \/ RollbackFailedStart(s)
      PROVE  TypeOK'
  BY <1>3 DEF StartLock, StartReturns, RollbackFailedStart, Unprepared
<1>4. ASSUME NEW s \in Sessions, ConfirmStart(s) \/ Finish(s)
      PROVE  TypeOK'
  BY <1>4 DEF ConfirmStart, Finish
<1>5. ASSUME NEW r \in Reservations, MarkActive(r) \/ MarkCompleted(r)
      PROVE  TypeOK'
  BY <1>5 DEF MarkActive, MarkCompleted, ReservationStatus, LIVE_RESERVATION
<1> QED BY <1>1, <1>2, <1>3, <1>4, <1>5 DEF SessionStep

\* The late writes to a session keep the types.
LEMMA WriteStepType ==
  ASSUME TypeOK, NEW s \in Sessions, WriteStep(s)
  PROVE  TypeOK'
<1> USE ToIsWrite, ConnectorVocabulary DEF TypeOK, rowVars, sessionVars, placeVars, fateVars
<1>1. CASE HoldRead(s) \/ IdleRead(s) \/ ReapRead(s)
  BY <1>1 DEF HoldRead, IdleRead, ReapRead, WriteBegins
<1>2. CASE HoldWrite(s) BY <1>2 DEF HoldWrite
<1>3. CASE OverWrite(s) \/ ReapWrite(s)
  BY <1>3 DEF OverWrite, ReapWrite, Unprepared
<1> QED BY <1>1, <1>2, <1>3 DEF WriteStep

\* What a notification does: it is read, or takes its next step.
ReportStep ==
  \/ \E c \in Connectors, st \in Reported : ReportRead(c, st)
  \/ \E n \in reports : ReportWrite(n) \/ ReportSession(n)

\* Notifications, the clock and a crash keep the types.
LEMMA EnvironmentStepType ==
  ASSUME TypeOK, ReportStep \/ Tick \/ Crash
  PROVE  TypeOK'
<1> USE ToIsWrite, ConnectorVocabulary DEF TypeOK, rowVars, sessionVars, placeVars, fateVars
<1>1. ASSUME NEW c \in Connectors, NEW st \in Reported, ReportRead(c, st)
      PROVE  TypeOK'
  BY <1>1, ReportedAssumption DEF ReportRead, Notice
<1>2. ASSUME NEW n \in reports, ReportWrite(n)
      PROVE  TypeOK'
  <2>1. n \in Notice OBVIOUS
  <2>2. [n EXCEPT !.due = "session"] \in Notice BY <2>1 DEF Notice
  <2>3. n.c \in Connectors /\ n.st \in ConnectorStatus BY <2>1 DEF Notice
  <2> QED BY <1>2, <2>2, <2>3 DEF ReportWrite
<1>3. ASSUME NEW n \in reports, ReportSession(n)
      PROVE  TypeOK'
  BY <1>3 DEF ReportSession
<1>4. CASE Tick BY <1>4, TimesAssumption DEF Tick
<1>5. CASE Crash
  <2>1. NoBooking \in Booking BY DEF NoBooking, Booking
  <2> QED BY <1>5, <2>1 DEF Crash
<1> QED BY <1>1, <1>2, <1>3, <1>4, <1>5 DEF ReportStep

\* The type invariant of the reservations and of the sessions and connectors they touch.
THEOREM TypeCorrect == Spec => []TypeOK
<1>1. Init => TypeOK
  BY TimesAssumption, ConnectorVocabulary
     DEF Init, TypeOK, NoBooking, Booking, ReservationStatus, LIVE_RESERVATION
<1>2. TypeOK /\ [Next]_vars => TypeOK'
  <2> SUFFICES ASSUME TypeOK, [Next]_vars PROVE TypeOK'
    OBVIOUS
  <2>1. CASE Next
    BY <2>1, CreateStepType, CloseStepType, TimerStepType, SessionStepType, WriteStepType,
       EnvironmentStepType DEF Next, NoShowStep, CancelStep, Closers, ReportStep
  <2>2. CASE UNCHANGED vars
    BY <2>2 DEF vars, rowVars, sessionVars, placeVars, fateVars, TypeOK
  <2> QED BY <2>1, <2>2
<1> QED BY <1>1, <1>2, PTL DEF Spec

----------------------------------------------------------------------------
(* Reservations of a connector do not overlap.                             *)
(*                                                                         *)
(* NoOverlap is not inductive: the insert is a step of its own and says     *)
(* nothing of a clash.  What makes it safe is that, between the look and    *)
(* the insert, the row lock keeps any other request for the connector out   *)
(* and that no closed reservation comes back.                               *)

Creating(r)  == On("driver", "create", r) \in calls
Inserting(r) == On("driver", "insert", r) \in calls

\* A row and a request have a booking; the booking of a request is not yet a row.
RowsBooked ==
  \A r \in Reservations : status[r] # "NONE" \/ Creating(r) \/ Inserting(r) => booking[r] # NoBooking

RequestsAreNew ==
  \A r \in Reservations : Creating(r) \/ Inserting(r) => status[r] = "NONE"

OneRequest == \A r \in Reservations : ~(Creating(r) /\ Inserting(r))

\* The row lock.
OneInsertPerConnector ==
  \A p, q \in Reservations :
    p # q /\ Inserting(p) /\ Inserting(q) => ~SameConnector(p, q)

InsertsDoNotClash == \A r \in Reservations : Inserting(r) => ~Clash(r)

\* Only rows are closed.
ClosesRows ==
  \A r \in Reservations, by \in Closers : On(by, "close", r) \in calls => status[r] # "NONE"

OverlapInv ==
  /\ TypeOK /\ RowsBooked /\ RequestsAreNew /\ OneRequest /\ OneInsertPerConnector
  /\ InsertsDoNotClash /\ ClosesRows /\ NoOverlap

\* Statements differ as soon as their operation, their author or their reservation does.
LEMMA OnInjective ==
  ASSUME NEW b1, NEW o1, NEW r1, NEW b2, NEW o2, NEW r2, On(b1, o1, r1) = On(b2, o2, r2)
  PROVE  b1 = b2 /\ o1 = o2 /\ r1 = r2
  BY DEF On

\* A step that leaves the reservations' rows alone, adds no request and closes only rows
\* that exist keeps the invariant.
LEMMA RowsUntouched ==
  ASSUME OverlapInv, TypeOK', UNCHANGED rowVars,
         \A r \in Reservations : (Creating(r)' => Creating(r)) /\ (Inserting(r)' => Inserting(r)),
         \A r \in Reservations, by \in Closers :
           On(by, "close", r) \in calls' => On(by, "close", r) \in calls \/ status[r] # "NONE"
  PROVE  OverlapInv'
  BY DEF OverlapInv, rowVars, RowsBooked, RequestsAreNew, OneRequest, OneInsertPerConnector,
         InsertsDoNotClash, ClosesRows, NoOverlap, Clash, SameConnector, Overlap

\* A step that moves one row without making it live, or keeps a live one live, and leaves
\* requests alone keeps the invariant.
LEMMA RowMoves ==
  ASSUME OverlapInv, TypeOK', UNCHANGED booking, NEW r \in Reservations, NEW next,
         status' = [status EXCEPT ![r] = next],
         next # "NONE" \/ next = status[r],
         status[r] # "NONE" \/ next = status[r],
         next \in LIVE_RESERVATION => status[r] \in LIVE_RESERVATION,
         \A q \in Reservations : (Creating(q)' => Creating(q)) /\ (Inserting(q)' => Inserting(q)),
         \A q \in Reservations, by \in Closers :
           On(by, "close", q) \in calls' => On(by, "close", q) \in calls
  PROVE  OverlapInv'
<1>1. \A q \in Reservations : (status'[q] = "NONE" <=> status[q] = "NONE")
  BY DEF OverlapInv, TypeOK
<1>2. \A q \in Reservations : status'[q] \in LIVE_RESERVATION => status[q] \in LIVE_RESERVATION
  BY DEF OverlapInv, TypeOK
<1> QED
  BY <1>1, <1>2 DEF OverlapInv, RowsBooked, RequestsAreNew, OneRequest, OneInsertPerConnector,
         InsertsDoNotClash, ClosesRows, NoOverlap, Clash, SameConnector, Overlap

\* The steps of create() keep the invariant.
LEMMA CreateStepOverlap ==
  ASSUME OverlapInv, NEW r \in Reservations, CreateStep(r)
  PROVE  OverlapInv'
<1>0. TypeOK'
  BY CreateStepType DEF OverlapInv
<1>1. ASSUME NEW c \in Connectors \union {NoConnector}, NEW from \in 0..MaxNow,
             NEW to \in 0..MaxNow, Request(r, c, from, to)
      PROVE  OverlapInv'
  <2>1. booking'[r] # NoBooking
    BY <1>1, TimesAssumption DEF Request, NoBooking, OverlapInv, TypeOK
  <2>2. \A q \in Reservations : q # r => booking'[q] = booking[q]
    BY <1>1 DEF Request, OverlapInv, TypeOK
  <2>3. status' = status /\ status[r] = "NONE" /\ ~Creating(r) /\ ~Inserting(r)
    BY <1>1 DEF Request, OverlapInv, RowsBooked
  <2>4. \A q \in Reservations : /\ Inserting(q)' <=> Inserting(q)
                                /\ Creating(q)' <=> Creating(q) \/ q = r
                                /\ \A by \in Closers : On(by, "close", q) \in calls' <=> On(by, "close", q) \in calls
    BY <1>1, OnInjective DEF Request, Add, Creating, Inserting
  <2> QED
    BY <1>0, <2>1, <2>2, <2>3, <2>4
       DEF OverlapInv, RowsBooked, RequestsAreNew, OneRequest, OneInsertPerConnector,
           InsertsDoNotClash, ClosesRows, NoOverlap, Clash, SameConnector, Overlap, LIVE_RESERVATION
<1>2. CASE CreateRefused(r)
  <2>1. \A q \in Reservations : q # r => booking'[q] = booking[q]
    BY <1>2 DEF CreateRefused, OverlapInv, TypeOK
  <2>2. status' = status /\ status[r] = "NONE" /\ ~Inserting(r)
    BY <1>2 DEF CreateRefused, OverlapInv, RequestsAreNew, OneRequest, Creating
  <2>3. \A q \in Reservations : /\ Inserting(q)' <=> Inserting(q)
                                /\ Creating(q)' <=> Creating(q) /\ q # r
                                /\ \A by \in Closers : On(by, "close", q) \in calls' <=> On(by, "close", q) \in calls
    BY <1>2, OnInjective DEF CreateRefused, Done, Creating, Inserting
  <2> QED
    BY <1>0, <2>1, <2>2, <2>3
       DEF OverlapInv, RowsBooked, RequestsAreNew, OneRequest, OneInsertPerConnector,
           InsertsDoNotClash, ClosesRows, NoOverlap, Clash, SameConnector, Overlap, LIVE_RESERVATION
<1>3. CASE CreateCheck(r)
  <2>1. UNCHANGED rowVars
    BY <1>3 DEF CreateCheck
  <2>2. \A q \in Reservations : /\ Inserting(q)' <=> Inserting(q) \/ q = r
                                /\ Creating(q)' <=> Creating(q) /\ q # r
                                /\ \A by \in Closers : On(by, "close", q) \in calls' <=> On(by, "close", q) \in calls
    BY <1>3, OnInjective DEF CreateCheck, Become, Creating, Inserting
  <2>3. Creating(r) /\ ~Clash(r)
    BY <1>3 DEF CreateCheck, Creating
  <2>4. \A q \in Reservations : Inserting(q) => ~SameConnector(q, r) /\ ~SameConnector(r, q)
    BY <1>3 DEF CreateCheck, RowLocked, Inserting, SameConnector
  <2> QED
    BY <1>0, <2>1, <2>2, <2>3, <2>4
       DEF OverlapInv, rowVars, RowsBooked, RequestsAreNew, OneRequest, OneInsertPerConnector,
           InsertsDoNotClash, ClosesRows, NoOverlap, Clash, SameConnector, Overlap
<1>4. CASE CreateInsert(r)
  <2>1. booking' = booking /\ status'[r] = "CONFIRMED" /\ \A q \in Reservations : q # r => status'[q] = status[q]
    BY <1>4 DEF CreateInsert, OverlapInv, TypeOK
  <2>2. \A q \in Reservations : /\ Inserting(q)' <=> Inserting(q) /\ q # r
                                /\ Creating(q)' <=> Creating(q)
                                /\ \A by \in Closers : On(by, "close", q) \in calls' <=> On(by, "close", q) \in calls
    BY <1>4, OnInjective DEF CreateInsert, Done, Creating, Inserting
  <2>3. Inserting(r) /\ ~Creating(r) /\ ~Clash(r) /\ booking[r] # NoBooking
    BY <1>4 DEF CreateInsert, Inserting, OverlapInv, OneRequest, InsertsDoNotClash, RowsBooked
  <2>4. NoOverlap'
    BY <2>1, <2>3 DEF NoOverlap, OverlapInv, Clash, SameConnector, Overlap
  <2>5. InsertsDoNotClash'
    BY <2>1, <2>2, <2>3 DEF InsertsDoNotClash, OverlapInv, OneInsertPerConnector, Clash,
       SameConnector, Overlap
  <2>6. (RowsBooked /\ RequestsAreNew /\ OneRequest /\ OneInsertPerConnector /\ ClosesRows)'
    BY <2>1, <2>2, <2>3 DEF OverlapInv, RowsBooked, RequestsAreNew, OneRequest,
       OneInsertPerConnector, ClosesRows, SameConnector
  <2> QED BY <1>0, <2>4, <2>5, <2>6 DEF OverlapInv
<1> QED BY <1>1, <1>2, <1>3, <1>4, CreateStep(r) DEF CreateStep

\* The steps that close a reservation keep the invariant.
LEMMA CloseStepOverlap ==
  ASSUME OverlapInv, NEW r \in Reservations, NEW by \in Closers,
         CancelRead(r) \/ Close(by, r) \/ Look(by, r) \/ Free(by, r)
  PROVE  OverlapInv'
<1>0. TypeOK'
  BY CloseStepType DEF OverlapInv
<1>1. CASE CancelRead(r)
  <2>1. UNCHANGED rowVars /\ status[r] # "NONE"
    BY <1>1 DEF CancelRead, LIVE_RESERVATION
  <2>2. \A q \in Reservations : (Creating(q)' => Creating(q)) /\ (Inserting(q)' => Inserting(q))
    BY <1>1, OnInjective DEF CancelRead, Add, Creating, Inserting
  <2>3. \A q \in Reservations, b \in Closers :
          On(b, "close", q) \in calls' => On(b, "close", q) \in calls \/ status[q] # "NONE"
    BY <1>1, <2>1, OnInjective DEF CancelRead, Add
  <2> QED BY <1>0, <2>1, <2>2, <2>3, RowsUntouched
<1>2. CASE Close(by, r)
  <2>1. booking' = booking /\ status' = [status EXCEPT ![r] = Closed(by)]
    BY <1>2 DEF Close
  <2>2. Closed(by) # "NONE" /\ Closed(by) \notin LIVE_RESERVATION
    BY DEF Closed, LIVE_RESERVATION
  <2>3. status[r] # "NONE"
    BY <1>2 DEF Close, OverlapInv, ClosesRows
  <2>4. \A q \in Reservations : (Creating(q)' => Creating(q)) /\ (Inserting(q)' => Inserting(q))
    BY <1>2, OnInjective DEF Close, Done, Become, Creating, Inserting
  <2>5. \A q \in Reservations, b \in Closers : On(b, "close", q) \in calls' => On(b, "close", q) \in calls
    BY <1>2, OnInjective DEF Close, Done, Become
  <2> QED BY <1>0, <2>1, <2>2, <2>3, <2>4, <2>5, RowMoves
<1>3. CASE Look(by, r) \/ Free(by, r)
  <2>1. UNCHANGED rowVars
    BY <1>3 DEF Look, Free
  <2>2. \A q \in Reservations : (Creating(q)' => Creating(q)) /\ (Inserting(q)' => Inserting(q))
    BY <1>3, OnInjective DEF Look, Free, Done, Become, Creating, Inserting
  <2>3. \A q \in Reservations, b \in Closers : On(b, "close", q) \in calls' => On(b, "close", q) \in calls
    BY <1>3, OnInjective DEF Look, Free, Done, Become
  <2> QED BY <1>0, <2>1, <2>2, <2>3, RowsUntouched
<1> QED BY <1>1, <1>2, <1>3

\* The timers' passes and the steps of activateDue keep the invariant.
LEMMA TimerStepOverlap ==
  ASSUME OverlapInv, NoShowPass \/ ActivatePass \/ \E r \in Reservations : ActivateStep(r)
  PROVE  OverlapInv'
<1>0. TypeOK'
  BY TimerStepType DEF OverlapInv
<1>1. UNCHANGED rowVars
  BY DEF NoShowPass, ActivatePass, ActivateStep, ActivateLook, ActivateReserve, rowVars
<1>2. CASE NoShowPass
  <2>1. \A q \in Reservations : (Creating(q)' => Creating(q)) /\ (Inserting(q)' => Inserting(q))
    BY <1>2, OnInjective DEF NoShowPass, Creating, Inserting
  <2>2. \A q \in Reservations, b \in Closers :
          On(b, "close", q) \in calls' => On(b, "close", q) \in calls \/ status[q] # "NONE"
    BY <1>2, OnInjective DEF NoShowPass
  <2> QED BY <1>0, <1>1, <2>1, <2>2, RowsUntouched
<1>3. CASE ActivatePass
  <2>1. \A q \in Reservations : (Creating(q)' => Creating(q)) /\ (Inserting(q)' => Inserting(q))
    BY <1>3, OnInjective DEF ActivatePass, Creating, Inserting
  <2>2. \A q \in Reservations, b \in Closers : On(b, "close", q) \in calls' => On(b, "close", q) \in calls
    BY <1>3, OnInjective DEF ActivatePass
  <2> QED BY <1>0, <1>1, <2>1, <2>2, RowsUntouched
<1>4. ASSUME NEW r \in Reservations, ActivateStep(r)
      PROVE  OverlapInv'
  <2>1. \A q \in Reservations : (Creating(q)' => Creating(q)) /\ (Inserting(q)' => Inserting(q))
    BY <1>4, OnInjective
       DEF ActivateStep, ActivateLook, ActivateReserve, Done, Become, Creating, Inserting
  <2>2. \A q \in Reservations, b \in Closers : On(b, "close", q) \in calls' => On(b, "close", q) \in calls
    BY <1>4, OnInjective DEF ActivateStep, ActivateLook, ActivateReserve, Done, Become
  <2> QED BY <1>0, <1>1, <2>1, <2>2, RowsUntouched
<1> QED BY <1>2, <1>3, <1>4

\* The steps of a session keep the invariant.
LEMMA SessionStepOverlap ==
  ASSUME OverlapInv, NEW s \in Sessions, SessionStep(s)
  PROVE  OverlapInv'
<1>0. TypeOK'
  BY SessionStepType DEF OverlapInv
<1>1. UNCHANGED rowVars
  BY DEF SessionStep, StartCheck, StartRefused, StartConflict, StartConflictRelease, StartLock,
         StartReturns, RollbackFailedStart, ConfirmStart, Finish, rowVars
<1>2. \/ calls' = calls
      \/ \E r \in Reservations : \/ calls' = calls \union {On("session", "begin", r)}
                                 \/ calls' = calls \union {On("session", "complete", r)}
  BY DEF SessionStep, StartCheck, StartRefused, StartConflict, StartConflictRelease, StartLock,
         StartReturns, RollbackFailedStart, ConfirmStart, Finish, Add, OverlapInv, TypeOK
<1>3. \A q \in Reservations : (Creating(q)' => Creating(q)) /\ (Inserting(q)' => Inserting(q))
  BY <1>2, OnInjective DEF Creating, Inserting
<1>4. \A q \in Reservations, b \in Closers : On(b, "close", q) \in calls' => On(b, "close", q) \in calls
  BY <1>2, OnInjective
<1> QED BY <1>0, <1>1, <1>3, <1>4, RowsUntouched

\* The late writes to a session leave reservations and requests alone.
LEMMA WriteStepRows ==
  ASSUME NEW s \in Sessions, WriteStep(s)
  PROVE  UNCHANGED <<rowVars, calls>>
  BY DEF WriteStep, HoldRead, IdleRead, ReapRead, WriteBegins, HoldWrite, OverWrite, ReapWrite,
         rowVars

\* They keep the invariant.
LEMMA WriteStepOverlap ==
  ASSUME OverlapInv, NEW s \in Sessions, WriteStep(s)
  PROVE  OverlapInv'
<1>1. TypeOK' BY WriteStepType DEF OverlapInv
<1> QED BY <1>1, WriteStepRows, RowsUntouched DEF Creating, Inserting

\* Notifications leave reservations and requests alone.
LEMMA ReportStepRows ==
  ASSUME ReportStep
  PROVE  UNCHANGED <<rowVars, calls>>
  BY DEF ReportStep, ReportRead, ReportWrite, ReportSession, rowVars

\* What a session makes of its reservation keeps the invariant.
LEMMA MarkStepOverlap ==
  ASSUME OverlapInv, NEW r \in Reservations, MarkActive(r) \/ MarkCompleted(r)
  PROVE  OverlapInv'
<1>0. TypeOK'
  BY SessionStepType DEF OverlapInv
<1>1. booking' = booking
  BY DEF MarkActive, MarkCompleted
<1>2. PICK next : /\ status' = [status EXCEPT ![r] = next]
                  /\ next # "NONE" \/ next = status[r]
                  /\ status[r] # "NONE" \/ next = status[r]
                  /\ next \in LIVE_RESERVATION => status[r] \in LIVE_RESERVATION
  BY DEF MarkActive, MarkCompleted, LIVE_RESERVATION
<1>3. \A q \in Reservations : (Creating(q)' => Creating(q)) /\ (Inserting(q)' => Inserting(q))
  BY OnInjective DEF MarkActive, MarkCompleted, Done, Creating, Inserting
<1>4. \A q \in Reservations, b \in Closers : On(b, "close", q) \in calls' => On(b, "close", q) \in calls
  BY OnInjective DEF MarkActive, MarkCompleted, Done
<1> QED BY <1>0, <1>1, <1>2, <1>3, <1>4, RowMoves

\* Notifications, the clock and a crash keep the invariant.
LEMMA EnvironmentStepOverlap ==
  ASSUME OverlapInv, ReportStep \/ Tick \/ Crash
  PROVE  OverlapInv'
<1>0. TypeOK'
  BY EnvironmentStepType DEF OverlapInv
<1>1. CASE ReportStep \/ Tick
  <2>1. UNCHANGED <<rowVars, calls>>
    BY <1>1, ReportStepRows DEF Tick, rowVars
  <2> QED BY <1>0, <2>1, RowsUntouched DEF Creating, Inserting
<1>2. CASE Crash
  <2>1. calls' = {} /\ status' = status
    BY <1>2 DEF Crash
  <2>2. \A q \in Reservations : status[q] # "NONE" => booking'[q] = booking[q]
    BY <1>2 DEF Crash
  <2>3. \A q \in Reservations : ~Creating(q)' /\ ~Inserting(q)'
    BY <2>1 DEF Creating, Inserting
  <2> QED
    BY <1>0, <2>1, <2>2, <2>3
       DEF OverlapInv, RowsBooked, RequestsAreNew, OneRequest, OneInsertPerConnector,
           InsertsDoNotClash, ClosesRows, NoOverlap, Clash, SameConnector, Overlap, LIVE_RESERVATION
<1> QED BY <1>1, <1>2

\* The inductive invariant behind NoOverlap and ClosedStaysClosed.
THEOREM OverlapInvariant == Spec => []OverlapInv
<1>1. Init => OverlapInv
  <2> SUFFICES ASSUME Init PROVE OverlapInv
    OBVIOUS
  <2>1. TypeOK
    BY TimesAssumption, ConnectorVocabulary
       DEF Init, TypeOK, NoBooking, Booking, ReservationStatus, LIVE_RESERVATION
  <2>2. \A r \in Reservations : status[r] = "NONE" /\ ~Creating(r) /\ ~Inserting(r)
    BY DEF Init, Creating, Inserting
  <2> QED
    BY <2>1, <2>2 DEF Init, OverlapInv, RowsBooked, RequestsAreNew, OneRequest,
       OneInsertPerConnector, InsertsDoNotClash, ClosesRows, NoOverlap, LIVE_RESERVATION
<1>2. OverlapInv /\ [Next]_vars => OverlapInv'
  <2> SUFFICES ASSUME OverlapInv, [Next]_vars PROVE OverlapInv'
    OBVIOUS
  <2>1. CASE Next
    BY <2>1, CreateStepOverlap, CloseStepOverlap, TimerStepOverlap, SessionStepOverlap,
       WriteStepOverlap, MarkStepOverlap, EnvironmentStepOverlap
       DEF Next, NoShowStep, CancelStep, Closers, ReportStep
  <2>2. CASE UNCHANGED vars
    <3>1. UNCHANGED <<rowVars, calls>> /\ TypeOK'
      BY <2>2 DEF vars, rowVars, sessionVars, placeVars, fateVars, OverlapInv, TypeOK
    <3> QED BY <3>1, RowsUntouched DEF Creating, Inserting
  <2> QED BY <2>1, <2>2
<1> QED BY <1>1, <1>2, PTL DEF Spec

\* Two live reservations of a connector never overlap in time.
THEOREM ReservationsDoNotOverlap == Spec => []NoOverlap
<1>1. OverlapInv => NoOverlap
  BY DEF OverlapInv
<1> QED BY <1>1, OverlapInvariant, PTL

\* A closed reservation is never live again.
THEOREM ClosedReservationsStayClosed == Spec => ClosedStaysClosed
<1>1. ASSUME OverlapInv, [Next]_vars
      PROVE  \A r \in Reservations : status[r] \notin LIVE_RESERVATION \union {"NONE"}
                                     => status'[r] \notin LIVE_RESERVATION
  <2> SUFFICES ASSUME NEW r \in Reservations, status[r] \notin LIVE_RESERVATION \union {"NONE"}
               PROVE  status'[r] \notin LIVE_RESERVATION
    OBVIOUS
  <2>1. CASE UNCHANGED status
    BY <2>1
  <2>2. ASSUME NEW q \in Reservations, CreateInsert(q)
        PROVE  status'[r] \notin LIVE_RESERVATION
    <3>1. status[q] = "NONE"
      BY <1>1, <2>2 DEF CreateInsert, OverlapInv, RequestsAreNew, Inserting
    <3> QED BY <1>1, <2>2, <3>1 DEF CreateInsert, OverlapInv, TypeOK
  <2>3. ASSUME NEW q \in Reservations, NEW by \in Closers, Close(by, q)
        PROVE  status'[r] \notin LIVE_RESERVATION
    BY <1>1, <2>3 DEF Close, Closed, LIVE_RESERVATION, OverlapInv, TypeOK
  <2>4. ASSUME NEW q \in Reservations, MarkActive(q) \/ MarkCompleted(q)
        PROVE  status'[r] \notin LIVE_RESERVATION
    BY <1>1, <2>4 DEF MarkActive, MarkCompleted, LIVE_RESERVATION, OverlapInv, TypeOK
  <2>5. \/ UNCHANGED status
        \/ \E q \in Reservations : CreateInsert(q) \/ MarkActive(q) \/ MarkCompleted(q)
        \/ \E q \in Reservations, by \in Closers : Close(by, q)
    <3>1. CASE UNCHANGED vars BY <3>1 DEF vars, rowVars
    <3>2. ASSUME NEW q \in Reservations, CreateStep(q)
          PROVE  UNCHANGED status \/ CreateInsert(q)
      BY <3>2 DEF CreateStep, Request, CreateRefused, CreateCheck, rowVars
    <3>3. ASSUME NEW q \in Reservations, NoShowStep(q) \/ CancelStep(q)
          PROVE  UNCHANGED status \/ \E by \in Closers : Close(by, q)
      BY <3>3 DEF NoShowStep, CancelStep, CancelRead, Look, Free, Closers, rowVars
    <3>4. ASSUME NoShowPass \/ ActivatePass \/ Tick \/ Crash
                 \/ \E q \in Reservations : ActivateStep(q)
          PROVE  UNCHANGED status
      BY <3>4 DEF NoShowPass, ActivatePass, Tick, Crash, ActivateStep, ActivateLook,
         ActivateReserve, rowVars
    <3>5. ASSUME NEW s \in Sessions, SessionStep(s)
          PROVE  UNCHANGED status
      BY <3>5 DEF SessionStep, StartCheck, StartRefused, StartConflict, StartConflictRelease,
         StartLock, StartReturns, RollbackFailedStart, ConfirmStart, Finish, rowVars
    <3>6. ASSUME ReportStep \/ \E s \in Sessions : WriteStep(s)
          PROVE  UNCHANGED status
      BY <3>6, ReportStepRows, WriteStepRows DEF rowVars
    <3> QED BY <1>1, <3>1, <3>2, <3>3, <3>4, <3>5, <3>6 DEF Next, ReportStep
  <2> QED BY <2>1, <2>2, <2>3, <2>4, <2>5
<1>2. OverlapInv /\ [Next]_vars
      => [\A r \in Reservations : status[r] \notin LIVE_RESERVATION \union {"NONE"}
                                  => status'[r] \notin LIVE_RESERVATION]_vars
  BY <1>1
<1> QED BY <1>2, OverlapInvariant, PTL DEF Spec, ClosedStaysClosed

----------------------------------------------------------------------------
(* One session per connector, and what a used reservation means.           *)
(*                                                                         *)
(* Whatever the timers write over the connector's status, the look for a   *)
(* session in start()'s transaction decides.  A write by id that comes     *)
(* late may put a session back on its connector: FatesInv says that it was *)
(* decided for a session the equipment had started, and that the end of    *)
(* such a session is on record.  UsedMeansCharged also needs that a mark   *)
(* still to come belongs to a session that charged.                        *)

UsedBy(r) == \E s \in charged : under[s] = r

MarksAreEarned ==
  \A r \in Reservations :
    On("session", "begin", r) \in calls \/ On("session", "complete", r) \in calls => UsedBy(r)

\* The statuses before a session has a row.
Rowless == {"NONE", "CHECKED", "CONFLICT"}

FatesInv ==
  /\ \A s \in Sessions : session[s] \in Energised => s \in charged
  /\ \A s \in charged : \/ session[s] \in Energised
                        \/ session[s] \in {"COMPLETED", "FAILED"} /\ s \in ended
  /\ \A s \in ended : session[s] \notin Rowless
  /\ \A k \in pending : session[k.s] \notin Rowless
  /\ \A k \in pending : k.op \in {"hold", "over"} => k.s \in charged

UseInv == FatesInv /\ OneSessionPerConnector /\ MarksAreEarned /\ UsedMeansCharged

\* How a step may change a session: a start enters a connector no session occupies, only a
\* session whose end is on record comes back to its own, and what is on record stays.
SessionsMove ==
  /\ \A s \in Sessions :
       session'[s] \in Occupying => /\ at'[s] = at[s]
                                    /\ session[s] \in Occupying \/ ~Occupied(s) \/ s \in ended
  /\ \A s, t \in Sessions :
       s # t /\ session'[s] \in Occupying /\ session'[t] \in Occupying
         => session[s] \in Occupying \/ session[t] \in Occupying
  /\ ended \subseteq ended' /\ charged \subseteq charged'
  /\ \A s \in charged : under'[s] = under[s]

\* Every step of a session moves it so and keeps its fate.
LEMMA SessionStepMoves ==
  ASSUME TypeOK, FatesInv, NEW s \in Sessions, SessionStep(s)
  PROVE  SessionsMove /\ FatesInv'
<1> USE DEF TypeOK, FatesInv, Occupying, Energised, Rowless, placeVars, fateVars, SessionsMove
<1>1. ASSUME NEW c \in Connectors, NEW r \in Reservations \union {NoReservation},
             StartCheck(s, c, r)
      PROVE  SessionsMove /\ FatesInv'
  BY <1>1 DEF StartCheck
<1>2. CASE StartRefused(s) \/ StartConflict(s) \/ StartConflictRelease(s)
  <2>1. /\ session[s] \in Rowless /\ UNCHANGED <<charged, ended, pending>>
        /\ \E to \in Rowless : session' = [session EXCEPT ![s] = to]
        /\ \A t \in Sessions \ {s} : at'[t] = at[t] /\ under'[t] = under[t]
    BY <1>2 DEF StartRefused, StartConflict, StartConflictRelease, Forget
  <2>2. s \notin charged /\ s \notin ended /\ \A k \in pending : k.s # s BY <2>1
  <2>3. \A k \in pending : k.s \in Sessions BY DEF Write
  <2>4. SessionsMove BY <2>1, <2>2
  <2>5. FatesInv' BY <2>1, <2>2, <2>3
  <2> QED BY <2>4, <2>5
<1>3. CASE StartLock(s)
  <2>1. /\ session' = [session EXCEPT ![s] = "PREPARING"] /\ ~Occupied(s)
        /\ pending' = pending \union {To("start", s)} /\ session[s] = "CHECKED"
        /\ UNCHANGED <<at, under, charged, ended>>
    BY <1>3 DEF StartLock
  <2>2. SessionsMove BY <2>1
  <2>3. FatesInv' BY <2>1 DEF To
  <2> QED BY <2>2, <2>3
<1>4. CASE StartReturns(s) BY <1>4 DEF StartReturns
<1>5. CASE RollbackFailedStart(s)
  <2>1. /\ session' = [session EXCEPT ![s] = IF @ = "PREPARING" THEN "FAILED" ELSE @]
        /\ pending' \subseteq pending /\ UNCHANGED <<at, under, charged, ended>>
    BY <1>5 DEF RollbackFailedStart
  <2> QED BY <2>1
<1>6. CASE ConfirmStart(s)
  <2>1. /\ session[s] = "PREPARING" /\ session' = [session EXCEPT ![s] = "ACTIVE"]
        /\ charged' = charged \union {s} /\ UNCHANGED <<at, under, ended, pending>>
    BY <1>6 DEF ConfirmStart
  <2>2. s \notin charged BY <2>1
  <2> QED BY <2>1, <2>2
<1>7. CASE Finish(s)
  <2>1. /\ session[s] \in Energised /\ session' = [session EXCEPT ![s] = "COMPLETED"]
        /\ ended' = ended \union {s} /\ UNCHANGED <<at, under, charged, pending>>
    BY <1>7 DEF Finish
  <2> QED BY <2>1
<1> QED BY <1>1, <1>2, <1>3, <1>4, <1>5, <1>6, <1>7 DEF SessionStep

\* So does every late write.
LEMMA WriteStepMoves ==
  ASSUME TypeOK, FatesInv, NEW s \in Sessions, WriteStep(s)
  PROVE  SessionsMove /\ FatesInv'
<1> USE DEF TypeOK, FatesInv, Occupying, Energised, Rowless, placeVars, fateVars, SessionsMove
<1>1. ASSUME NEW op \in {"hold", "over", "reap"}, WriteBegins(op, s),
             session[s] \notin Rowless, op \in {"hold", "over"} => s \in charged
      PROVE  SessionsMove /\ FatesInv'
  <2>1. /\ pending' = pending \union {To(op, s)}
        /\ UNCHANGED <<session, at, under, charged, ended>>
    BY <1>1 DEF WriteBegins
  <2>2. To(op, s).op = op /\ To(op, s).s = s BY DEF To
  <2>3. SessionsMove BY <2>1
  <2>4. FatesInv' BY <1>1, <2>1, <2>2
  <2> QED BY <2>3, <2>4
<1>2. CASE HoldRead(s) BY <1>1, <1>2 DEF HoldRead
<1>3. CASE IdleRead(s) BY <1>1, <1>3 DEF IdleRead
<1>4. CASE ReapRead(s) BY <1>1, <1>4 DEF ReapRead
<1>5. CASE HoldWrite(s) \/ OverWrite(s)
  <2>1. /\ \E to \in Energised : \/ session' = [session EXCEPT ![s] = to]
                                 \/ session' = session
        /\ pending' \subseteq pending /\ UNCHANGED <<at, under, charged, ended>>
    BY <1>5 DEF HoldWrite, OverWrite
  <2>2. s \in charged BY <1>5 DEF HoldWrite, OverWrite, To
  <2>3. session[s] \in Occupying \/ s \in ended BY <2>2
  <2>4. SessionsMove BY <2>1, <2>3
  <2>5. CASE session' = session BY <2>1, <2>5
  <2>6. ASSUME NEW to \in Energised, session' = [session EXCEPT ![s] = to]
        PROVE  FatesInv'
    <3>1. session'[s] = to /\ \A t \in Sessions \ {s} : session'[t] = session[t] BY <2>6
    <3>2. \A k \in pending : k.s \in Sessions BY DEF Write
    <3> QED BY <2>1, <2>2, <3>1, <3>2
  <2>7. FatesInv' BY <2>1, <2>5, <2>6
  <2> QED BY <2>4, <2>7
<1>6. CASE ReapWrite(s)
  <2>1. /\ session' = [session EXCEPT ![s] = "FAILED"] /\ ended' = ended \union {s}
        /\ pending' \subseteq pending /\ UNCHANGED <<at, under, charged>>
    BY <1>6 DEF ReapWrite
  <2> QED BY <2>1
<1> QED BY <1>2, <1>3, <1>4, <1>5, <1>6 DEF WriteStep

\* And so does every step.
LEMMA EveryStepMovesSessions ==
  ASSUME TypeOK, FatesInv, [Next]_vars
  PROVE  SessionsMove /\ FatesInv'
<1> USE DEF TypeOK, Occupying, Energised, Rowless
<1>1. CASE UNCHANGED sessionVars
  BY <1>1 DEF SessionsMove, FatesInv, sessionVars, placeVars, fateVars
<1>2. CASE Crash
  <2>1. /\ UNCHANGED <<charged, ended>> /\ pending' = {}
        /\ \A s \in Sessions : \/ session'[s] = session[s] /\ at'[s] = at[s] /\ under'[s] = under[s]
                               \/ session[s] \in {"CHECKED", "CONFLICT"} /\ session'[s] = "NONE"
    BY <1>2 DEF Crash, Starting, fateVars
  <2> QED BY <2>1 DEF SessionsMove, FatesInv
<1>3. ASSUME NEW n \in reports, ReportSession(n)
      PROVE  SessionsMove /\ FatesInv'
  <2>1. /\ UNCHANGED <<session, at, under, charged, ended>>
        /\ \/ pending' = pending
           \/ \E s \in Sessions : session[s] = "ACTIVE" /\ pending' = pending \union {To("over", s)}
    BY <1>3 DEF ReportSession, placeVars, fateVars
  <2>2. SessionsMove BY <2>1 DEF SessionsMove
  <2>3. FatesInv' BY <2>1 DEF FatesInv, To
  <2> QED BY <2>2, <2>3
<1>4. ASSUME NEW r \in Reservations, CreateStep(r) \/ ActivateStep(r) \/ MarkActive(r) \/ MarkCompleted(r)
      PROVE  UNCHANGED sessionVars
  BY <1>4 DEF CreateStep, Request, CreateRefused, CreateCheck, CreateInsert, ActivateStep,
     ActivateLook, ActivateReserve, MarkActive, MarkCompleted
<1>5. ASSUME NEW r \in Reservations, NoShowStep(r) \/ CancelStep(r)
      PROVE  UNCHANGED sessionVars
  BY <1>5 DEF NoShowStep, CancelStep, CancelRead, Close, Look, Free
<1>6. ASSUME NoShowPass \/ ActivatePass \/ Tick
      PROVE  UNCHANGED sessionVars
  BY <1>6 DEF NoShowPass, ActivatePass, Tick
<1>7. ASSUME \/ \E c \in Connectors, st \in Reported : ReportRead(c, st)
             \/ \E n \in reports : ReportWrite(n)
      PROVE  UNCHANGED sessionVars
  BY <1>7 DEF ReportRead, ReportWrite
<1>8. CASE UNCHANGED vars
  BY <1>8, <1>1 DEF vars
<1> QED BY <1>1, <1>2, <1>3, <1>4, <1>5, <1>6, <1>7, <1>8, SessionStepMoves, WriteStepMoves
        DEF Next

\* A mark of a reservation is left only by a session that charged under it, and only a mark
\* makes a reservation ACTIVE or COMPLETED.
MarksMove ==
  /\ \A r \in Reservations :
       On("session", "begin", r) \in calls' \/ On("session", "complete", r) \in calls'
         => On("session", "begin", r) \in calls \/ On("session", "complete", r) \in calls \/ UsedBy(r)'
  /\ \A r \in Reservations :
       status'[r] \in {"ACTIVE", "COMPLETED"}
         => \/ status[r] \in {"ACTIVE", "COMPLETED"}
            \/ On("session", "begin", r) \in calls \/ On("session", "complete", r) \in calls

\* Every step moves the marks so.
LEMMA EveryStepMovesMarks ==
  ASSUME TypeOK, FatesInv, [Next]_vars
  PROVE  MarksMove
<1> USE OnInjective DEF TypeOK, Add, Done, Become
<1>1. ASSUME NEW r \in Reservations, CreateStep(r)
      PROVE  MarksMove
  <2>1. ASSUME NEW c \in Connectors \union {NoConnector}, NEW from \in 0..MaxNow,
               NEW to \in 0..MaxNow, Request(r, c, from, to)
        PROVE  MarksMove
    <3>1. status' = status /\ calls' = calls \union {On("driver", "create", r)} BY <2>1 DEF Request
    <3> QED BY <3>1 DEF MarksMove
  <2>2. CASE CreateRefused(r) BY <2>2 DEF CreateRefused, MarksMove
  <2>3. CASE CreateCheck(r) BY <2>3 DEF CreateCheck, rowVars, MarksMove
  <2>4. CASE CreateInsert(r) BY <2>4 DEF CreateInsert, MarksMove
  <2> QED BY <1>1, <2>1, <2>2, <2>3, <2>4 DEF CreateStep
<1>2. ASSUME NEW r \in Reservations, NEW by \in Closers,
             CancelRead(r) \/ Close(by, r) \/ Look(by, r) \/ Free(by, r)
      PROVE  MarksMove
  <2>1. CASE Close(by, r) BY <2>1 DEF Close, Closed, MarksMove
  <2>2. CASE CancelRead(r) BY <2>2 DEF CancelRead, rowVars, MarksMove
  <2>3. CASE Look(by, r) \/ Free(by, r) BY <2>3 DEF Look, Free, rowVars, MarksMove
  <2> QED BY <1>2, <2>1, <2>2, <2>3
<1>3. CASE NoShowPass \/ ActivatePass
  BY <1>3 DEF NoShowPass, ActivatePass, rowVars, MarksMove
<1>4. ASSUME NEW r \in Reservations, ActivateStep(r)
      PROVE  MarksMove
  BY <1>4 DEF ActivateStep, ActivateLook, ActivateReserve, rowVars, MarksMove
<1>5. ASSUME NEW r \in Reservations, MarkActive(r) \/ MarkCompleted(r)
      PROVE  MarksMove
  BY <1>5 DEF MarkActive, MarkCompleted, MarksMove
<1>6. ASSUME NEW s \in Sessions, SessionStep(s)
      PROVE  MarksMove
  <2>1. CASE ConfirmStart(s) \/ Finish(s)
    <3>1. status' = status /\ s \in charged' /\ under' = under
      BY <2>1 DEF ConfirmStart, Finish, FatesInv, rowVars, placeVars
    <3>2. under[s] \in Reservations => UsedBy(under[s])'
      BY <3>1 DEF UsedBy
    <3>3. \A r \in Reservations :
            On("session", "begin", r) \in calls' \/ On("session", "complete", r) \in calls'
              => On("session", "begin", r) \in calls \/ On("session", "complete", r) \in calls \/ r = under[s]
      BY <2>1 DEF ConfirmStart, Finish
    <3> QED BY <3>1, <3>2, <3>3 DEF MarksMove
  <2>2. CASE ~(ConfirmStart(s) \/ Finish(s))
    <3>1. UNCHANGED <<status, calls>>
      BY <1>6, <2>2 DEF SessionStep, StartCheck, StartRefused, StartConflict,
         StartConflictRelease, StartLock, StartReturns, RollbackFailedStart, rowVars
    <3> QED BY <3>1 DEF MarksMove
  <2> QED BY <2>1, <2>2
<1>7. ASSUME ReportStep \/ \E s \in Sessions : WriteStep(s)
      PROVE  MarksMove
  BY <1>7, ReportStepRows, WriteStepRows DEF rowVars, MarksMove
<1>8. CASE Tick \/ Crash \/ UNCHANGED vars
  BY <1>8 DEF Tick, Crash, vars, rowVars, MarksMove
<1> QED
  BY <1>1, <1>2, <1>3, <1>4, <1>5, <1>6, <1>7, <1>8
     DEF Next, NoShowStep, CancelStep, Closers, ReportStep

\* The inductive invariant behind OneSessionPerConnector and UsedMeansCharged.
THEOREM UseInvariant == Spec => []UseInv
<1>1. Init => UseInv
  BY DEF Init, UseInv, FatesInv, OneSessionPerConnector, MarksAreEarned, UsedMeansCharged,
     Occupying, Energised
<1>2. TypeOK /\ TypeOK' /\ UseInv /\ [Next]_vars => UseInv'
  <2> SUFFICES ASSUME TypeOK, TypeOK', UseInv, [Next]_vars PROVE UseInv'
    OBVIOUS
  <2>1. SessionsMove /\ MarksMove /\ FatesInv'
    BY EveryStepMovesSessions, EveryStepMovesMarks DEF UseInv
  <2>2. OneSessionPerConnector'
    BY <2>1 DEF SessionsMove, UseInv, OneSessionPerConnector, Occupied
  <2>3. \A r \in Reservations : UsedBy(r) => UsedBy(r)'
    BY <2>1 DEF SessionsMove, UsedBy
  <2>4. MarksAreEarned'
    BY <2>1, <2>3 DEF MarksMove, UseInv, MarksAreEarned
  <2>5. UsedMeansCharged'
    BY <2>1, <2>3 DEF MarksMove, UseInv, MarksAreEarned, UsedMeansCharged, UsedBy
  <2> QED BY <2>1, <2>2, <2>4, <2>5 DEF UseInv
<1> QED BY <1>1, <1>2, TypeCorrect, PTL DEF Spec

\* Two sessions occupy one connector only if the end of one of them had been on record.
THEOREM ConnectorsAreExclusive == Spec => []OneSessionPerConnector
<1>1. UseInv => OneSessionPerConnector
  BY DEF UseInv
<1> QED BY <1>1, UseInvariant, PTL

\* A reservation is ACTIVE or COMPLETED only if the equipment started a session under it.
THEOREM UseIsEarned == Spec => []UsedMeansCharged
<1>1. UseInv => UsedMeansCharged
  BY DEF UseInv
<1> QED BY <1>1, UseInvariant, PTL

----------------------------------------------------------------------------
(* The refinement of Calendar *)

\* A booking has a window, and a session that was let through start()'s reads has a connector.
PlacesInv ==
  /\ \A r \in Reservations : booking[r] # NoBooking => booking[r].start < booking[r].end
  /\ \A s \in Sessions : session[s] # "NONE" => at[s] \in Connectors

\* Windows are checked when a reservation is asked for and connectors named when a start begins;
\* both are forgotten as a whole.
LEMMA PlacesStep == TypeOK /\ FatesInv /\ PlacesInv /\ [Next]_vars => PlacesInv'
<1> SUFFICES ASSUME TypeOK, FatesInv, PlacesInv, [Next]_vars PROVE PlacesInv' OBVIOUS
<1> USE DEF TypeOK, PlacesInv, rowVars, sessionVars, placeVars
<1>1. ASSUME NEW r \in Reservations, CreateStep(r) PROVE PlacesInv'
  <2>1. ASSUME NEW c \in Connectors \union {NoConnector}, NEW from \in 0..MaxNow,
               NEW to \in 0..MaxNow, Request(r, c, from, to)
        PROVE  PlacesInv'
    <3>1. from < to BY <2>1, TimesAssumption DEF Request
    <3> QED BY <2>1, <3>1 DEF Request
  <2>2. CASE CreateRefused(r) \/ CreateCheck(r) \/ CreateInsert(r)
    BY <2>2 DEF CreateRefused, CreateCheck, CreateInsert
  <2> QED BY <1>1, <2>1, <2>2 DEF CreateStep
<1>2. ASSUME NEW s \in Sessions, SessionStep(s) PROVE PlacesInv'
  <2>1. ASSUME NEW c \in Connectors, NEW r \in Reservations \union {NoReservation},
               StartCheck(s, c, r)
        PROVE  PlacesInv'
    BY <2>1 DEF StartCheck
  <2>2. CASE StartRefused(s) \/ StartConflict(s) \/ StartConflictRelease(s) \/ StartLock(s)
    BY <2>2 DEF StartRefused, StartConflict, StartConflictRelease, StartLock, Forget
  <2>3. CASE StartReturns(s) \/ RollbackFailedStart(s) \/ ConfirmStart(s) \/ Finish(s)
    BY <2>3 DEF StartReturns, RollbackFailedStart, ConfirmStart, Finish, Energised
  <2> QED BY <1>2, <2>1, <2>2, <2>3 DEF SessionStep
<1>3. CASE Crash BY <1>3 DEF Crash, Starting
<1>4. ASSUME NEW r \in Reservations, NoShowStep(r) \/ CancelStep(r) \/ ActivateStep(r)
                                     \/ MarkActive(r) \/ MarkCompleted(r)
      PROVE  PlacesInv'
  BY <1>4 DEF NoShowStep, CancelStep, CancelRead, Close, Look, Free, ActivateStep, ActivateLook,
     ActivateReserve, MarkActive, MarkCompleted
<1>5. CASE ReportStep
  BY <1>5 DEF ReportStep, ReportRead, ReportWrite, ReportSession
<1>6. CASE NoShowPass \/ ActivatePass \/ Tick \/ UNCHANGED vars
  BY <1>6 DEF NoShowPass, ActivatePass, Tick, vars
<1>7. ASSUME NEW s \in Sessions, WriteStep(s) PROVE PlacesInv'
  <2>1. CASE HoldRead(s) \/ IdleRead(s) \/ ReapRead(s)
    BY <2>1 DEF HoldRead, IdleRead, ReapRead, WriteBegins
  <2>2. CASE HoldWrite(s) \/ OverWrite(s) \/ ReapWrite(s)
    <3>1. session[s] # "NONE" BY <2>2 DEF HoldWrite, OverWrite, ReapWrite, To, FatesInv, Rowless
    <3> QED BY <2>2, <3>1 DEF HoldWrite, OverWrite, ReapWrite
  <2> QED BY <1>7, <2>1, <2>2 DEF WriteStep
<1> QED BY <1>1, <1>2, <1>3, <1>4, <1>5, <1>6, <1>7 DEF Next, ReportStep

CalendarInv == OverlapInv /\ FatesInv /\ PlacesInv

\* The sessions that use a connector in the calendar.
Using(s) == session[s] \in Occupying /\ s \notin ended

\* What is asked for or forgotten, but is not a row, is not in the calendar.
LEMMA NotInCalendar ==
  ASSUME UNCHANGED <<status, session, at, ended>>,
         \A r \in Reservations : status[r] # "NONE" => booking'[r] = booking[r]
  PROVE  UNCHANGED CalendarOf!vars
  BY DEF CalendarOf!vars

\* A session that uses no connector before and after a step, or the same one, does not appear.
LEMMA SameOccupation ==
  ASSUME UNCHANGED rowVars,
         \A s \in Sessions : /\ Using(s)' <=> Using(s)
                             /\ Using(s) => at'[s] = at[s]
  PROVE  UNCHANGED CalendarOf!vars
  BY DEF CalendarOf!vars, rowVars, Using

\* A row is accepted clear of the live ones: the look for a clash is still true when it is
\* inserted.
LEMMA InsertBooks ==
  ASSUME CalendarInv, NEW r \in Reservations, CreateInsert(r)
  PROVE  CalendarOf!Book(r)
<1> USE DEF CalendarInv, OverlapInv, TypeOK, LIVE_RESERVATION
<1>1. /\ status[r] = "NONE" /\ booking[r] # NoBooking /\ ~Clash(r)
      /\ booking' = booking /\ status' = [status EXCEPT ![r] = "CONFIRMED"]
      /\ UNCHANGED sessionVars
  BY DEF CreateInsert, RequestsAreNew, Inserting, RowsBooked, InsertsDoNotClash
<1>2. booking[r].start < booking[r].end BY <1>1 DEF PlacesInv
<1>3. \A q \in Reservations : status[q] \in LIVE_RESERVATION => ~CalendarOf!Crosses(booking[q], booking[r])
  BY <1>1 DEF Clash, SameConnector, Overlap, CalendarOf!Crosses
<1>4. {q \in Reservations : status'[q] \in LIVE_RESERVATION}
        = {q \in Reservations : status[q] \in LIVE_RESERVATION} \union {r}
  BY <1>1
<1>5. [q \in Reservations |-> IF status'[q] = "NONE" THEN NoBooking ELSE booking'[q]]
        = [[q \in Reservations |-> IF status[q] = "NONE" THEN NoBooking ELSE booking[q]]
             EXCEPT ![r] = booking[r]]
  BY <1>1
<1> QED BY <1>1, <1>2, <1>3, <1>4, <1>5 DEF CalendarOf!Book, sessionVars, placeVars, fateVars

\* A row that leaves the live ones closes; one that was not live, or stays live, does not appear.
LEMMA RowCloses ==
  ASSUME TypeOK, UNCHANGED <<booking, sessionVars>>, NEW r \in Reservations, NEW next,
         status' = [status EXCEPT ![r] = next], next # "NONE", status[r] # "NONE",
         next \in LIVE_RESERVATION => status[r] \in LIVE_RESERVATION
  PROVE  CalendarOf!Close(r) \/ UNCHANGED CalendarOf!vars
<1> USE DEF TypeOK
<1>1. /\ status'[r] = next
      /\ \A q \in Reservations : q # r => status'[q] = status[q]
      /\ \A q \in Reservations : status'[q] = "NONE" <=> status[q] = "NONE"
  OBVIOUS
<1>2. CASE status[r] \in LIVE_RESERVATION /\ next \notin LIVE_RESERVATION
  <2>1. {q \in Reservations : status'[q] \in LIVE_RESERVATION}
          = {q \in Reservations : status[q] \in LIVE_RESERVATION} \ {r}
    BY <1>1, <1>2
  <2> QED BY <1>1, <1>2, <2>1 DEF CalendarOf!Close, sessionVars, placeVars, fateVars
<1>3. CASE ~(status[r] \in LIVE_RESERVATION /\ next \notin LIVE_RESERVATION)
  <2>1. \A q \in Reservations : status'[q] \in LIVE_RESERVATION <=> status[q] \in LIVE_RESERVATION
    BY <1>1, <1>3
  <2> QED BY <1>1, <2>1 DEF CalendarOf!vars, sessionVars, placeVars, fateVars
<1> QED BY <1>2, <1>3

\* A session enters a connector that serves none, and leaves it when its start fails or its end
\* goes on record.
LEMMA SessionStepUses ==
  ASSUME CalendarInv, NEW s \in Sessions, SessionStep(s)
  PROVE  CalendarOf!Next \/ UNCHANGED CalendarOf!vars
<1> USE DEF CalendarInv, OverlapInv, TypeOK, Occupying, placeVars, fateVars
<1>1. CASE StartLock(s)
  <2>1. /\ session[s] = "CHECKED" /\ session' = [session EXCEPT ![s] = "PREPARING"]
        /\ UNCHANGED <<rowVars, at, ended>> /\ ~Occupied(s)
    BY <1>1 DEF StartLock
  <2>2. PICK c \in Connectors : c = at[s] /\ c # NoConnector
    BY <2>1, NamesAssumption DEF PlacesInv
  <2>3. \A t \in Sessions : session[t] \in Occupying => at[t] # c BY <2>1, <2>2 DEF Occupied
  <2>4. s \notin ended BY <2>1 DEF FatesInv, Rowless
  <2>5. [t \in Sessions |-> IF session'[t] \in Occupying /\ t \notin ended' THEN at'[t] ELSE NoConnector]
          = [[t \in Sessions |-> IF session[t] \in Occupying /\ t \notin ended THEN at[t] ELSE NoConnector]
               EXCEPT ![s] = c]
    BY <2>1, <2>2, <2>4
  <2>6. CalendarOf!Take(s, c)
    BY <2>1, <2>2, <2>3, <2>5 DEF CalendarOf!Take, rowVars
  <2> QED BY <2>6 DEF CalendarOf!Next
<1>2. CASE RollbackFailedStart(s) \/ Finish(s)
  <2>1. /\ UNCHANGED <<rowVars, at>>
        /\ \/ session' = session /\ ended' = ended
           \/ session' = [session EXCEPT ![s] = "FAILED"] /\ ended' = ended
           \/ session' = [session EXCEPT ![s] = "COMPLETED"] /\ ended' = ended \union {s}
    BY <1>2 DEF RollbackFailedStart, Finish
  <2>2. CASE session' = session /\ ended' = ended
    BY <2>1, <2>2, SameOccupation DEF Using
  <2>3. CASE ~(session' = session /\ ended' = ended)
    <3>1. [t \in Sessions |-> IF session'[t] \in Occupying /\ t \notin ended' THEN at'[t] ELSE NoConnector]
            = [[t \in Sessions |-> IF session[t] \in Occupying /\ t \notin ended THEN at[t] ELSE NoConnector]
                 EXCEPT ![s] = NoConnector]
      BY <2>1, <2>3
    <3>2. CalendarOf!Leave(s) BY <2>1, <3>1 DEF CalendarOf!Leave, rowVars
    <3> QED BY <3>2 DEF CalendarOf!Next
  <2> QED BY <2>2, <2>3
<1>3. ASSUME NEW c \in Connectors, NEW r \in Reservations \union {NoReservation},
             StartCheck(s, c, r)
      PROVE  UNCHANGED CalendarOf!vars
  BY <1>3, SameOccupation DEF StartCheck, Using
<1>4. CASE StartRefused(s) \/ StartConflict(s) \/ StartConflictRelease(s)
  BY <1>4, SameOccupation DEF StartRefused, StartConflict, StartConflictRelease, Forget, Using
<1>5. CASE StartReturns(s) \/ ConfirmStart(s)
  BY <1>5, SameOccupation DEF StartReturns, ConfirmStart, Using
<1> QED BY <1>1, <1>2, <1>3, <1>4, <1>5 DEF SessionStep

\* A late write does not give a session the use of a connector: its end is on record, or it has
\* not left yet.
LEMMA WriteStepUses ==
  ASSUME CalendarInv, NEW s \in Sessions, WriteStep(s)
  PROVE  CalendarOf!Next \/ UNCHANGED CalendarOf!vars
<1> USE DEF CalendarInv, OverlapInv, TypeOK, Occupying, placeVars, fateVars
<1>0. UNCHANGED rowVars BY WriteStepRows
<1>1. CASE HoldRead(s) \/ IdleRead(s) \/ ReapRead(s)
  BY <1>0, <1>1, SameOccupation DEF HoldRead, IdleRead, ReapRead, WriteBegins, Using
<1>2. CASE HoldWrite(s) \/ OverWrite(s)
  <2>1. s \in charged BY <1>2 DEF HoldWrite, OverWrite, To, FatesInv
  <2>2. session[s] \in Occupying \/ s \in ended BY <2>1 DEF FatesInv, Energised
  <2>3. /\ UNCHANGED <<at, ended>>
        /\ \/ session' = session
           \/ \E to \in Energised : session' = [session EXCEPT ![s] = to]
    BY <1>2 DEF HoldWrite, OverWrite, Energised
  <2> QED BY <1>0, <2>2, <2>3, SameOccupation DEF Using, Energised
<1>3. CASE ReapWrite(s)
  <2>1. UNCHANGED at /\ session' = [session EXCEPT ![s] = "FAILED"] /\ ended' = ended \union {s}
    BY <1>3 DEF ReapWrite
  <2>2. [t \in Sessions |-> IF session'[t] \in Occupying /\ t \notin ended' THEN at'[t] ELSE NoConnector]
          = [[t \in Sessions |-> IF session[t] \in Occupying /\ t \notin ended THEN at[t] ELSE NoConnector]
               EXCEPT ![s] = NoConnector]
    BY <2>1
  <2>3. CalendarOf!Leave(s) BY <1>0, <2>1, <2>2 DEF CalendarOf!Leave, rowVars
  <2> QED BY <2>3 DEF CalendarOf!Next
<1> QED BY <1>1, <1>2, <1>3 DEF WriteStep

\* The handling of reservations implements Calendar: whatever requests, timers, sessions,
\* notifications and crashes do between each other's statements, a driver sees bookings accepted
\* clear of each other, kept as they were accepted, closed for good, and a connector given to a
\* session only when the one it served has its end on record.
THEOREM ReservationsImplementCalendar == Spec => ImplementsCalendar
<1>1. Init => PlacesInv /\ CalendarOf!Init
  BY DEF Init, PlacesInv, CalendarOf!Init, Occupying, LIVE_RESERVATION
<1>2. CalendarInv /\ [Next]_vars => [CalendarOf!Next]_(CalendarOf!vars)
  <2> SUFFICES ASSUME CalendarInv, [Next]_vars
               PROVE  CalendarOf!Next \/ UNCHANGED CalendarOf!vars
    OBVIOUS
  <2> USE DEF CalendarInv, OverlapInv, placeVars, fateVars
  <2>1. ASSUME NEW r \in Reservations, CreateStep(r)
        PROVE  CalendarOf!Next \/ UNCHANGED CalendarOf!vars
    <3>1. CASE CreateInsert(r)
      <4>1. CalendarOf!Book(r) BY <3>1, InsertBooks
      <4> QED BY <4>1 DEF CalendarOf!Next
    <3>2. CASE ~CreateInsert(r)
      <4>1. /\ UNCHANGED <<status, session, at, ended>>
            /\ status[r] = "NONE" \/ booking' = booking
            /\ \A q \in Reservations : q # r => booking'[q] = booking[q]
        BY <2>1, <3>2 DEF CreateStep, Request, CreateRefused, CreateCheck, rowVars, sessionVars,
           TypeOK, RowsBooked, RequestsAreNew, Creating
      <4> QED BY <4>1, NotInCalendar
    <3> QED BY <3>1, <3>2
  <2>2. ASSUME NEW r \in Reservations, NEW by \in Closers, Close(by, r)
        PROVE  CalendarOf!Close(r) \/ UNCHANGED CalendarOf!vars
    <3>1. /\ UNCHANGED <<booking, sessionVars>> /\ status' = [status EXCEPT ![r] = Closed(by)]
          /\ status[r] # "NONE" /\ Closed(by) # "NONE" /\ Closed(by) \notin LIVE_RESERVATION
      BY <2>2 DEF Close, Closed, ClosesRows, LIVE_RESERVATION
    <3> QED BY <3>1, RowCloses
  <2>3. ASSUME NEW r \in Reservations, MarkActive(r) \/ MarkCompleted(r)
        PROVE  CalendarOf!Close(r) \/ UNCHANGED CalendarOf!vars
    <3>1. CASE UNCHANGED status
      BY <2>3, <3>1, NotInCalendar DEF MarkActive, MarkCompleted, sessionVars
    <3>2. CASE ~UNCHANGED status
      <4>1. /\ UNCHANGED <<booking, sessionVars>> /\ status[r] \in LIVE_RESERVATION
            /\ \E next \in {"ACTIVE", "COMPLETED"} : status' = [status EXCEPT ![r] = next]
        BY <2>3, <3>2 DEF MarkActive, MarkCompleted, LIVE_RESERVATION, TypeOK
      <4> QED BY <4>1, RowCloses DEF LIVE_RESERVATION
    <3> QED BY <3>1, <3>2
  <2>4. ASSUME NEW r \in Reservations, NEW by \in Closers, CancelRead(r) \/ Look(by, r) \/ Free(by, r)
        PROVE  UNCHANGED CalendarOf!vars
    BY <2>4, NotInCalendar DEF CancelRead, Look, Free, rowVars, sessionVars
  <2>5. ASSUME NEW r \in Reservations, ActivateStep(r)
        PROVE  UNCHANGED CalendarOf!vars
    BY <2>5, NotInCalendar DEF ActivateStep, ActivateLook, ActivateReserve, rowVars, sessionVars
  <2>6. ASSUME ReportStep
        PROVE  UNCHANGED CalendarOf!vars
    BY <2>6, NotInCalendar DEF ReportStep, ReportRead, ReportWrite, ReportSession, rowVars, sessionVars
  <2>7. CASE NoShowPass \/ ActivatePass \/ Tick \/ UNCHANGED vars
    BY <2>7, NotInCalendar DEF NoShowPass, ActivatePass, Tick, vars, rowVars, sessionVars
  <2>8. CASE Crash
    BY <2>8 DEF Crash, Starting, Occupying, CalendarOf!vars
  <2> QED BY <2>1, <2>2, <2>3, <2>4, <2>5, <2>6, <2>7, <2>8, SessionStepUses,
          WriteStepUses DEF Next, NoShowStep, CancelStep, Closers, ReportStep, CalendarOf!Next
<1>3. UseInv => FatesInv BY DEF UseInv
<1> QED
  BY <1>1, <1>2, <1>3, OverlapInvariant, UseInvariant, TypeCorrect, PlacesStep, PTL
     DEF Spec, CalendarInv, ImplementsCalendar, CalendarOf!Spec
=============================================================================
