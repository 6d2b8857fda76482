--------------------------- MODULE WaitlistProofs ---------------------------
(***************************************************************************)
(* Theorems about Waitlist, for every set of drivers, connectors, wishes   *)
(* and handlers, and every number of rows and crashes.                     *)
(***************************************************************************)
EXTENDS Waitlist, TLAPS

----------------------------------------------------------------------------
(* Type correctness.  TypeOK says of the handlers only what TLC needs to  *)
(* see; their records in full are these.                                   *)

JoinRecord == [at : {"idle", "look", "create"}, user : Drivers \union {None}, wish : Wish,
               position : 0..MaxEntries, ahead : SUBSET Entries]
CallRecord == [at : {"idle", "chosen"}, connector : Connectors \union {None},
               next : Entries \union {0}]
SweepRecord == [list : SUBSET Entries, frees : Connectors \union {None}]
ClaimRecord == [of : Entries, status : {"CLAIMED", "EXPIRED"}]

TypeInv ==
  /\ entry \in [Entries -> Row]
  /\ join \in [Joins -> JoinRecord]
  /\ claim \in ClaimRecord \union {NoClaim}
  /\ call \in [Handlers -> CallRecord]
  /\ sweep \in SweepRecord
  /\ crashes \in 0..MaxCrashes

\* The idle records have their types, and are told from the busy ones.
LEMMA IdleRecords ==
  /\ NoEntry \in Row /\ NoEntry.status = "NONE" /\ NoEntry.ahead = {} /\ ~NoEntry.lapsed
  /\ IdleJoin \in JoinRecord /\ IdleJoin.at = "idle"
  /\ IdleCall \in CallRecord /\ IdleCall.at = "idle" /\ IdleCall.next = 0
  /\ NoSweep \in SweepRecord /\ NoSweep.list = {} /\ NoSweep.frees = None
  /\ NoClaim \notin ClaimRecord
<1> USE WaitlistBounds
<1>1. NoWish \in Wish BY DEF NoWish, Wish
<1>2. 0 \in 0..MaxEntries /\ 0 \notin Entries BY DEF Entries
<1>3. NoEntry \in Row BY <1>2 DEF NoEntry, Row
<1>4. IdleJoin \in JoinRecord BY <1>1, <1>2 DEF IdleJoin, JoinRecord
<1>5. IdleCall \in CallRecord BY DEF IdleCall, CallRecord
<1>6. NoSweep \in SweepRecord BY DEF NoSweep, SweepRecord
<1>7. NoClaim \notin ClaimRecord BY <1>2 DEF NoClaim, ClaimRecord
<1> QED BY <1>3, <1>4, <1>5, <1>6, <1>7 DEF NoEntry, IdleJoin, IdleCall, NoSweep

\* A wish as join() understands it is a wish.
LEMMA WantedIsWish ==
  ASSUME NEW wish \in Wishes
  PROVE  Wanted(wish) \in Wish
<1>1. wish \in Wish BY WishesAssumption
<1>2. wish.connector # None => TypeOf[wish.connector] \in Types
  BY <1>1 DEF Wish, Types
<1> QED BY <1>1, <1>2 DEF Wanted, Wish

\* Every step keeps the types.
LEMMA TypeStep == TypeInv /\ [Next]_vars => TypeInv'
<1> SUFFICES ASSUME TypeInv, [Next]_vars PROVE TypeInv'
  OBVIOUS
<1> USE IdleRecords, WaitlistBounds DEF TypeInv
<1>1. ASSUME NEW j \in Joins, NEW d \in Drivers, NEW wish \in Wishes, JoinLook(j, d, wish)
      PROVE  TypeInv'
  <2>1. [IdleJoin EXCEPT !.at = "look", !.user = d, !.wish = Wanted(wish)] \in JoinRecord
    BY WantedIsWish DEF JoinRecord
  <2> QED BY <1>1, <2>1 DEF JoinLook
<1>2. ASSUME NEW j \in Joins, JoinPosition(j) PROVE TypeInv'
  <2>1. QueueOf(join[j].wish) \subseteq Entries BY DEF QueueOf, Existing
  <2>2. PICK p \in 0..MaxEntries :
          join' = [join EXCEPT ![j].at = "create", ![j].ahead = QueueOf(join[j].wish), ![j].position = p]
    BY <1>2 DEF JoinPosition
  <2> DEFINE next == [join[j] EXCEPT !.at = "create", !.ahead = QueueOf(join[j].wish), !.position = p]
  <2>4. join' = [join EXCEPT ![j] = next] BY <2>2
  <2>5. next \in JoinRecord BY <2>1 DEF JoinRecord
  <2>3. join' \in [Joins -> JoinRecord] BY <2>4, <2>5
  <2> QED BY <1>2, <2>3 DEF JoinPosition
<1>3. ASSUME NEW j \in Joins, NEW e \in Entries, JoinCreate(j, e) PROVE TypeInv'
  <2> DEFINE row == [status |-> "WAITING", user |-> join[j].user, scope |-> join[j].wish.scope,
        connector |-> join[j].wish.connector, type |-> join[j].wish.type,
        position |-> join[j].position, lapsed |-> FALSE, ahead |-> join[j].ahead]
  <2>1. row \in Row BY DEF JoinRecord, Row, Wish
  <2>2. entry' \in [Entries -> Row] BY <1>3, <2>1 DEF JoinCreate
  <2> QED BY <1>3, <2>2 DEF JoinCreate
<1>4. ASSUME NEW e \in Entries, Cancel(e) PROVE TypeInv'
  <2>1. entry' \in [Entries -> Row] BY <1>4 DEF Cancel, Row
  <2> QED BY <1>4, <2>1 DEF Cancel
<1>5. ASSUME NEW e \in Entries, ClaimRead(e) PROVE TypeInv'
  <2>1. claim' \in ClaimRecord BY <1>5 DEF ClaimRead, ClaimRecord
  <2> QED BY <1>5, <2>1 DEF ClaimRead
<1>6. ASSUME NEW e \in Entries, WindowPasses(e) PROVE TypeInv'
  <2>1. [entry[e] EXCEPT !.lapsed = TRUE] \in Row BY DEF Row
  <2>2. entry' = [entry EXCEPT ![e] = [entry[e] EXCEPT !.lapsed = TRUE]] BY <1>6 DEF WindowPasses
  <2>3. entry' \in [Entries -> Row] BY <2>1, <2>2
  <2> QED BY <1>6, <2>3 DEF WindowPasses
<1>7. CASE ClaimWrite
  <2>1. claim \in ClaimRecord BY <1>7 DEF ClaimWrite
  <2>2. entry' \in [Entries -> Row] BY <1>7, <2>1 DEF ClaimWrite, Row, ClaimRecord
  <2> QED BY <1>7, <2>2 DEF ClaimWrite
<1>8. ASSUME NEW h \in Handlers, NEW c \in Connectors, Choose(h, c)
      PROVE  call' \in [Handlers -> CallRecord]
  BY <1>8 DEF Choose, InFront, Waiting, CallRecord
<1>9. ASSUME NEW h \in Endings, NEW c \in Connectors, SessionEnds(h, c) PROVE TypeInv'
  BY <1>8, <1>9 DEF SessionEnds, Handlers
<1>10. ASSUME NEW h \in Handlers, Call(h) PROVE TypeInv'
  <2> DEFINE e == call[h].next
              row == [entry[e] EXCEPT !.status = "NOTIFIED", !.lapsed = FALSE,
                        !.connector = IF @ = None THEN call[h].connector ELSE @]
  <2>1. entry' = [entry EXCEPT ![e] = row] BY <1>10 DEF Call
  <2>3. e \in Entries => row \in Row BY DEF Row, CallRecord
  <2>4. entry' \in [Entries -> Row] BY <2>1, <2>3
  <2>2. call' \in [Handlers -> CallRecord] BY <1>10 DEF Call
  <2> QED BY <1>10, <2>4, <2>2 DEF Call
<1>11. CASE SweepStep
  <2>1. CASE SweepList
    <3>1. sweep' \in SweepRecord BY <2>1 DEF SweepList, Stale, SweepRecord
    <3> QED BY <2>1, <3>1 DEF SweepList
  <2>2. ASSUME NEW e \in Entries, SweepExpire(e) PROVE TypeInv'
    <3>1. entry' \in [Entries -> Row] BY <2>2 DEF SweepExpire, Row
    <3>2. sweep' \in SweepRecord BY <2>2 DEF SweepExpire, SweepRecord, Row
    <3> QED BY <2>2, <3>1, <3>2 DEF SweepExpire
  <2>3. CASE SweepCallsNext
    <3>1. sweep.frees \in Connectors /\ sweep' \in SweepRecord
      BY <2>3 DEF SweepCallsNext, SweepRecord
    <3>2. call' \in [Handlers -> CallRecord]
      BY <1>8, <2>3, <3>1 DEF SweepCallsNext, Handlers
    <3> QED BY <2>3, <3>1, <3>2 DEF SweepCallsNext
  <2> QED BY <1>11, <2>1, <2>2, <2>3 DEF SweepStep
<1>12. CASE Crash BY <1>12 DEF Crash
<1>13. CASE UNCHANGED vars BY <1>13 DEF vars
<1> QED BY <1>1, <1>2, <1>3, <1>4, <1>5, <1>6, <1>7, <1>9, <1>10, <1>11, <1>12, <1>13 DEF Next

LEMMA TypeStart == Init => TypeInv
  BY IdleRecords, WaitlistBounds DEF Init, TypeInv

----------------------------------------------------------------------------
(* What a step does to one row, and to what the handlers hold              *)

Expires(e)   == entry[e]' = [entry[e] EXCEPT !.status = "EXPIRED"]
Cancels(e)   == entry[e]' = [entry[e] EXCEPT !.status = "CANCELLED"]
Claims(e)    == claim # NoClaim /\ e = claim.of /\ entry[e]' = [entry[e] EXCEPT !.status = claim.status]
Lapses(e)    == /\ entry[e].status = "NOTIFIED" /\ \A h \in Handlers : call[h].next # e
                /\ entry[e]' = [entry[e] EXCEPT !.lapsed = TRUE]
                /\ UNCHANGED <<claim, call, sweep>>
Called(e, h) == /\ call[h].at = "chosen" /\ call[h].next = e
                /\ entry[e]' = [entry[e] EXCEPT !.status = "NOTIFIED", !.lapsed = FALSE,
                                  !.connector = IF @ = None THEN call[h].connector ELSE @]
Created(e)   == /\ entry[e].status = "NONE" /\ entry[e]'.status = "WAITING" /\ ~entry[e]'.lapsed
                /\ \E j \in Joins : /\ join[j].at = "create"
                                    /\ entry[e]'.ahead = join[j].ahead
                                    /\ entry[e]'.position = join[j].position
                /\ UNCHANGED <<claim, call, sweep>>

\* Every step leaves a row alone or does one of these to it.
LEMMA RowMoves ==
  ASSUME TypeInv, [Next]_vars, NEW e \in Entries
  PROVE  \/ entry[e]' = entry[e]
         \/ (entry[e].status # "NONE" /\ Cancels(e))
         \/ Claims(e) \/ Lapses(e) \/ Created(e)
         \/ \E h \in Handlers : Called(e, h)
         \/ (e \in sweep.list /\ Expires(e))
<1> USE DEF TypeInv
<1>1. CASE UNCHANGED entry
  BY <1>1
<1>2. ASSUME NEW j \in Joins, NEW f \in Entries, JoinCreate(j, f)
      PROVE  entry[e]' = entry[e] \/ Created(e)
  BY <1>2 DEF JoinCreate, NewRow, Existing, Created
<1>3. ASSUME NEW f \in Entries, Cancel(f)
      PROVE  entry[e]' = entry[e] \/ (entry[e].status # "NONE" /\ Cancels(e))
  BY <1>3 DEF Cancel, Cancels, Existing
<1>4. CASE ClaimWrite
  BY <1>4 DEF ClaimWrite, Claims
<1>5. ASSUME NEW f \in Entries, WindowPasses(f)
      PROVE  entry[e]' = entry[e] \/ Lapses(e)
  BY <1>5 DEF WindowPasses, Lapses
<1>6. ASSUME NEW h \in Handlers, Call(h)
      PROVE  entry[e]' = entry[e] \/ Called(e, h)
  BY <1>6 DEF Call, Called
<1>7. ASSUME NEW f \in Entries, SweepExpire(f)
      PROVE  entry[e]' = entry[e] \/ (e \in sweep.list /\ Expires(e))
  BY <1>7 DEF SweepExpire, Expires
<1> QED
  BY <1>1, <1>2, <1>3, <1>4, <1>5, <1>6, <1>7
  DEF Next, vars, JoinLook, JoinPosition, ClaimRead, SessionEnds, SweepStep, SweepList,
      SweepCallsNext, Crash

\* What a handler comes to hold it reads from the rows, and writes no row in that step.
LEMMA HoldersRead ==
  ASSUME TypeInv, [Next]_vars
  PROVE  /\ \/ claim' \in {claim, NoClaim}
            \/ \E e \in Entries :
                 /\ entry[e].status = "NOTIFIED" /\ UNCHANGED entry
                 /\ claim' = [of |-> e, status |-> IF entry[e].lapsed THEN "EXPIRED" ELSE "CLAIMED"]
         /\ sweep'.list \subseteq sweep.list \/ (sweep'.list = Stale /\ UNCHANGED entry)
         /\ \A h \in Handlers :
              \/ call'[h] \in {call[h], IdleCall}
              \/ \E c \in Connectors : \E e \in InFront(c) :
                   (call'[h] = [at |-> "chosen", connector |-> c, next |-> e] /\ UNCHANGED entry)
<1> USE IdleRecords DEF TypeInv
<1>1. \/ claim' \in {claim, NoClaim}
      \/ \E e \in Entries :
           /\ entry[e].status = "NOTIFIED" /\ UNCHANGED entry
           /\ claim' = [of |-> e, status |-> IF entry[e].lapsed THEN "EXPIRED" ELSE "CLAIMED"]
  BY DEF Next, vars, JoinLook, JoinPosition, JoinCreate, Cancel, ClaimRead, ClaimWrite, SessionEnds,
         Call, WindowPasses, SweepStep, SweepList, SweepExpire, SweepCallsNext, Crash
<1>2. sweep'.list \subseteq sweep.list \/ (sweep'.list = Stale /\ UNCHANGED entry)
  <2>1. CASE UNCHANGED sweep BY <2>1
  <2>2. CASE SweepList BY <2>2 DEF SweepList, NoSweep
  <2>3. ASSUME NEW e \in Entries, SweepExpire(e) PROVE sweep'.list \subseteq sweep.list
    BY <2>3 DEF SweepExpire
  <2>4. CASE SweepCallsNext BY <2>4 DEF SweepCallsNext, SweepRecord
  <2>5. CASE Crash BY <2>5 DEF Crash
  <2> QED
    BY <2>1, <2>2, <2>3, <2>4, <2>5
    DEF Next, vars, JoinLook, JoinPosition, JoinCreate, Cancel, ClaimRead, ClaimWrite, SessionEnds,
        Call, WindowPasses, SweepStep
<1>3. ASSUME NEW h \in Handlers
      PROVE  \/ call'[h] \in {call[h], IdleCall}
             \/ \E c \in Connectors : \E e \in InFront(c) :
                  (call'[h] = [at |-> "chosen", connector |-> c, next |-> e] /\ UNCHANGED entry)
  <2>1. ASSUME NEW g \in Handlers, NEW c \in Connectors, Choose(g, c), UNCHANGED entry
        PROVE  \/ call'[h] = call[h]
               \/ \E e \in InFront(c) : call'[h] = [at |-> "chosen", connector |-> c, next |-> e]
    BY <2>1 DEF Choose
  <2>2. CASE UNCHANGED call \/ (\E g \in Handlers : Call(g)) \/ Crash
    BY <2>2 DEF Call, Crash
  <2>3. ASSUME NEW g \in Endings, NEW c \in Connectors, SessionEnds(g, c)
        PROVE  Choose(g, c) /\ UNCHANGED entry /\ g \in Handlers
    BY <2>3 DEF SessionEnds, Handlers
  <2>4. CASE SweepCallsNext
    <3>1. sweep.frees \in Connectors /\ "sweep" \in Handlers
      BY <2>4 DEF SweepCallsNext, SweepRecord, Handlers
    <3> QED BY <2>1, <2>4, <3>1 DEF SweepCallsNext
  <2> QED
    BY <2>1, <2>2, <2>3, <2>4
    DEF Next, vars, JoinLook, JoinPosition, JoinCreate, Cancel, ClaimRead, ClaimWrite,
        WindowPasses, SweepStep, SweepList, SweepExpire
<1> QED BY <1>1, <1>2, <1>3

----------------------------------------------------------------------------
(* Calls and their windows                                                 *)

\* A row that has been called once is never waiting again and has a connector.
Opened(e) == entry[e].status \notin {"NONE", "WAITING"} /\ entry[e].connector # None

\* A lapsed call is in no handler's hands, so that nobody gives it a new window.
RowInv(e) ==
  /\ entry[e].status \in {"NOTIFIED", "CLAIMED", "EXPIRED"} => entry[e].connector # None
  /\ entry[e].status = "EXPIRED" => entry[e].lapsed
  /\ entry[e].lapsed => /\ entry[e].status \notin {"NONE", "WAITING"}
                        /\ \A h \in Handlers : call[h].next # e

\* What handlers hold: a claim and the scheduler's list were open calls; a chosen row exists.
ClaimInv == claim # NoClaim => Opened(claim.of) /\ (claim.status = "EXPIRED" => entry[claim.of].lapsed)
SweepInv == \A e \in sweep.list : Opened(e) /\ entry[e].lapsed
CallInv  == \A h \in Handlers : call[h].at = "chosen" =>
              call[h].next \in Existing /\ call[h].connector \in Connectors

CallsInv == (\A e \in Entries : RowInv(e)) /\ ClaimInv /\ SweepInv /\ CallInv

\* What no step takes from a row that exists: its place, and its window when that has passed.
LEMMA RowKeeps ==
  ASSUME TypeInv, CallsInv, [Next]_vars, NEW e \in Existing
  PROVE  /\ entry[e]'.status # "NONE"
         /\ entry[e]'.status = "WAITING" => entry[e]' = entry[e]
         /\ entry[e]'.position = entry[e].position /\ entry[e]'.ahead = entry[e].ahead
         /\ Opened(e) => Opened(e)'
         /\ entry[e].lapsed => entry[e]'.lapsed
<1>1. e \in Entries /\ entry[e].status # "NONE" BY DEF Existing
<1> USE <1>1 DEF TypeInv, Opened
<1>2. entry[e] \in Row OBVIOUS
<1>3. CASE entry[e]' = entry[e] BY <1>3
<1>4. CASE Cancels(e) \/ Expires(e) BY <1>2, <1>4 DEF Cancels, Expires, Row
<1>5. CASE Claims(e) BY <1>2, <1>5 DEF Claims, ClaimRecord, Row
<1>6. CASE Lapses(e)
  <2>1. entry[e]' = [entry[e] EXCEPT !.lapsed = TRUE] BY <1>6 DEF Lapses
  <2>2. /\ entry[e]'.status = entry[e].status /\ entry[e]'.position = entry[e].position
        /\ entry[e]'.ahead = entry[e].ahead /\ entry[e]'.connector = entry[e].connector
        /\ entry[e]'.lapsed
    BY <1>2, <2>1 DEF Row
  <2>3. entry[e].status = "NOTIFIED" BY <1>6 DEF Lapses
  <2> QED BY <2>2, <2>3
<1>7. ASSUME NEW h \in Handlers, Called(e, h)
      PROVE  /\ entry[e]'.status = "NOTIFIED" /\ ~entry[e].lapsed
             /\ entry[e]'.position = entry[e].position /\ entry[e]'.ahead = entry[e].ahead
             /\ entry[e].connector # None => entry[e]'.connector # None
  <2>1. ~entry[e].lapsed BY <1>7 DEF Called, CallsInv, RowInv
  <2> QED BY <1>2, <1>7, <2>1 DEF Called, Row
<1>8. ~Created(e) BY DEF Created
<1> QED BY <1>3, <1>4, <1>5, <1>6, <1>7, <1>8, RowMoves

\* Steps keep the calls in order.
LEMMA CallsStep == TypeInv /\ CallsInv /\ [Next]_vars => CallsInv'
<1> SUFFICES ASSUME TypeInv, CallsInv, [Next]_vars PROVE CallsInv'
  OBVIOUS
<1> USE DEF TypeInv
<1>1. CallInv'
  <2> SUFFICES ASSUME NEW h \in Handlers, call'[h].at = "chosen"
               PROVE  call'[h].next \in Existing' /\ call'[h].connector \in Connectors
    BY DEF CallInv
  <2>1. CASE call'[h] = call[h]
    <3>1. call[h].next \in Existing /\ call[h].connector \in Connectors
      BY <2>1 DEF CallsInv, CallInv
    <3> QED BY <2>1, <3>1, RowKeeps DEF Existing
  <2>2. ASSUME NEW c \in Connectors, NEW e \in InFront(c), UNCHANGED entry,
               call'[h] = [at |-> "chosen", connector |-> c, next |-> e]
        PROVE  call'[h].next \in Existing' /\ call'[h].connector \in Connectors
    BY <2>2 DEF InFront, Waiting, Existing
  <2> QED BY <2>1, <2>2, HoldersRead, IdleRecords
<1>2. ClaimInv'
  <2> SUFFICES ASSUME claim' # NoClaim
               PROVE  Opened(claim.of)' /\ (claim'.status = "EXPIRED" => entry'[claim'.of].lapsed)
    BY DEF ClaimInv
  <2>1. CASE claim' = claim
    <3>1. Opened(claim.of) /\ (claim.status = "EXPIRED" => entry[claim.of].lapsed) /\ claim \in ClaimRecord
      BY <2>1 DEF CallsInv, ClaimInv
    <3>2. claim.of \in Existing BY <3>1 DEF Opened, Existing, ClaimRecord
    <3> QED BY <2>1, <3>1, <3>2, RowKeeps DEF Opened
  <2>2. ASSUME NEW e \in Entries, entry[e].status = "NOTIFIED", UNCHANGED entry,
               claim' = [of |-> e, status |-> IF entry[e].lapsed THEN "EXPIRED" ELSE "CLAIMED"]
        PROVE  Opened(claim.of)' /\ (claim'.status = "EXPIRED" => entry'[claim'.of].lapsed)
    BY <2>2 DEF CallsInv, RowInv, Opened
  <2> QED BY <2>1, <2>2, HoldersRead
<1>3. SweepInv'
  <2> SUFFICES ASSUME NEW e \in sweep'.list PROVE Opened(e)' /\ entry[e]'.lapsed
    BY DEF SweepInv
  <2>1. CASE e \in sweep.list
    <3>1. e \in Existing /\ Opened(e) /\ entry[e].lapsed
      BY <2>1 DEF CallsInv, SweepInv, Opened, Existing, SweepRecord
    <3> QED BY <3>1, RowKeeps
  <2>2. CASE e \in Stale /\ UNCHANGED entry
    BY <2>2 DEF Stale, CallsInv, RowInv, Opened
  <2> QED BY <2>1, <2>2, HoldersRead
<1>4. ASSUME NEW e \in Entries PROVE RowInv(e)'
  <2>1. /\ entry[e] \in Row /\ RowInv(e)
        /\ \A h \in Handlers : entry[e].lapsed => call[h].next # e
    BY DEF CallsInv, RowInv
  <2>2. ASSUME entry[e].lapsed, NEW h \in Handlers PROVE call'[h].next # e
    <3>1. CASE call'[h] = call[h] BY <2>1, <2>2, <3>1
    <3>2. CASE call'[h] = IdleCall BY <3>2, IdleRecords DEF Entries
    <3>3. ASSUME NEW c \in Connectors, NEW f \in InFront(c),
                 call'[h] = [at |-> "chosen", connector |-> c, next |-> f]
          PROVE  call'[h].next # e
      BY <2>1, <2>2, <3>3 DEF RowInv, InFront, Waiting
    <3> QED BY <3>1, <3>2, <3>3, HoldersRead
  <2>3. CASE entry[e]' = entry[e] BY <2>1, <2>2, <2>3 DEF RowInv
  <2>4. CASE entry[e].status # "NONE" /\ Cancels(e)
    <3>1. /\ entry[e]'.status = "CANCELLED" /\ entry[e]'.lapsed = entry[e].lapsed
      BY <2>1, <2>4 DEF Cancels, Row
    <3> QED BY <2>2, <3>1 DEF RowInv
  <2>5. CASE Claims(e)
    <3>1. Opened(e) /\ (claim.status = "EXPIRED" => entry[e].lapsed) /\ claim \in ClaimRecord
      BY <2>5 DEF Claims, CallsInv, ClaimInv
    <3>2. /\ entry[e]'.status = claim.status /\ entry[e]'.lapsed = entry[e].lapsed
          /\ entry[e]'.connector = entry[e].connector
      BY <2>1, <2>5 DEF Claims, Row
    <3>3. claim.status \in {"CLAIMED", "EXPIRED"} BY <3>1 DEF ClaimRecord
    <3> QED BY <2>2, <3>1, <3>2, <3>3 DEF RowInv, Opened
  <2>6. CASE Lapses(e)
    <3>1. entry[e]' = [entry[e] EXCEPT !.lapsed = TRUE] BY <2>6 DEF Lapses
    <3>2. /\ entry[e]'.status = entry[e].status /\ entry[e]'.connector = entry[e].connector
          /\ entry[e]'.lapsed
      BY <2>1, <3>1 DEF Row
    <3>3. entry[e].status = "NOTIFIED" /\ \A h \in Handlers : call'[h].next # e BY <2>6 DEF Lapses
    <3> QED BY <2>1, <3>2, <3>3 DEF RowInv
  <2>7. CASE Created(e)
    <3>1. entry[e]'.status = "WAITING" /\ ~entry[e]'.lapsed BY <2>7 DEF Created
    <3> QED BY <3>1 DEF RowInv
  <2>8. ASSUME NEW h \in Handlers, Called(e, h) PROVE RowInv(e)'
    <3>1. call[h].connector # None BY <2>8, NoneAssumption DEF Called, CallsInv, CallInv
    <3>2. entry[e]'.status = "NOTIFIED" /\ ~entry[e]'.lapsed /\ entry[e]'.connector # None
      BY <2>1, <2>8, <3>1 DEF Called, Row
    <3> QED BY <3>2 DEF RowInv
  <2>9. CASE e \in sweep.list /\ Expires(e)
    <3>1. Opened(e) /\ entry[e].lapsed BY <2>9 DEF CallsInv, SweepInv
    <3>2. /\ entry[e]'.status = "EXPIRED" /\ entry[e]'.lapsed = entry[e].lapsed
          /\ entry[e]'.connector = entry[e].connector
      BY <2>1, <2>9 DEF Expires, Row
    <3> QED BY <2>2, <3>1, <3>2 DEF RowInv, Opened
  <2> QED BY <2>3, <2>4, <2>5, <2>6, <2>7, <2>8, <2>9, RowMoves
<1> QED BY <1>1, <1>2, <1>3, <1>4 DEF CallsInv

LEMMA CallsStart == Init => CallsInv
<1> SUFFICES ASSUME Init PROVE CallsInv
  OBVIOUS
<1>1. \A e \in Entries : RowInv(e) BY IdleRecords DEF Init, RowInv
<1>2. ClaimInv /\ SweepInv BY IdleRecords DEF Init, ClaimInv, SweepInv
<1>3. CallInv BY IdleRecords DEF Init, CallInv
<1> QED BY <1>1, <1>2, <1>3 DEF CallsInv

\* Both invariants hold of every behaviour.
LEMMA CallsAlways == Spec => [](TypeInv /\ CallsInv)
<1>1. Init => TypeInv /\ CallsInv BY TypeStart, CallsStart
<1>2. TypeInv /\ CallsInv /\ [Next]_vars => (TypeInv /\ CallsInv)' BY TypeStep, CallsStep
<1> QED BY <1>1, <1>2, PTL DEF Spec

\* Rows, handlers and the scheduler's list keep their types, and a row that was called has the
\* connector it was called to: notifyNext() and expireClaims() never write a row without one.
THEOREM TypeCorrect == Spec => []TypeOK
<1>1. TypeInv /\ CallsInv => TypeOK
  BY DEF TypeInv, CallsInv, RowInv, TypeOK, JoinRecord, CallRecord, SweepRecord, ClaimRecord
<1> QED BY <1>1, CallsAlways, PTL

\* Only what has lapsed expires: no driver who was called loses his window to the scheduler's
\* stale list or to a claim that read the row earlier.
THEOREM WindowsAreKept == Spec => []NotCutShort
<1>1. CallsInv => NotCutShort BY DEF CallsInv, RowInv, NotCutShort
<1> QED BY <1>1, CallsAlways, PTL

----------------------------------------------------------------------------
(* The order of the queue                                                  *)

\* Whoever stood in a row's queue when it got its position has a lower one, and is not passed
\* over for it.
AheadInv  == \A f \in Entries : \A e \in entry[f].ahead :
               e \in Existing /\ entry[e].position < entry[f].position
JoinInv   == \A j \in Joins : join[j].at = "create" => \A e \in join[j].ahead :
               e \in Existing /\ entry[e].position < join[j].position
PassedInv == \A h \in Handlers : call[h].at = "chosen" => \A e \in entry[call[h].next].ahead :
               e \notin Waiting(call[h].connector)

QueueInv == AheadInv /\ JoinInv /\ PassedInv

\* A handler of join() that has read a position goes on with it, or has just read it.
LEMMA JoinsRead ==
  ASSUME TypeInv, [Next]_vars, NEW j \in Joins, join'[j].at = "create"
  PROVE  \/ join'[j] = join[j]
         \/ /\ UNCHANGED entry /\ join'[j].ahead = QueueOf(join[j].wish)
            /\ join'[j].position \in Nat
            /\ \A e \in join'[j].ahead : join'[j].position > entry[e].position
<1> USE IdleRecords DEF TypeInv
<1>1. ASSUME NEW i \in Joins, NEW d \in Drivers, NEW wish \in Wishes, JoinLook(i, d, wish)
      PROVE  join'[j] = join[j]
  BY <1>1 DEF JoinLook
<1>2. ASSUME NEW i \in Joins, JoinPosition(i)
      PROVE  \/ join'[j] = join[j]
             \/ /\ UNCHANGED entry /\ join'[j].ahead = QueueOf(join[j].wish)
                /\ join'[j].position \in Nat
                /\ \A e \in join'[j].ahead : join'[j].position > entry[e].position
  <2>1. CASE i # j BY <1>2, <2>1 DEF JoinPosition
  <2>2. CASE i = j
    <3>1. PICK p \in 0..MaxEntries :
            /\ Follows(p, QueueOf(join[j].wish))
            /\ join' = [join EXCEPT ![j].at = "create", ![j].ahead = QueueOf(join[j].wish), ![j].position = p]
      BY <1>2, <2>2 DEF JoinPosition
    <3>2. join'[j].ahead = QueueOf(join[j].wish) /\ join'[j].position = p
      BY <3>1 DEF JoinRecord
    <3>3. \A e \in QueueOf(join[j].wish) : entry[e].position \in Nat
      BY WaitlistBounds DEF QueueOf, Existing, Row
    <3>4. PICK last \in {0} \union {entry[e].position : e \in QueueOf(join[j].wish)} :
            p = last + 1 /\ \A e \in QueueOf(join[j].wish) : last >= entry[e].position
      BY <3>1 DEF Follows
    <3>5. \A e \in QueueOf(join[j].wish) : p > entry[e].position
      BY <3>3, <3>4
    <3> QED BY <1>2, <3>2, <3>5 DEF JoinPosition
  <2> QED BY <2>1, <2>2
<1>3. ASSUME NEW i \in Joins, NEW e \in Entries, JoinCreate(i, e)
      PROVE  join'[j] = join[j]
  BY <1>3 DEF JoinCreate
<1>4. ~Crash BY DEF Crash
<1> QED
  BY <1>1, <1>2, <1>3, <1>4
  DEF Next, vars, Cancel, ClaimRead, ClaimWrite, SessionEnds, Call, WindowPasses, SweepStep,
      SweepList, SweepExpire, SweepCallsNext

\* Steps keep the order of the queue.
LEMMA QueueStep == TypeInv /\ CallsInv /\ QueueInv /\ [Next]_vars => QueueInv'
<1> SUFFICES ASSUME TypeInv, CallsInv, QueueInv, [Next]_vars PROVE QueueInv'
  OBVIOUS
<1> USE DEF TypeInv
<1>1. AheadInv'
  <2> SUFFICES ASSUME NEW f \in Entries, NEW e \in entry[f]'.ahead
               PROVE  e \in Existing' /\ entry[e]'.position < entry[f]'.position
    BY DEF AheadInv
  <2>1. CASE f \in Existing
    <3>1. entry[f]'.ahead = entry[f].ahead /\ entry[f]'.position = entry[f].position BY <2>1, RowKeeps
    <3>2. e \in Existing /\ entry[e].position < entry[f].position BY <3>1 DEF QueueInv, AheadInv
    <3> QED BY <3>1, <3>2, RowKeeps DEF Existing
  <2>2. CASE f \notin Existing /\ Created(f)
    <3>1. PICK j \in Joins : /\ join[j].at = "create" /\ entry[f]'.ahead = join[j].ahead
                             /\ entry[f]'.position = join[j].position
      BY <2>2 DEF Created
    <3>2. e \in Existing /\ entry[e].position < join[j].position BY <3>1 DEF QueueInv, JoinInv
    <3> QED BY <3>1, <3>2, RowKeeps DEF Existing
  <2>3. CASE f \notin Existing /\ ~Created(f)
    <3>1. entry[f].status = "NONE" /\ f \notin sweep.list /\ ~Claims(f)
      BY <2>3 DEF Existing, CallsInv, SweepInv, ClaimInv, Opened, Claims
    <3>2. ~Lapses(f) BY <3>1 DEF Lapses
    <3>3. \A h \in Handlers : ~Called(f, h) BY <2>3 DEF Called, CallsInv, CallInv
    <3>4. entry[f]' = entry[f] BY <2>3, <3>1, <3>2, <3>3, RowMoves
    <3>5. e \in Existing /\ entry[e].position < entry[f].position BY <3>4 DEF QueueInv, AheadInv
    <3> QED BY <3>4, <3>5, RowKeeps DEF Existing
  <2> QED BY <2>1, <2>2, <2>3
<1>2. JoinInv'
  <2> SUFFICES ASSUME NEW j \in Joins, join'[j].at = "create", NEW e \in join'[j].ahead
               PROVE  e \in Existing' /\ entry[e]'.position < join'[j].position
    BY DEF JoinInv
  <2>1. CASE join'[j] = join[j]
    <3>1. e \in Existing /\ entry[e].position < join[j].position BY <2>1 DEF QueueInv, JoinInv
    <3> QED BY <2>1, <3>1, RowKeeps DEF Existing
  <2>2. CASE /\ UNCHANGED entry /\ join'[j].ahead = QueueOf(join[j].wish)
             /\ join'[j].position > entry[e].position
    <3>1. e \in Existing BY <2>2 DEF QueueOf
    <3>2. entry[e].position \in Nat /\ join'[j].position \in Nat
      BY <2>2, <3>1, WaitlistBounds, TypeStep DEF Existing, Row, JoinRecord
    <3> QED BY <2>2, <3>1, <3>2 DEF Existing
  <2> QED BY <2>1, <2>2, JoinsRead
<1>3. PassedInv'
  <2> SUFFICES ASSUME NEW h \in Handlers, call'[h].at = "chosen",
                      NEW e \in entry'[call'[h].next].ahead
               PROVE  e \notin Waiting(call[h].connector)'
    BY DEF PassedInv
  <2>1. CASE call'[h] = call[h]
    <3>1. call[h].next \in Existing BY <2>1 DEF CallsInv, CallInv
    <3>2. e \in entry[call[h].next].ahead BY <2>1, <3>1, RowKeeps
    <3>3. e \in Existing /\ e \notin Waiting(call[h].connector)
      BY <2>1, <3>1, <3>2 DEF QueueInv, AheadInv, PassedInv, Existing
    <3>4. CASE entry[e]' = entry[e]
      BY <2>1, <3>3, <3>4 DEF Waiting, Compatible
    <3>5. CASE entry[e]'.status # "WAITING" BY <3>5 DEF Waiting
    <3> QED BY <3>3, <3>4, <3>5, RowKeeps
  <2>2. ASSUME NEW c \in Connectors, NEW f \in InFront(c), UNCHANGED entry,
               call'[h] = [at |-> "chosen", connector |-> c, next |-> f]
        PROVE  e \notin Waiting(call[h].connector)'
    <3>1. f \in Entries /\ e \in entry[f].ahead BY <2>2 DEF InFront, Waiting
    <3>2. e \in Existing /\ entry[e].position < entry[f].position BY <3>1 DEF QueueInv, AheadInv
    <3>3. entry[e].position \in Nat /\ entry[f].position \in Nat
      BY <3>1, <3>2, WaitlistBounds DEF Existing, Row
    <3>4. e \notin Waiting(c) BY <3>2, <3>3 DEF InFront
    <3>5. call'[h].connector = c /\ entry' = entry BY <2>2
    <3>6. ~(entry[e].status = "WAITING" /\ Compatible(e, c)) BY <3>2, <3>4 DEF Existing, Waiting
    <3> QED BY <3>5, <3>6 DEF Waiting, Compatible
  <2> QED BY <2>1, <2>2, HoldersRead, IdleRecords
<1> QED BY <1>1, <1>2, <1>3 DEF QueueInv

LEMMA QueueStart == Init => QueueInv
  BY IdleRecords DEF Init, QueueInv, AheadInv, JoinInv, PassedInv

\* docs/reservations.md:30, first come first called: notifyNext() calls nobody while a driver
\* waits who stood in the same queue when the one called took his place.
THEOREM QueueOrder == Spec => FirstComeFirstCalled
<1>1. PassedInv /\ [Next]_vars =>
        [\A h \in Handlers : Call(h) =>
           \A e \in entry[call[h].next].ahead : e \notin Waiting(call[h].connector)]_vars
  BY DEF PassedInv, Call
<1>2. Init => TypeInv /\ CallsInv /\ QueueInv BY TypeStart, CallsStart, QueueStart
<1>3. TypeInv /\ CallsInv /\ QueueInv /\ [Next]_vars => (TypeInv /\ CallsInv /\ QueueInv)'
  BY TypeStep, CallsStep, QueueStep
<1>4. QueueInv => PassedInv BY DEF QueueInv
<1> QED BY <1>1, <1>2, <1>3, <1>4, PTL DEF Spec, FirstComeFirstCalled
=============================================================================
