------------------------------- MODULE Waitlist -------------------------------
(***************************************************************************)
(* WaitlistService for one station: drivers join the queue of a connector, *)
(* of a connector type or of the station, the one in front is called when  *)
(* a session frees a connector, and has a window to claim.                 *)
(*                                                                         *)
(* No operation is a transaction: each reads rows, awaits, and then writes *)
(* one row by its id, whatever has become of it.  Handlers of drivers, of  *)
(* ending sessions and of the scheduler interleave at their awaits.        *)
(***************************************************************************)
EXTENDS Naturals

CONSTANTS
  Drivers, Connectors,
  TypeOf,      \* TypeOf[c]: connectors.type
  None,        \* a null column
  Wishes,      \* bound: what drivers ask for, of everything they may
  MaxEntries,  \* bound: rows of charging_waitlist, created in this order
  Joins,       \* bound: handlers of join() in flight at once
  Endings,     \* bound: sessions that end at once, each with its notifyNext()
  MaxCrashes   \* bound: crashes of the process

ASSUME NoneAssumption == None \notin Drivers \union Connectors
ASSUME WaitlistBounds == MaxEntries \in Nat /\ MaxCrashes \in Nat

VARIABLES
  entry,    \* the rows of charging_waitlist
  join,     \* join[j]: a handler of join()
  claim,    \* bound: one handler of claim(), with the row and the status it will write
  call,     \* call[h]: a handler of notifyNext()
  sweep,    \* expireClaims(): the calls it has still to expire, and the connector it frees next
  crashes

vars == <<entry, join, claim, call, sweep, crashes>>

----------------------------------------------------------------------------
(* Vocabulary *)

Entries == 1..MaxEntries
Types   == {TypeOf[c] : c \in Connectors}
Open    == {"WAITING", "NOTIFIED"}

\* notifyNext() runs for each session that ends, and inside expireClaims().
Handlers == Endings \union {"sweep"}

\* What may be asked for: joinWaitlistSchema has any combination.  What join() makes of it: the
\* type is that of the connector unless one is named.
Wish == [scope : {"CONNECTOR", "CONNECTOR_TYPE", "STATION"},
         connector : Connectors \union {None}, type : Types \union {None}]

ASSUME WishesAssumption == Wishes \subseteq Wish

Wanted(wish) ==
  IF wish.type = None /\ wish.connector # None THEN [wish EXCEPT !.type = TypeOf[wish.connector]] ELSE wish

NoWish   == [scope |-> "STATION", connector |-> None, type |-> None]
IdleJoin == [at |-> "idle", user |-> None, wish |-> NoWish, position |-> 0, ahead |-> {}]
IdleCall == [at |-> "idle", connector |-> None, next |-> 0]
NoClaim  == [of |-> 0, status |-> "NONE"]
NoSweep  == [list |-> {}, frees |-> None]

\* A row not created yet.  "ahead" is no column: the rows that stood in this one's queue when
\* its position was read.
NoEntry == [status |-> "NONE", user |-> None, scope |-> "STATION", connector |-> None,
            type |-> None, position |-> 0, lapsed |-> FALSE, ahead |-> {}]

Existing == {e \in Entries : entry[e].status # "NONE"}

\* The open rows of the queue a wish is for.  A null column in the wish restricts nothing.
QueueOf(wish) ==
  {e \in Existing :
     /\ entry[e].status \in Open
     /\ wish.scope = "CONNECTOR" => wish.connector \in {None, entry[e].connector}
     /\ wish.scope = "CONNECTOR_TYPE" => wish.type \in {None, entry[e].type}}

\* A row of the same driver that answers the wish.
Has(user, wish) ==
  \E e \in QueueOf(wish) : entry[e].user = user /\ (wish.scope # "CONNECTOR" => entry[e].scope = wish.scope)

\* The rows a free connector c may be offered to.
Compatible(e, c) ==
  CASE entry[e].scope = "CONNECTOR"      -> entry[e].connector = c
    [] entry[e].scope = "CONNECTOR_TYPE" -> entry[e].type = TypeOf[c]
    [] entry[e].scope = "STATION"        -> entry[e].type \in {None, TypeOf[c]}

Waiting(c) == {e \in Entries : entry[e].status = "WAITING" /\ Compatible(e, c)}

----------------------------------------------------------------------------
(* join() *)

\* No row answers the wish yet.  A maintenance window or a connector that is AVAILABLE refuses
\* before this.
JoinLook(j, d, wish) ==
  /\ join[j] = IdleJoin /\ Existing # Entries
  /\ ~Has(d, Wanted(wish))
  /\ join' = [join EXCEPT ![j] = [IdleJoin EXCEPT !.at = "look", !.user = d, !.wish = Wanted(wish)]]
  /\ UNCHANGED <<entry, claim, call, sweep, crashes>>

\* Mutant: the newcomer is placed with the last.
FollowsSame(p, queue) ==
  \E last \in {0} \union {entry[e].position : e \in queue} :
     p = last /\ \A e \in queue : last >= entry[e].position

\* One more than the last position of the queue.
Follows(p, queue) ==
  \E last \in {0} \union {entry[e].position : e \in queue} :
     p = last + 1 /\ \A e \in queue : last >= entry[e].position

JoinPosition(j) ==
  /\ join[j].at = "look"
  /\ LET queue == QueueOf(join[j].wish) IN
     \E p \in 0..MaxEntries :
       /\ Follows(p, queue)
       /\ join' = [join EXCEPT ![j].at = "create", ![j].ahead = queue, ![j].position = p]
  /\ UNCHANGED <<entry, claim, call, sweep, crashes>>

\* The rows are numbered in the order they are created.
NewRow(e) == e \in Entries \ Existing /\ \A f \in Entries : f < e => f \in Existing

JoinCreate(j, e) ==
  /\ join[j].at = "create" /\ NewRow(e)
  /\ entry' = [entry EXCEPT ![e] =
       [status |-> "WAITING", user |-> join[j].user, scope |-> join[j].wish.scope,
        connector |-> join[j].wish.connector, type |-> join[j].wish.type,
        position |-> join[j].position, lapsed |-> FALSE, ahead |-> join[j].ahead]]
  /\ join' = [join EXCEPT ![j] = IdleJoin]
  /\ UNCHANGED <<claim, call, sweep, crashes>>

----------------------------------------------------------------------------
(* cancel() and claim() *)

\* Any row, of any status.
Cancel(e) ==
  /\ e \in Existing
  /\ entry' = [entry EXCEPT ![e].status = "CANCELLED"]
  /\ UNCHANGED <<join, claim, call, sweep, crashes>>

ClaimRead(e) ==
  /\ claim = NoClaim /\ entry[e].status = "NOTIFIED"
  /\ claim' = [of |-> e, status |-> IF entry[e].lapsed THEN "EXPIRED" ELSE "CLAIMED"]
  /\ UNCHANGED <<entry, join, call, sweep, crashes>>

\* A late claim closes the call, and calls nobody in its place.
ClaimWrite ==
  /\ claim # NoClaim
  /\ entry' = [entry EXCEPT ![claim.of].status = claim.status]
  /\ claim' = NoClaim
  /\ UNCHANGED <<join, call, sweep, crashes>>

----------------------------------------------------------------------------
(* notifyNext(): the reservation check and the choice, then the write by id *)

\* Mutant: the order is reversed.
InFrontLast(c) == {e \in Waiting(c) : \A f \in Waiting(c) : entry[e].position >= entry[f].position}

\* The rows in front.
InFront(c) == {e \in Waiting(c) : \A f \in Waiting(c) : entry[e].position <= entry[f].position}

\* With no reservation near; without a row, or with one near, the handler ends here.
Choose(h, c) ==
  \E e \in InFront(c) : call' = [call EXCEPT ![h] = [at |-> "chosen", connector |-> c, next |-> e]]

\* A session on c ends.
SessionEnds(h, c) ==
  /\ call[h] = IdleCall
  /\ Choose(h, c)
  /\ UNCHANGED <<entry, join, claim, sweep, crashes>>

\* Mutant: the row gets the name of the notification.
CallNamed(h) ==
  /\ call[h].at = "chosen"
  /\ entry' = [entry EXCEPT ![call[h].next].status = "WAITLIST_NOTIFIED"]
  /\ call' = [call EXCEPT ![h] = IdleCall]
  /\ UNCHANGED <<join, claim, sweep, crashes>>

Call(h) ==
  /\ call[h].at = "chosen"
  /\ LET e == call[h].next IN
     entry' = [entry EXCEPT ![e].status = "NOTIFIED", ![e].lapsed = FALSE,
                            ![e].connector = IF @ = None THEN call[h].connector ELSE @]
  /\ call' = [call EXCEPT ![h] = IdleCall]
  /\ UNCHANGED <<join, claim, sweep, crashes>>

\* expiresAt passes.  The window is of minutes: a handler that has chosen the row has written
\* it by then.
WindowPasses(e) ==
  /\ entry[e].status = "NOTIFIED" /\ ~entry[e].lapsed
  /\ \A h \in Handlers : call[h].next # e
  /\ entry' = [entry EXCEPT ![e].lapsed = TRUE]
  /\ UNCHANGED <<join, claim, call, sweep, crashes>>

----------------------------------------------------------------------------
(* expireClaims(), every 20 s; a pass has ended before the next *)

\* Mutant: every call that has not been claimed is stale.
StaleCalled == {e \in Entries : entry[e].status = "NOTIFIED"}

\* Mutant: the list asks for what is still waiting.
StaleWaiting == {e \in Entries : entry[e].status = "WAITING" /\ entry[e].lapsed}

Stale == {e \in Entries : entry[e].status = "NOTIFIED" /\ entry[e].lapsed}

SweepList ==
  /\ sweep = NoSweep /\ call["sweep"] = IdleCall /\ Stale # {}
  /\ sweep' = [NoSweep EXCEPT !.list = Stale]
  /\ UNCHANGED <<entry, join, claim, call, crashes>>

SweepExpire(e) ==
  /\ e \in sweep.list /\ sweep.frees = None /\ call["sweep"] = IdleCall
  /\ entry' = [entry EXCEPT ![e].status = "EXPIRED"]
  /\ sweep' = [list |-> sweep.list \ {e}, frees |-> entry[e].connector]
  /\ UNCHANGED <<join, claim, call, crashes>>

SweepCallsNext ==
  /\ sweep.frees # None
  /\ sweep' = [sweep EXCEPT !.frees = None]
  /\ Choose("sweep", sweep.frees) \/ UNCHANGED call
  /\ UNCHANGED <<entry, join, claim, crashes>>

SweepStep == SweepList \/ (\E e \in Entries : SweepExpire(e)) \/ SweepCallsNext

----------------------------------------------------------------------------

\* The process dies; rows stay.
Crash ==
  /\ crashes < MaxCrashes
  /\ crashes' = crashes + 1
  /\ join' = [j \in Joins |-> IdleJoin]
  /\ claim' = NoClaim
  /\ call' = [h \in Handlers |-> IdleCall]
  /\ sweep' = NoSweep
  /\ UNCHANGED entry

Init ==
  /\ entry = [e \in Entries |-> NoEntry]
  /\ join = [j \in Joins |-> IdleJoin]
  /\ claim = NoClaim
  /\ call = [h \in Handlers |-> IdleCall]
  /\ sweep = NoSweep
  /\ crashes = 0

Next ==
  \/ \E j \in Joins : \/ \E d \in Drivers, wish \in Wishes : JoinLook(j, d, wish)
                      \/ JoinPosition(j) \/ (\E e \in Entries : JoinCreate(j, e))
  \/ \E e \in Entries : Cancel(e) \/ ClaimRead(e) \/ WindowPasses(e)
  \/ ClaimWrite
  \/ \E h \in Endings, c \in Connectors : SessionEnds(h, c)
  \/ \E h \in Handlers : Call(h)
  \/ SweepStep \/ Crash

(***************************************************************************)
(* Fairness.  Time passes, the scheduler's timer fires, and handlers that  *)
(* have begun go on.  Nobody has to join, claim, or end a session.         *)
(***************************************************************************)
Fairness ==
  /\ \A e \in Entries : WF_vars(WindowPasses(e))
  /\ WF_vars(ClaimWrite)
  /\ \A h \in Handlers : WF_vars(Call(h))
  /\ WF_vars(SweepStep)

Spec == Init /\ [][Next]_vars /\ Fairness

----------------------------------------------------------------------------
(* Properties *)

Row == [status : {"NONE", "WAITING", "NOTIFIED", "CLAIMED", "EXPIRED", "CANCELLED"},
        user : Drivers \union {None}, scope : {"CONNECTOR", "CONNECTOR_TYPE", "STATION"},
        connector : Connectors \union {None}, type : Types \union {None},
        position : 0..MaxEntries, lapsed : BOOLEAN, ahead : SUBSET Entries]

\* Type invariant: positions stay within the number of rows, and a row that was called has the
\* connector it was called to.
TypeOK ==
  /\ \A e \in Entries :
       /\ entry[e] \in Row
       /\ entry[e].status \in {"NOTIFIED", "CLAIMED", "EXPIRED"} => entry[e].connector # None
  /\ \A j \in Joins : /\ join[j].at \in {"idle", "look", "create"}
                      /\ join[j].position \in 0..MaxEntries
  /\ claim \in [of : Entries, status : {"CLAIMED", "EXPIRED"}] \union {NoClaim}
  /\ \A h \in Handlers : call[h].at \in {"idle", "chosen"} /\ call[h].next \in Entries \union {0}
  /\ sweep \in [list : SUBSET Entries, frees : Connectors \union {None}]
  /\ crashes \in 0..MaxCrashes

\* docs/reservations.md:30: nobody is called while a driver waits who stood in the same queue
\* when he took his place, although handlers choose, write and leave the queue in any order.
FirstComeFirstCalled ==
  [][\A h \in Handlers : Call(h) =>
       \A e \in entry[call[h].next].ahead : e \notin Waiting(call[h].connector)]_vars

\* A driver who was called keeps his window: only what has lapsed expires, also when two
\* handlers have called the same row, and whatever the scheduler's list is by then.
NotCutShort ==
  \A e \in Entries : entry[e].status = "EXPIRED" => entry[e].lapsed

\* No call stays open: it is claimed, cancelled or expired, and is not opened again by a
\* handler that had chosen it before.
CallsEnd ==
  \A e \in Entries : entry[e].status = "NOTIFIED" ~> [](entry[e].status \notin Open)
=============================================================================
