-------------------------- MODULE ChargerCommands --------------------------
(***************************************************************************)
(* ChargerCommandsService over the sockets of ConnectionManager: the row   *)
(* of each command, the handler that executes it, the map of pending       *)
(* calls, the frames under way, and the scheduler's expiry.                *)
(*                                                                         *)
(* The handler of a command is a sequence of statements with an await      *)
(* between them; at[c] says how far it has come.  A call waits in pending  *)
(* until the charge point's answer or its own timer settles it, whatever   *)
(* becomes of the socket it was sent on.  A crash loses handlers, pending  *)
(* calls and frames; rows stay.                                            *)
(***************************************************************************)
EXTENDS ConnectionManager

CONSTANTS
  Commands,   \* command identifiers; each is also the uniqueId of its call
  Ask         \* Ask[c]: "Inoperative", "Operative" (ChangeAvailability), "stop" (RemoteStop),
              \* "other" (RemoteStart, Reset)

ASSUME AskAssumption == Ask \in [Commands -> {"Inoperative", "Operative", "stop", "other"}]

VARIABLES
  row,      \* row[c]: charger_commands.status
  at,       \* at[c]: how far execute() has come
  out,      \* out[c]: how the handler's call ended
  pending,  \* the calls that wait for an answer
  frames,   \* calls and answers under way, each on its socket
  did       \* did[c]: the charge point's answer to the command

cmdVars == <<row, at, out, pending>>
vars == <<linkVars, cmdVars, frames, did>>

----------------------------------------------------------------------------
(* Vocabulary *)

CommandStatus == {"QUEUED", "SENT", "ACCEPTED", "REJECTED", "TIMEOUT", "FAILED"}
Settled       == {"ACCEPTED", "REJECTED", "TIMEOUT", "FAILED"}

\* The charge point's answers: Accepted (or Scheduled), another status, a CALLERROR, and one
\* whose description has the word "timeout".
Replies == {"accepted", "rejected", "callError", "saysTimeout"}

\* A call that throws: one of those two, or without the charge point by the manager's timer, for
\* want of a socket to write to, or of a transaction to stop.
Errors == {"callError", "saysTimeout", "expired", "unsent", "noTransaction"}

\* /timeout/i over the error's message.  The manager's own text is "OCPP <action> timed out".
MentionsTimeout == {"saysTimeout"}

Frame == [kind : {"call"} \union Replies, of : Commands, on : Sockets]

Changes(c) == Ask[c] \in {"Inoperative", "Operative"}
Told(a)    == IF a = "Inoperative" THEN "UNAVAILABLE" ELSE "AVAILABLE"

Goes(c, to) == at' = [at EXCEPT ![c] = to]

Ends(c, e) ==
  /\ out' = [out EXCEPT ![c] = e]
  /\ Goes(c, "ended")

\* The handler's variables are gone with it.
Forgets(c) == out' = [out EXCEPT ![c] = "none"]

----------------------------------------------------------------------------
(* execute() *)

Request(c) ==
  /\ row[c] = "NONE"
  /\ row' = [row EXCEPT ![c] = "QUEUED"]
  /\ Goes(c, "queued")
  /\ UNCHANGED <<linkVars, out, pending, frames, did>>

RefuseOffline(c) ==
  /\ at[c] = "queued" /\ ~IsOnline
  /\ row' = [row EXCEPT ![c] = "FAILED"]
  /\ Goes(c, "done")
  /\ UNCHANGED <<linkVars, out, pending, frames, did>>

MarkSent(c) ==
  /\ at[c] = "queued" /\ IsOnline
  /\ row' = [row EXCEPT ![c] = "SENT"]
  /\ Goes(c, "sent")
  /\ UNCHANGED <<linkVars, out, pending, frames, did>>

\* lookupTransactionId finds no transaction, or the request lacks its idTag.
NothingToSend(c) ==
  /\ at[c] = "sent" /\ Ask[c] \in {"stop", "other"}
  /\ Ends(c, "noTransaction")
  /\ UNCHANGED <<linkVars, row, pending, frames, did>>

\* call() and sendRaw(): the pending entry, then the frame on the registered socket.
Send(c) ==
  /\ at[c] = "sent" /\ IsOnline
  /\ pending' = pending \union {c}
  /\ frames' = frames \union {[kind |-> "call", of |-> c, on |-> registered]}
  /\ Goes(c, "calling")
  /\ UNCHANGED <<linkVars, row, out, did>>

SendFails(c) ==
  /\ at[c] = "sent" /\ ~IsOnline
  /\ Ends(c, "unsent")
  /\ UNCHANGED <<linkVars, row, pending, frames, did>>

CallTimer(c) ==
  /\ c \in pending
  /\ pending' = pending \ {c}
  /\ Ends(c, "expired")
  /\ UNCHANGED <<linkVars, row, frames, did>>

\* Mutant: the answer goes to whichever call is pending.
MatchAny(f) == pending

\* resolveIncomingResult: by unique id, whatever the socket.
Match(f) == pending \intersect {f.of}

Receive(f) ==
  /\ f \in frames /\ f.kind # "call" /\ socket[f.on] # "CLOSED"
  /\ frames' = frames \ {f}
  /\ IF Match(f) = {}
     THEN UNCHANGED <<pending, out, at>>
     ELSE \E c \in Match(f) : pending' = pending \ {c} /\ Ends(c, f.kind)
  /\ UNCHANGED <<linkVars, row, did>>

RecordError(c) ==
  /\ at[c] = "ended" /\ out[c] \in Errors
  /\ row' = [row EXCEPT ![c] = IF out[c] \in MentionsTimeout THEN "TIMEOUT" ELSE "FAILED"]
  /\ Goes(c, "done")
  /\ Forgets(c)
  /\ UNCHANGED <<linkVars, pending, frames, did>>

RecordAnswer(c) ==
  /\ at[c] = "ended" /\ out[c] \in {"accepted", "rejected"}
  /\ row' = [row EXCEPT ![c] = IF out[c] = "accepted" THEN "ACCEPTED" ELSE "REJECTED"]
  /\ Goes(c, IF out[c] = "accepted" /\ Changes(c) THEN "recorded" ELSE "done")
  /\ Forgets(c)
  /\ UNCHANGED <<linkVars, pending, frames, did>>

WriteConnector(c) ==
  /\ at[c] = "recorded"
  /\ connector' = Told(Ask[c])
  /\ Goes(c, "done")
  /\ UNCHANGED <<socket, linked, registered, heard, charger, sweep, boot, boots, faults,
                 row, out, pending, frames, did>>

----------------------------------------------------------------------------
(* OperationsScheduler: one update of every command that was sent two timeouts ago.  By *)
(* then its call has ended; a QUEUED row has no sentAt, so the condition never holds.   *)

\* Mutant: whatever was sent two timeouts ago, answered or not.
OverdueAny(c) == row[c] # "QUEUED" /\ at[c] \in {"ended", "done"}

\* Mutant: only what was never sent is overdue.
OverdueQueued(c) == row[c] = "QUEUED" /\ at[c] = "done"

Overdue(c) == row[c] = "SENT" /\ at[c] \in {"ended", "done"}

Expire ==
  /\ \E c \in Commands : Overdue(c)
  /\ row' = [c \in Commands |-> IF Overdue(c) THEN "TIMEOUT" ELSE row[c]]
  /\ UNCHANGED <<linkVars, at, out, pending, frames, did>>

----------------------------------------------------------------------------
(* The charge point *)

\* It answers a call once, or never.  Its notifications are OcppSessions' subject.
Answer(f, reply) ==
  /\ f \in frames /\ f.kind = "call" /\ linked[f.on]
  /\ frames' = (frames \ {f}) \union {[f EXCEPT !.kind = reply]}
  /\ did' = [did EXCEPT ![f.of] = reply]
  /\ UNCHANGED <<linkVars, cmdVars>>

----------------------------------------------------------------------------
(* Composition with the sockets *)

\* What was on a socket is lost with it.
Close(k) ==
  /\ SocketClosed(k)
  /\ frames' = {f \in frames : f.on # k}
  /\ UNCHANGED <<cmdVars, did>>

Crash ==
  /\ LinkCrash
  /\ at' = [c \in Commands |-> IF at[c] = "none" THEN "none" ELSE "done"]
  /\ out' = [c \in Commands |-> "none"]
  /\ pending' = {} /\ frames' = {}
  /\ UNCHANGED <<row, did>>

BootStep == BootCharger \/ BootConnectors

LinkStep ==
  /\ \/ \E k \in Sockets : Connect(k) \/ LoseLink(k) \/ (\E busy \in BOOLEAN : BootReceived(k, busy))
     \/ Silence \/ BootStep \/ SweepStep
  /\ UNCHANGED <<cmdVars, frames, did>>

HandlerStep(c) ==
  \/ RefuseOffline(c) \/ MarkSent(c) \/ NothingToSend(c) \/ Send(c) \/ SendFails(c)
  \/ CallTimer(c) \/ RecordError(c) \/ RecordAnswer(c) \/ WriteConnector(c)

Init ==
  /\ LinkInit
  /\ row = [c \in Commands |-> "NONE"]
  /\ at = [c \in Commands |-> "none"] /\ out = [c \in Commands |-> "none"]
  /\ pending = {} /\ frames = {}
  /\ did = [c \in Commands |-> "none"]

Next ==
  \/ \E c \in Commands : Request(c) \/ HandlerStep(c)
  \/ \E f \in frames : Receive(f) \/ (\E reply \in Replies : Answer(f, reply))
  \/ Expire
  \/ LinkStep \/ (\E k \in Sockets : Close(k)) \/ Crash

(***************************************************************************)
(* Fairness.  An awaited statement returns and the handler goes on; the    *)
(* timers (setTimeout of a call, setInterval of the watchdog and of the    *)
(* scheduler) fire; time passes.  Nothing is assumed of the charge point,  *)
(* its link, its answers, or of the operator.                              *)
(***************************************************************************)
IdleLink == UNCHANGED <<cmdVars, frames, did>>

Fairness ==
  /\ \A c \in Commands : WF_vars(HandlerStep(c))
  /\ WF_vars(Expire)
  /\ WF_vars(Silence /\ IdleLink) /\ WF_vars(BootStep /\ IdleLink) /\ WF_vars(SweepStep /\ IdleLink)

Spec == Init /\ [][Next]_vars /\ Fairness

----------------------------------------------------------------------------
(* Properties *)

\* Type invariant.
TypeOK ==
  /\ LinkTypeOK
  /\ row \in [Commands -> CommandStatus \union {"NONE"}]
  /\ at \in [Commands -> {"none", "queued", "sent", "calling", "ended", "recorded", "done"}]
  /\ out \in [Commands -> Replies \union Errors \union {"none"}]
  /\ pending \subseteq Commands
  /\ frames \subseteq Frame
  /\ did \in [Commands -> Replies \union {"none"}]

\* What the record says of an answer is what the charge point did with that very command, and
\* a connector is taken out of service only after it accepted, although answers may come
\* after their timer, after another command's, or never.
AnswersAreTheEquipments ==
  /\ \A c \in Commands : /\ row[c] = "ACCEPTED" => did[c] = "accepted"
                         /\ row[c] = "REJECTED" => did[c] = "rejected"
  /\ connector = "UNAVAILABLE" =>
       \E c \in Commands : Ask[c] = "Inoperative" /\ did[c] = "accepted"

\* The records of commands, for who reads them: see module Dispatch.
DispatchOf == INSTANCE Dispatch WITH
  TakesOut <- {c \in Commands : Ask[c] = "Inoperative"},
  record <- row, done <- did, service <- connector

\* Whatever becomes of answers, timers, sockets, the scheduler and the process, the records, the
\* charge point and the connector move as Dispatch allows: executed once and after SENT, answers
\* never invented or exchanged, final once decided.
ImplementsDispatch == DispatchOf!Spec

\* A command that was sent is settled, and stays so, whatever becomes of its answer, its
\* socket and the process.
SentSettles ==
  \A c \in Commands : <>[](row[c] \in Settled \union {"NONE", "QUEUED"})
============================================================================
