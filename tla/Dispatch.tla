------------------------------ MODULE Dispatch ------------------------------
(***************************************************************************)
(* What an operator may rely on who sends a command to a charge point and  *)
(* reads its record: nothing is executed before the record says SENT, or   *)
(* twice; an answer is recorded only if the charge point gave it; a record *)
(* that says ACCEPTED, REJECTED or FAILED is final, while TIMEOUT may      *)
(* still be corrected; and a connector goes out of service only by a       *)
(* command that was accepted and recorded.                                 *)
(* ChargerCommands is shown to implement it.                               *)
(***************************************************************************)
CONSTANTS
  Commands,   \* command identifiers
  Replies,    \* what the charge point may answer
  TakesOut    \* the commands that ask for a connector to be taken out of service

VARIABLES
  record,     \* record[c]: what the operator reads, "NONE" before the request
  done,       \* done[c]: what the charge point answered, "none" before it executed c
  service     \* whether the connector is "AVAILABLE" or "UNAVAILABLE"

vars == <<record, done, service>>

Init ==
  /\ record = [c \in Commands |-> "NONE"]
  /\ done = [c \in Commands |-> "none"]
  /\ service = "AVAILABLE"

Moves(c, from, to) ==
  /\ record[c] \in from
  /\ record' = [record EXCEPT ![c] = to]
  /\ UNCHANGED <<done, service>>

Queue(c)    == Moves(c, {"NONE"}, "QUEUED")
Refuse(c)   == Moves(c, {"QUEUED"}, "FAILED")
Send(c)     == Moves(c, {"QUEUED"}, "SENT")

\* The charge point executes a command once, perhaps after the server has given it up.
Execute(c, reply) ==
  /\ record[c] \in {"SENT", "TIMEOUT", "FAILED"} /\ done[c] = "none"
  /\ done' = [done EXCEPT ![c] = reply]
  /\ UNCHANGED <<record, service>>

Undecided == {"SENT", "TIMEOUT"}

Accept(c)   == done[c] = "accepted" /\ Moves(c, Undecided, "ACCEPTED")
Reject(c)   == done[c] = "rejected" /\ Moves(c, Undecided, "REJECTED")
Fail(c)     == Moves(c, Undecided, "FAILED") \/ Moves(c, Undecided, "TIMEOUT")

\* The scheduler gives up some of the commands that have no answer on record.
GiveUp ==
  /\ \A c \in Commands : record'[c] = record[c] \/ (record[c] = "SENT" /\ record'[c] = "TIMEOUT")
  /\ record' = [c \in Commands |-> record'[c]]
  /\ UNCHANGED <<done, service>>

TakeOut(c) ==
  /\ c \in TakesOut /\ record[c] = "ACCEPTED" /\ done[c] = "accepted"
  /\ service' = "UNAVAILABLE"
  /\ UNCHANGED <<record, done>>

\* A boot or another command puts it back into service.
PutBack ==
  /\ service' = "AVAILABLE"
  /\ UNCHANGED <<record, done>>

Next ==
  \/ \E c \in Commands :
       \/ Queue(c) \/ Refuse(c) \/ Send(c) \/ Accept(c) \/ Reject(c) \/ Fail(c) \/ TakeOut(c)
       \/ \E reply \in Replies : Execute(c, reply)
  \/ GiveUp \/ PutBack

Spec == Init /\ [][Next]_vars
=============================================================================
