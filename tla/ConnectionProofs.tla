-------------------------- MODULE ConnectionProofs --------------------------
(***************************************************************************)
(* Theorems about the sockets of a charge point and the two components     *)
(* composed with them, ChargerCommands and Operations, for every set of    *)
(* commands, windows and sockets and every number of boots and faults.     *)
(***************************************************************************)
EXTENDS ChargerCommands, MaintenanceWindows, TLAPS

\* The scheduler, over the same sockets.
CONSTANTS Tick, MaxHandled
VARIABLES station, health, keyed, stray, handled, opsAt, seen, list, sends

Ops == INSTANCE Operations WITH at <- opsAt

USE LinkBoundsAssumption

----------------------------------------------------------------------------
(* The sockets *)

\* A step of the sockets, alone or with a step of the commands.
LinkNext ==
  \/ \E k \in Sockets : \/ Connect(k) \/ LoseLink(k) \/ SocketClosed(k)
                        \/ \E busy \in BOOLEAN : BootReceived(k, busy)
  \/ Silence \/ BootStep \/ SweepStep \/ LinkCrash

\* Steps of the sockets keep the types.
LEMMA LinkTypeStep == LinkTypeOK /\ LinkNext => LinkTypeOK'
<1> SUFFICES ASSUME LinkTypeOK, LinkNext PROVE LinkTypeOK'
  OBVIOUS
<1> USE DEF LinkTypeOK
<1>1. ASSUME NEW k \in Sockets, Connect(k) PROVE LinkTypeOK'
  BY <1>1 DEF Connect, Registered
<1>2. ASSUME NEW k \in Sockets, LoseLink(k) PROVE LinkTypeOK'
  BY <1>2 DEF LoseLink
<1>3. ASSUME NEW k \in Sockets, SocketClosed(k) PROVE LinkTypeOK'
  BY <1>3 DEF SocketClosed, Unregistered
<1>4. ASSUME NEW k \in Sockets, NEW busy \in BOOLEAN, BootReceived(k, busy) PROVE LinkTypeOK'
  BY <1>4 DEF BootReceived
<1>5. CASE Silence BY <1>5 DEF Silence
<1>6. CASE BootStep BY <1>6 DEF BootStep, BootCharger, BootConnectors
<1>7. CASE SweepSocket BY <1>7 DEF SweepSocket, Silent
<1>8. CASE SweepNoSocket \/ SweepRows \/ SweepCheck
  BY <1>8 DEF SweepNoSocket, SweepRows, SweepCheck
<1>9. CASE MarkOfflineRead \/ MarkOfflineWrite
  BY <1>9 DEF MarkOfflineRead, MarkOfflineWrite, Marked
<1>10. CASE LinkCrash BY <1>10 DEF LinkCrash
<1> QED
  BY <1>1, <1>2, <1>3, <1>4, <1>5, <1>6, <1>7, <1>8, <1>9, <1>10 DEF LinkNext, SweepStep

\* Steps of the sockets keep a connected charge point registered.  A new connection comes only
\* when the charge point has none; the socket it replaces is not its own any more.
LEMMA LinkedStep == LinkTypeOK /\ LinkedIsRegistered /\ LinkNext => LinkedIsRegistered'
<1> SUFFICES ASSUME LinkTypeOK, LinkedIsRegistered, LinkNext,
                    NEW j \in Sockets, linked'[j], socket'[j] = "OPEN"
             PROVE  registered' = j
  BY DEF LinkedIsRegistered
<1> USE DEF LinkTypeOK
<1>1. ASSUME NEW k \in Sockets, Connect(k) PROVE registered' = j
  BY <1>1 DEF Connect, Registered, IsLinked
<1>2. ASSUME NEW k \in Sockets, LoseLink(k) PROVE registered' = j
  BY <1>2 DEF LoseLink, LinkedIsRegistered
<1>3. ASSUME NEW k \in Sockets, SocketClosed(k) PROVE registered' = j
  BY <1>3 DEF SocketClosed, Unregistered, LinkedIsRegistered
<1>4. CASE UNCHANGED <<socket, linked, registered>>
  BY <1>4 DEF LinkedIsRegistered
<1>5. ~SweepSocket
  BY DEF SweepSocket, LinkedIsRegistered
<1>6. ~LinkCrash
  BY DEF LinkCrash
<1> QED
  BY <1>1, <1>2, <1>3, <1>4, <1>5, <1>6
  DEF LinkNext, SweepStep, BootReceived, Silence, BootStep, BootCharger, BootConnectors,
      SweepNoSocket, SweepRows, SweepCheck, MarkOfflineRead, MarkOfflineWrite, Marked

\* A step of the whole is a step of the sockets, or leaves them alone but for the connector.
LEMMA LinkOfNext ==
  ASSUME [Next]_vars
  PROVE  \/ LinkNext
         \/ /\ UNCHANGED <<socket, linked, registered, heard, charger, sweep, boot, boots, faults>>
            /\ \/ UNCHANGED connector
               \/ \E c \in Commands : WriteConnector(c)
<1> QED
  BY DEF Next, vars, linkVars, LinkNext, LinkStep, Close, Crash, HandlerStep, Request, RefuseOffline,
         MarkSent, NothingToSend, Send, SendFails, CallTimer, RecordError, RecordAnswer, WriteConnector,
         Receive, Answer, Expire

----------------------------------------------------------------------------
(* Type correctness *)

LEMMA TypeStep == TypeOK /\ [Next]_vars => TypeOK'
<1> SUFFICES ASSUME TypeOK, [Next]_vars PROVE TypeOK'
  OBVIOUS
<1> USE DEF TypeOK
<1>1. LinkTypeOK'
  <2>1. CASE LinkNext BY <2>1, LinkTypeStep
  <2>2. ASSUME NEW c \in Commands, WriteConnector(c) PROVE connector' \in {"AVAILABLE", "UNAVAILABLE"}
    BY <2>2 DEF WriteConnector, Told
  <2> QED BY <2>1, <2>2, LinkOfNext DEF LinkTypeOK
<1> DEFINE CmdTypes == /\ row \in [Commands -> CommandStatus \union {"NONE"}]
                       /\ at \in [Commands -> {"none", "queued", "sent", "calling", "ended", "recorded", "done"}]
                       /\ out \in [Commands -> Replies \union Errors \union {"none"}]
                       /\ pending \subseteq Commands
           FrameTypes == frames \subseteq Frame /\ did \in [Commands -> Replies \union {"none"}]
<1>2. ASSUME NEW c \in Commands, Request(c) \/ RefuseOffline(c) \/ MarkSent(c)
      PROVE  CmdTypes' /\ FrameTypes'
  BY <1>2 DEF Request, RefuseOffline, MarkSent, Goes, CommandStatus
<1>3. ASSUME NEW c \in Commands, NothingToSend(c) \/ SendFails(c) \/ CallTimer(c)
      PROVE  CmdTypes' /\ FrameTypes'
  BY <1>3 DEF NothingToSend, SendFails, CallTimer, Ends, Goes, Errors
<1>4. ASSUME NEW c \in Commands, Send(c) PROVE CmdTypes' /\ FrameTypes'
  <2>1. registered \in Sockets BY <1>4 DEF Send, IsOnline, LinkTypeOK
  <2>2. [kind |-> "call", of |-> c, on |-> registered] \in Frame BY <2>1 DEF Frame
  <2> QED BY <1>4, <2>2 DEF Send, Goes
<1>5. ASSUME NEW c \in Commands, RecordError(c) \/ RecordAnswer(c) \/ WriteConnector(c)
      PROVE  CmdTypes' /\ FrameTypes'
  BY <1>5 DEF RecordError, RecordAnswer, WriteConnector, Goes, Forgets, CommandStatus
<1>6. ASSUME NEW f \in frames, Receive(f) PROVE CmdTypes' /\ FrameTypes'
  <2>1. f \in Frame /\ f.kind # "call" BY <1>6 DEF Receive
  <2>2. f.kind \in Replies BY <2>1 DEF Frame
  <2>3. CmdTypes' BY <1>6, <2>2 DEF Receive, Match, Ends, Goes
  <2> QED BY <1>6, <2>3 DEF Receive
<1>7. ASSUME NEW f \in frames, NEW reply \in Replies, Answer(f, reply)
      PROVE  CmdTypes' /\ FrameTypes'
  <2>1. f \in Frame OBVIOUS
  <2>2. [f EXCEPT !.kind = reply] \in Frame BY <2>1 DEF Frame
  <2>3. FrameTypes' BY <1>7, <2>2 DEF Answer
  <2> QED BY <1>7, <2>3 DEF Answer, cmdVars
<1>8. ASSUME Expire PROVE CmdTypes' /\ FrameTypes'
  BY <1>8 DEF Expire, CommandStatus
<1>9. ASSUME LinkStep PROVE CmdTypes' /\ FrameTypes'
  BY <1>9 DEF LinkStep, cmdVars
<1>10. ASSUME NEW k \in Sockets, Close(k) PROVE CmdTypes' /\ FrameTypes'
  BY <1>10 DEF Close, cmdVars
<1>11. ASSUME Crash PROVE CmdTypes' /\ FrameTypes'
  BY <1>11 DEF Crash
<1>12. ASSUME UNCHANGED vars PROVE CmdTypes' /\ FrameTypes'
  BY <1>12 DEF vars, cmdVars
<1> QED
  BY <1>1, <1>2, <1>3, <1>4, <1>5, <1>6, <1>7, <1>8, <1>9, <1>10, <1>11, <1>12
  DEF Next, HandlerStep

LEMMA TypeStart == Init => TypeOK
<1>1. 0 \in 0..MaxBoots /\ 0 \in 0..MaxFaults OBVIOUS
<1>2. LinkInit => LinkTypeOK BY <1>1 DEF LinkInit, LinkTypeOK
<1> QED BY <1>2 DEF Init, TypeOK

\* Sockets, rows, handlers and frames keep their types; no status is written that its column
\* does not know.
THEOREM TypeCorrect == Spec => []TypeOK
  BY TypeStart, TypeStep, PTL DEF Spec

----------------------------------------------------------------------------
(* A connected charge point is reached *)

\* register() and unregister(): while the charge point's connection is open it is the
\* registered one, whatever closes late, is swept, or dies meanwhile.
THEOREM ConnectedIsReached == Spec => []LinkedIsRegistered
<1>1. Init => LinkedIsRegistered
  BY DEF Init, LinkInit, LinkedIsRegistered
<1>2. TypeOK /\ LinkedIsRegistered /\ [Next]_vars => LinkedIsRegistered'
  <2> SUFFICES ASSUME TypeOK, LinkedIsRegistered, [Next]_vars PROVE LinkedIsRegistered'
    OBVIOUS
  <2>1. CASE LinkNext BY <2>1, LinkedStep DEF TypeOK
  <2>2. CASE UNCHANGED <<socket, linked, registered>> BY <2>2 DEF LinkedIsRegistered
  <2> QED BY <2>1, <2>2, LinkOfNext
<1> QED BY <1>1, <1>2, TypeCorrect, PTL DEF Spec

----------------------------------------------------------------------------
(* Answers *)

\* A command is sent at most once: until then nothing of it is under way, and afterwards at
\* most one frame.
Unsent(c)  == /\ did[c] = "none" /\ c \notin pending
              /\ \A f \in frames : f.of # c
SentOnce   == /\ \A c \in Commands : at[c] \in {"none", "queued", "sent"} => Unsent(c)
              /\ \A c \in Commands : row[c] = "NONE" => at[c] = "none"
              /\ \A f, g \in frames : f.of = g.of => f = g

\* What is under way, what the handler holds, and what it goes on to write agree with what the
\* charge point did.
FramesAgree == \A f \in frames : IF f.kind = "call" THEN did[f.of] = "none" ELSE did[f.of] = f.kind
HandlersAgree ==
  \A c \in Commands : /\ out[c] \in {"accepted", "rejected"} => did[c] = out[c]
                      /\ at[c] = "recorded" => did[c] = "accepted" /\ Changes(c)

AnswerInv == SentOnce /\ FramesAgree /\ HandlersAgree /\ AnswersAreTheEquipments

\* What a charge point did stays done, and only a call it has not answered changes it.
LEMMA DidStays ==
  ASSUME TypeOK, AnswerInv, [Next]_vars, NEW c \in Commands, did[c] # "none"
  PROVE  did'[c] = did[c]
<1>1. ASSUME NEW f \in frames, NEW reply \in Replies, Answer(f, reply) PROVE did'[c] = did[c]
  <2>1. did[f.of] = "none" BY <1>1 DEF Answer, AnswerInv, FramesAgree
  <2> QED BY <1>1, <2>1 DEF Answer, TypeOK
<1> QED
  BY <1>1
  DEF Next, vars, LinkStep, Close, Crash, HandlerStep, Request, RefuseOffline, MarkSent,
      NothingToSend, Send, SendFails, CallTimer, RecordError, RecordAnswer, WriteConnector, Receive, Expire

\* A step that leaves frames and answers alone keeps the frames' part of the invariant, if it
\* does not send a command back.
LEMMA QuietStep ==
  ASSUME AnswerInv, UNCHANGED did, frames' \subseteq frames,
         pending' \subseteq pending,
         \A c \in Commands : at'[c] \in {"none", "queued", "sent"} => at[c] \in {"none", "queued", "sent"},
         \A c \in Commands : row'[c] = "NONE" => row[c] = "NONE" /\ (at[c] = "none" => at'[c] = "none")
  PROVE  SentOnce' /\ FramesAgree'
<1>1. SentOnce' BY DEF AnswerInv, SentOnce, Unsent
<1>2. FramesAgree' BY DEF AnswerInv, FramesAgree
<1> QED BY <1>1, <1>2

LEMMA AnswerStep == TypeOK /\ AnswerInv /\ [Next]_vars => AnswerInv'
<1> SUFFICES ASSUME TypeOK, AnswerInv, [Next]_vars PROVE AnswerInv'
  OBVIOUS
<1> USE DEF TypeOK
<1> DEFINE RowsAgree == \A c \in Commands : /\ row[c] = "ACCEPTED" => did[c] = "accepted"
                                            /\ row[c] = "REJECTED" => did[c] = "rejected"
           OutOfService == connector = "UNAVAILABLE" =>
                             \E c \in Commands : Ask[c] = "Inoperative" /\ did[c] = "accepted"
<1>0. RowsAgree /\ OutOfService BY DEF AnswerInv, AnswersAreTheEquipments
<1>1. OutOfService'
  <2>1. CASE UNCHANGED connector BY <1>0, <2>1, DidStays
  <2>2. ASSUME NEW c \in Commands, WriteConnector(c) PROVE OutOfService'
    <3>1. did[c] = "accepted" /\ Changes(c) /\ did' = did
      BY <2>2 DEF WriteConnector, AnswerInv, HandlersAgree
    <3>2. CASE Ask[c] = "Inoperative" BY <3>1, <3>2
    <3>3. CASE Ask[c] # "Inoperative" BY <2>2, <3>3 DEF WriteConnector, Told
    <3> QED BY <3>2, <3>3
  <2>3. CASE LinkNext
    <3>1. UNCHANGED connector \/ connector' = "AVAILABLE"
      BY <2>3 DEF LinkNext, Connect, LoseLink, SocketClosed, BootReceived, Silence, BootStep, BootCharger,
                  BootConnectors, SweepStep, SweepSocket, SweepNoSocket, SweepRows, SweepCheck,
                  MarkOfflineRead, MarkOfflineWrite, LinkCrash
    <3> QED BY <2>1, <3>1
  <2> QED BY <2>1, <2>2, <2>3, LinkOfNext
<1> DEFINE Rest == SentOnce /\ FramesAgree /\ HandlersAgree /\ RowsAgree
<1>2. ASSUME NEW c \in Commands, Request(c) PROVE Rest'
  <2>1. /\ SentOnce' /\ FramesAgree'
    BY <1>2, QuietStep DEF Request, Goes, AnswerInv, SentOnce
  <2>2. HandlersAgree' /\ RowsAgree'
    BY <1>0, <1>2 DEF Request, Goes, AnswerInv, HandlersAgree, Changes
  <2> QED BY <2>1, <2>2
<1>3. ASSUME NEW c \in Commands, RefuseOffline(c) \/ MarkSent(c) PROVE Rest'
  <2>1. /\ SentOnce' /\ FramesAgree'
    BY <1>3, QuietStep DEF RefuseOffline, MarkSent, Goes
  <2>2. HandlersAgree' /\ RowsAgree'
    BY <1>0, <1>3 DEF RefuseOffline, MarkSent, Goes, AnswerInv, HandlersAgree, Changes
  <2> QED BY <2>1, <2>2
<1>4. ASSUME NEW c \in Commands, NothingToSend(c) \/ SendFails(c) \/ CallTimer(c) PROVE Rest'
  <2>0. UNCHANGED <<row, did, frames>> /\ pending' \subseteq pending
        /\ \E e \in {"noTransaction", "unsent", "expired"} : Ends(c, e)
    BY <1>4 DEF NothingToSend, SendFails, CallTimer
  <2>3. row[c] # "NONE" BY <1>4 DEF NothingToSend, SendFails, CallTimer, AnswerInv, SentOnce, Unsent
  <2>1. /\ SentOnce' /\ FramesAgree'
    BY <2>0, <2>3, QuietStep DEF Ends, Goes
  <2>2. HandlersAgree' /\ RowsAgree'
    BY <1>0, <2>0 DEF Ends, Goes, AnswerInv, HandlersAgree, Changes
  <2> QED BY <2>1, <2>2
<1>5. ASSUME NEW c \in Commands, Send(c) PROVE Rest'
  <2> DEFINE sent == [kind |-> "call", of |-> c, on |-> registered]
  <2>1. /\ frames' = frames \union {sent} /\ pending' = pending \union {c}
        /\ at' = [at EXCEPT ![c] = "calling"] /\ UNCHANGED <<row, out, did>>
    BY <1>5 DEF Send, Goes
  <2>2. Unsent(c) /\ row[c] # "NONE" BY <1>5 DEF Send, AnswerInv, SentOnce
  <2>3. SentOnce' BY <2>1, <2>2 DEF AnswerInv, SentOnce, Unsent
  <2>4. FramesAgree' BY <2>1, <2>2 DEF AnswerInv, FramesAgree, Unsent
  <2>5. HandlersAgree' /\ RowsAgree' BY <1>0, <2>1 DEF AnswerInv, HandlersAgree, Changes
  <2> QED BY <2>3, <2>4, <2>5
<1>6. ASSUME NEW c \in Commands, RecordError(c) \/ RecordAnswer(c) \/ WriteConnector(c) PROVE Rest'
  <2>1. /\ SentOnce' /\ FramesAgree'
    BY <1>6, QuietStep DEF RecordError, RecordAnswer, WriteConnector, Goes, AnswerInv, SentOnce
  <2>2. RowsAgree'
    BY <1>0, <1>6 DEF RecordError, RecordAnswer, WriteConnector, AnswerInv, HandlersAgree
  <2>3. HandlersAgree'
    BY <1>6 DEF RecordError, RecordAnswer, WriteConnector, Goes, Forgets, AnswerInv, HandlersAgree, Changes
  <2> QED BY <2>1, <2>2, <2>3
<1>7. ASSUME NEW f \in frames, Receive(f) PROVE Rest'
  <2>0. f \in Frame /\ f.kind \in Replies /\ did[f.of] = f.kind
    BY <1>7 DEF Receive, AnswerInv, FramesAgree, Frame
  <2>1. CASE UNCHANGED <<pending, out, at>>
    <3>1. SentOnce' /\ FramesAgree' BY <1>7, <2>1, QuietStep DEF Receive
    <3> QED BY <1>0, <1>7, <2>1, <3>1 DEF Receive, AnswerInv, HandlersAgree, Changes
  <2>2. CASE f.of \in pending /\ pending' = pending \ {f.of} /\ Ends(f.of, f.kind)
    <3>1. row[f.of] # "NONE" BY <2>2 DEF AnswerInv, SentOnce, Unsent
    <3>2. SentOnce' /\ FramesAgree' BY <1>7, <2>2, <3>1, QuietStep DEF Receive, Ends, Goes
    <3>3. HandlersAgree' /\ RowsAgree'
      BY <1>0, <1>7, <2>0, <2>2 DEF Receive, Ends, Goes, AnswerInv, HandlersAgree, Changes
    <3> QED BY <3>2, <3>3
  <2> QED BY <1>7, <2>1, <2>2 DEF Receive, Match
<1>8. ASSUME NEW f \in frames, NEW reply \in Replies, Answer(f, reply) PROVE Rest'
  <2> DEFINE answer == [f EXCEPT !.kind = reply]
  <2>0. /\ f \in Frame /\ f.kind = "call" /\ f.of \in Commands /\ did[f.of] = "none"
        /\ answer.of = f.of /\ answer.kind = reply /\ reply # "call"
    BY <1>8 DEF Answer, AnswerInv, FramesAgree, Frame, Replies
  <2>1. /\ frames' = (frames \ {f}) \union {answer} /\ did' = [did EXCEPT ![f.of] = reply]
        /\ UNCHANGED <<row, at, out, pending>>
    BY <1>8 DEF Answer, cmdVars
  <2>2. \A g \in frames \ {f} : g.of # f.of BY DEF AnswerInv, SentOnce
  <2>3. SentOnce'
    <3>1. ASSUME NEW c \in Commands, at'[c] \in {"none", "queued", "sent"} PROVE Unsent(c)'
      <4>1. Unsent(c) BY <2>1, <3>1 DEF AnswerInv, SentOnce
      <4>2. c # f.of BY <4>1 DEF Unsent
      <4> QED BY <2>0, <2>1, <4>1, <4>2 DEF Unsent
    <3>2. ASSUME NEW g \in frames', NEW h \in frames', g.of = h.of PROVE g = h
      <4> HIDE DEF answer
      <4>1. CASE g = answer /\ h = answer BY <4>1
      <4>2. CASE g # answer /\ h # answer BY <2>1, <3>2, <4>2 DEF AnswerInv, SentOnce
      <4>3. CASE g = answer /\ h # answer BY <2>0, <2>1, <2>2, <3>2, <4>3
      <4>4. CASE g # answer /\ h = answer BY <2>0, <2>1, <2>2, <3>2, <4>4
      <4> QED BY <4>1, <4>2, <4>3, <4>4
    <3> QED BY <2>1, <3>1, <3>2 DEF AnswerInv, SentOnce
  <2>4. FramesAgree'
    <3> SUFFICES ASSUME NEW g \in frames'
                 PROVE  IF g.kind = "call" THEN did'[g.of] = "none" ELSE did'[g.of] = g.kind
      BY DEF FramesAgree
    <3>1. CASE g = answer BY <2>0, <2>1, <3>1
    <3>2. CASE g \in frames \ {f}
      <4>1. did'[g.of] = did[g.of] BY <2>1, <2>2, <3>2
      <4> QED BY <3>2, <4>1 DEF AnswerInv, FramesAgree
    <3> QED BY <2>1, <3>1, <3>2
  <2>5. HandlersAgree' /\ RowsAgree'
    BY <1>0, <2>0, <2>1 DEF AnswerInv, HandlersAgree, Changes
  <2> QED BY <2>3, <2>4, <2>5
<1>9. ASSUME Expire PROVE Rest'
  <2>1. SentOnce' /\ FramesAgree' BY <1>9, QuietStep DEF Expire
  <2>2. HandlersAgree' /\ RowsAgree' BY <1>0, <1>9 DEF Expire, AnswerInv, HandlersAgree, Changes
  <2> QED BY <2>1, <2>2
<1>10. ASSUME LinkStep \/ UNCHANGED vars PROVE Rest'
  <2>1. UNCHANGED <<row, at, out, pending, frames, did>> BY <1>10 DEF LinkStep, cmdVars, vars
  <2>2. SentOnce' /\ FramesAgree' BY <2>1, QuietStep
  <2> QED BY <1>0, <2>1, <2>2 DEF AnswerInv, HandlersAgree, Changes
<1>11. ASSUME NEW k \in Sockets, Close(k) PROVE Rest'
  <2>1. UNCHANGED <<row, at, out, pending, did>> /\ frames' \subseteq frames BY <1>11 DEF Close, cmdVars
  <2>2. SentOnce' /\ FramesAgree' BY <2>1, QuietStep
  <2> QED BY <1>0, <2>1, <2>2 DEF AnswerInv, HandlersAgree, Changes
<1>12. ASSUME Crash PROVE Rest'
  <2>1. SentOnce' /\ FramesAgree' BY <1>12, QuietStep DEF Crash
  <2>2. HandlersAgree' /\ RowsAgree' BY <1>0, <1>12 DEF Crash, HandlersAgree
  <2> QED BY <2>1, <2>2
<1>13. Rest'
  BY <1>2, <1>3, <1>4, <1>5, <1>6, <1>7, <1>8, <1>9, <1>10, <1>11, <1>12 DEF Next, HandlerStep
<1> QED BY <1>1, <1>13 DEF AnswerInv, AnswersAreTheEquipments

LEMMA AnswerStart == Init => AnswerInv
  BY DEF Init, LinkInit, AnswerInv, SentOnce, Unsent, FramesAgree, HandlersAgree, AnswersAreTheEquipments

\* A record never says of an answer what the charge point did not do, and a connector is not
\* taken out of service before it agreed: an answer finds its own call by its identifier or none.
THEOREM AnswersAreTrue == Spec => []AnswersAreTheEquipments
<1>1. TypeOK /\ AnswerInv /\ [Next]_vars => AnswerInv' BY AnswerStep
<1>2. AnswerInv => AnswersAreTheEquipments BY DEF AnswerInv
<1> QED BY <1>1, <1>2, AnswerStart, TypeCorrect, PTL DEF Spec

----------------------------------------------------------------------------
(* The refinement of Dispatch *)

\* A call that is awaited has its timer, and none has one that is not.
TimersInv == \A c \in Commands : c \in pending <=> at[c] = "calling"

\* How far a handler has come says what its record is; a record that was never SENT belongs to a
\* command that was never under way.
RowsInv ==
  \A c \in Commands :
    /\ at[c] = "none" => row[c] = "NONE"
    /\ at[c] = "queued" => row[c] = "QUEUED"
    /\ at[c] \in {"sent", "calling"} => row[c] = "SENT"
    /\ at[c] = "ended" => row[c] \in {"SENT", "TIMEOUT"}
    /\ at[c] = "recorded" => row[c] = "ACCEPTED"
    /\ row[c] \in {"NONE", "QUEUED"} => Unsent(c)

DispatchInv == TypeOK /\ AnswerInv /\ TimersInv /\ RowsInv

\* A step that leaves handlers alone keeps their part, if it sends nothing and settles only what
\* was sent.
LEMMA HandlersIdle ==
  ASSUME DispatchInv, UNCHANGED <<row, at, pending>>,
         \A c \in Commands : did'[c] = did[c] \/ row[c] \notin {"NONE", "QUEUED"},
         \A f \in frames' : f \in frames \/ row[f.of] \notin {"NONE", "QUEUED"}
  PROVE  TimersInv' /\ RowsInv'
  BY DEF DispatchInv, TimersInv, RowsInv, Unsent

\* The step of one handler keeps its part, if it sends nothing from a record that does not say so.
LEMMA HandlerMoves ==
  ASSUME DispatchInv, UNCHANGED did, NEW c \in Commands,
         \A b \in Commands \ {c} : UNCHANGED <<row[b], at[b], b \in pending>>,
         \A f \in frames' : f \in frames \/ f.of = c,
         c \in pending' <=> at'[c] = "calling",
         at'[c] \in {"none", "recorded"} => FALSE,
         at'[c] = "queued" => row'[c] = "QUEUED",
         at'[c] \in {"sent", "calling"} => row'[c] = "SENT",
         at'[c] = "ended" => row'[c] \in {"SENT", "TIMEOUT"},
         row'[c] \in {"NONE", "QUEUED"} => Unsent(c)'
  PROVE  TimersInv' /\ RowsInv'
  BY DEF DispatchInv, TimersInv, RowsInv, Unsent

LEMMA DispatchStep == DispatchInv /\ [Next]_vars => TimersInv' /\ RowsInv'
<1> SUFFICES ASSUME DispatchInv, [Next]_vars PROVE TimersInv' /\ RowsInv'
  OBVIOUS
<1> USE DEF TypeOK
<1>0. /\ row \in [Commands -> CommandStatus \union {"NONE"}]
      /\ at \in [Commands -> {"none", "queued", "sent", "calling", "ended", "recorded", "done"}]
      /\ pending \subseteq Commands
      /\ \A f \in frames : f.of \in Commands /\ row[f.of] \notin {"NONE", "QUEUED"}
  BY DEF DispatchInv, RowsInv, Unsent, Frame
<1>1. ASSUME NEW c \in Commands, Request(c) PROVE TimersInv' /\ RowsInv'
  <2>1. /\ row' = [row EXCEPT ![c] = "QUEUED"] /\ at' = [at EXCEPT ![c] = "queued"]
        /\ UNCHANGED <<pending, frames, did>> /\ row[c] = "NONE"
    BY <1>1 DEF Request, Goes
  <2>2. Unsent(c) /\ Unsent(c)' BY <2>1 DEF DispatchInv, RowsInv, Unsent
  <2> QED BY <1>0, <2>1, <2>2, HandlerMoves DEF Unsent
<1>2. ASSUME NEW c \in Commands, RefuseOffline(c) \/ MarkSent(c) PROVE TimersInv' /\ RowsInv'
  <2>1. /\ \/ row' = [row EXCEPT ![c] = "FAILED"] /\ at' = [at EXCEPT ![c] = "done"]
           \/ row' = [row EXCEPT ![c] = "SENT"] /\ at' = [at EXCEPT ![c] = "sent"]
        /\ UNCHANGED <<pending, frames, did>> /\ at[c] = "queued"
    BY <1>2 DEF RefuseOffline, MarkSent, Goes
  <2>2. c \notin pending BY <2>1 DEF DispatchInv, TimersInv
  <2> QED BY <1>0, <2>1, <2>2, HandlerMoves
<1>3. ASSUME NEW c \in Commands, NothingToSend(c) \/ SendFails(c) \/ CallTimer(c)
      PROVE  TimersInv' /\ RowsInv'
  <2>1. /\ UNCHANGED <<row, did, frames>> /\ at' = [at EXCEPT ![c] = "ended"]
        /\ pending' = pending \ {c} /\ row[c] = "SENT"
    BY <1>3, <1>0 DEF NothingToSend, SendFails, CallTimer, Ends, Goes, DispatchInv, TimersInv, RowsInv
  <2> QED BY <1>0, <2>1, HandlerMoves
<1>4. ASSUME NEW c \in Commands, Send(c) PROVE TimersInv' /\ RowsInv'
  <2>1. /\ \A f \in frames' : f \in frames \/ f.of = c
        /\ pending' = pending \union {c} /\ at' = [at EXCEPT ![c] = "calling"]
        /\ UNCHANGED <<row, did>> /\ row[c] = "SENT"
    BY <1>4 DEF Send, Goes, DispatchInv, RowsInv
  <2> QED BY <1>0, <2>1, HandlerMoves
<1>5. ASSUME NEW c \in Commands, RecordError(c) \/ WriteConnector(c) PROVE TimersInv' /\ RowsInv'
  <2>1. /\ row' = [row EXCEPT ![c] = row'[c]] /\ row'[c] \notin {"NONE", "QUEUED"}
        /\ at' = [at EXCEPT ![c] = "done"]
        /\ UNCHANGED <<pending, frames, did>> /\ at[c] # "calling"
    BY <1>0, <1>5 DEF RecordError, WriteConnector, Goes, DispatchInv, RowsInv
  <2>2. c \notin pending BY <2>1 DEF DispatchInv, TimersInv
  <2> QED BY <1>0, <2>1, <2>2, HandlerMoves
<1>6. ASSUME NEW c \in Commands, RecordAnswer(c) PROVE TimersInv' /\ RowsInv'
  <2>1. /\ UNCHANGED <<pending, frames, did>> /\ at[c] = "ended"
        /\ row' = [row EXCEPT ![c] = IF out[c] = "accepted" THEN "ACCEPTED" ELSE "REJECTED"]
        /\ at' = [at EXCEPT ![c] = IF out[c] = "accepted" /\ Changes(c) THEN "recorded" ELSE "done"]
    BY <1>6 DEF RecordAnswer, Goes
  <2> QED BY <1>0, <2>1 DEF DispatchInv, TimersInv, RowsInv, Unsent
<1>7. ASSUME NEW f \in frames, Receive(f) PROVE TimersInv' /\ RowsInv'
  <2>1. UNCHANGED <<row, did>> /\ frames' \subseteq frames BY <1>7 DEF Receive
  <2>2. CASE UNCHANGED <<pending, at>> BY <2>1, <2>2, HandlersIdle
  <2>3. CASE f.of \in pending /\ pending' = pending \ {f.of} /\ Ends(f.of, f.kind)
    <3>1. row[f.of] = "SENT" BY <1>0, <2>3 DEF DispatchInv, TimersInv, RowsInv
    <3> QED BY <1>0, <2>1, <2>3, <3>1, HandlerMoves DEF Ends, Goes
  <2> QED BY <1>7, <2>2, <2>3 DEF Receive, Match
<1>8. ASSUME NEW f \in frames, NEW reply \in Replies, Answer(f, reply) PROVE TimersInv' /\ RowsInv'
  <2>1. /\ UNCHANGED <<row, at, pending>> /\ did' = [did EXCEPT ![f.of] = reply]
        /\ \A g \in frames' : g \in frames \/ g.of = f.of
    BY <1>8 DEF Answer, cmdVars, DispatchInv, Frame
  <2> QED BY <1>0, <2>1, HandlersIdle DEF DispatchInv
<1>9. CASE Expire
  BY <1>0, <1>9 DEF Expire, Overdue, DispatchInv, TimersInv, RowsInv, Unsent
<1>10. CASE LinkStep \/ UNCHANGED vars
  BY <1>10, HandlersIdle DEF LinkStep, vars, cmdVars
<1>11. ASSUME NEW k \in Sockets, Close(k) PROVE TimersInv' /\ RowsInv'
  BY <1>11, HandlersIdle DEF Close, cmdVars
<1>12. CASE Crash
  BY <1>0, <1>12 DEF Crash, DispatchInv, TimersInv, RowsInv, Unsent
<1> QED
  BY <1>1, <1>2, <1>3, <1>4, <1>5, <1>6, <1>7, <1>8, <1>9, <1>10, <1>11, <1>12 DEF Next, HandlerStep

\* The inductive invariant behind the refinement.
LEMMA DispatchInvariance == Spec => []DispatchInv
<1>1. Init => DispatchInv
  <2>1. Init => TimersInv /\ RowsInv BY DEF Init, TimersInv, RowsInv, Unsent
  <2> QED BY <2>1, TypeStart, AnswerStart DEF DispatchInv
<1>2. DispatchInv /\ [Next]_vars => DispatchInv'
  BY TypeStep, AnswerStep, DispatchStep DEF DispatchInv
<1> QED BY <1>1, <1>2, PTL DEF Spec

\* Every call that is awaited still has its timer, in every state: that is the safety half of
\* SentSettles, whose other half is that timers fire.
THEOREM AwaitedCallsHaveTimers == Spec => []TimersInv
<1>1. DispatchInv => TimersInv BY DEF DispatchInv
<1> QED BY <1>1, DispatchInvariance, PTL

\* The handling of commands implements Dispatch: for whoever reads the records, every step of a
\* handler, a timer, an answer, the scheduler, a socket or a crash is one that Dispatch allows.
THEOREM CommandsImplementDispatch == Spec => ImplementsDispatch
<1>1. Init => DispatchOf!Init BY DEF Init, LinkInit, DispatchOf!Init
<1>2. DispatchInv /\ [Next]_vars => [DispatchOf!Next]_(DispatchOf!vars)
  <2> SUFFICES ASSUME DispatchInv, [Next]_vars PROVE DispatchOf!Next \/ UNCHANGED DispatchOf!vars
    OBVIOUS
  <2> USE DEF DispatchInv, TypeOK
  <2>1. ASSUME NEW c \in Commands, Request(c) PROVE DispatchOf!Queue(c)
    BY <2>1 DEF Request, linkVars, DispatchOf!Queue, DispatchOf!Moves
  <2>2. ASSUME NEW c \in Commands, RefuseOffline(c) PROVE DispatchOf!Refuse(c)
    BY <2>2 DEF RefuseOffline, linkVars, RowsInv, DispatchOf!Refuse, DispatchOf!Moves
  <2>3. ASSUME NEW c \in Commands, MarkSent(c) PROVE DispatchOf!Send(c)
    BY <2>3 DEF MarkSent, linkVars, RowsInv, DispatchOf!Send, DispatchOf!Moves
  <2>4. ASSUME NEW c \in Commands, NothingToSend(c) \/ Send(c) \/ SendFails(c) \/ CallTimer(c)
        PROVE  UNCHANGED DispatchOf!vars
    BY <2>4 DEF NothingToSend, Send, SendFails, CallTimer, linkVars, DispatchOf!vars
  <2>5. ASSUME NEW c \in Commands, RecordError(c) PROVE DispatchOf!Fail(c)
    BY <2>5 DEF RecordError, linkVars, RowsInv, DispatchOf!Fail, DispatchOf!Undecided, DispatchOf!Moves
  <2>6. ASSUME NEW c \in Commands, RecordAnswer(c) PROVE DispatchOf!Accept(c) \/ DispatchOf!Reject(c)
    <3>1. row[c] \in {"SENT", "TIMEOUT"} /\ did[c] = out[c] /\ out[c] \in {"accepted", "rejected"}
      BY <2>6 DEF RecordAnswer, RowsInv, AnswerInv, HandlersAgree
    <3> QED BY <2>6, <3>1 DEF RecordAnswer, linkVars, DispatchOf!Accept, DispatchOf!Reject,
          DispatchOf!Undecided, DispatchOf!Moves
  <2>7. ASSUME NEW c \in Commands, WriteConnector(c) PROVE DispatchOf!TakeOut(c) \/ DispatchOf!PutBack
    <3>1. row[c] = "ACCEPTED" /\ did[c] = "accepted" /\ UNCHANGED <<row, did>>
      BY <2>7 DEF WriteConnector, RowsInv, AnswerInv, HandlersAgree
    <3>2. CASE Ask[c] = "Inoperative"
      BY <2>7, <3>1, <3>2 DEF WriteConnector, Told, DispatchOf!TakeOut
    <3>3. CASE Ask[c] # "Inoperative"
      BY <2>7, <3>1, <3>3 DEF WriteConnector, Told, DispatchOf!PutBack
    <3> QED BY <3>2, <3>3
  <2>8. ASSUME NEW f \in frames, Receive(f) PROVE UNCHANGED DispatchOf!vars
    BY <2>8 DEF Receive, linkVars, DispatchOf!vars
  <2>9. ASSUME NEW f \in frames, NEW reply \in Replies, Answer(f, reply)
        PROVE  \E c \in Commands : DispatchOf!Execute(c, reply)
    <3>1. PICK c \in Commands : c = f.of BY DEF Frame
    <3>2. did[c] = "none" /\ did' = [did EXCEPT ![c] = reply] /\ UNCHANGED <<row, connector>>
      BY <2>9, <3>1 DEF Answer, linkVars, cmdVars, AnswerInv, FramesAgree
    <3>3. row[c] \notin {"NONE", "QUEUED"} BY <3>1 DEF RowsInv, Unsent
    <3>4. row[c] \notin {"ACCEPTED", "REJECTED"}
      BY <3>2 DEF AnswerInv, AnswersAreTheEquipments
    <3> QED BY <3>2, <3>3, <3>4 DEF DispatchOf!Execute, CommandStatus
  <2>10. CASE Expire
    <3>1. row' = [c \in Commands |-> IF Overdue(c) THEN "TIMEOUT" ELSE row[c]] /\ UNCHANGED <<did, connector>>
      BY <2>10 DEF Expire, linkVars
    <3>2. \A c \in Commands : row'[c] = row[c] \/ (row[c] = "SENT" /\ row'[c] = "TIMEOUT")
      BY <3>1 DEF Overdue
    <3>3. row' = [c \in Commands |-> row'[c]] BY <3>1
    <3>4. DispatchOf!GiveUp BY <3>1, <3>2, <3>3 DEF DispatchOf!GiveUp
    <3> QED BY <3>4 DEF DispatchOf!Next
  <2>11. CASE LinkStep \/ Crash \/ (\E k \in Sockets : Close(k)) \/ UNCHANGED vars
    <3>1. UNCHANGED <<row, did>> BY <2>11 DEF LinkStep, Crash, Close, cmdVars, vars
    <3>2. connector' \in {connector, "AVAILABLE"}
      BY <2>11 DEF LinkStep, Crash, Close, vars, linkVars, Connect, LoseLink, SocketClosed, BootReceived,
         Silence, BootStep, BootCharger, BootConnectors, SweepStep, SweepSocket, SweepNoSocket,
         SweepRows, SweepCheck, MarkOfflineRead, MarkOfflineWrite, LinkCrash
    <3> QED BY <3>1, <3>2 DEF DispatchOf!Next, DispatchOf!PutBack, DispatchOf!vars
  <2> QED
    BY <2>1, <2>2, <2>3, <2>4, <2>5, <2>6, <2>7, <2>8, <2>9, <2>10, <2>11
    DEF Next, HandlerStep, DispatchOf!Next
<1> QED BY <1>1, <1>2, DispatchInvariance, PTL DEF Spec, ImplementsDispatch, DispatchOf!Spec

----------------------------------------------------------------------------
(* Operations: type correctness *)

\* The scheduler composes with the sockets by the very actions that ChargerCommands composes with.
LEMMA OpsLink ==
  ASSUME [Ops!Next]_Ops!vars
  PROVE  \/ LinkNext
         \/ /\ UNCHANGED <<socket, linked, registered, heard, charger, sweep, boot, boots, faults>>
            /\ \/ UNCHANGED connector
               \/ \E x \in Windows \union {Tick} : Ops!CommandAccepted(x)
<1>1. Ops!LinkStep => LinkNext
  BY DEF Ops!LinkStep, LinkNext, Ops!Connect, Connect, Ops!Registered, Registered, Ops!IsLinked, IsLinked,
         Ops!LoseLink, LoseLink, Ops!SocketClosed, SocketClosed, Ops!Unregistered, Unregistered,
         Ops!BootReceived, BootReceived, Ops!Silence, Silence, Ops!BootStep, BootStep, Ops!BootCharger,
         BootCharger, Ops!BootConnectors, BootConnectors, Ops!SweepStep, SweepStep, Ops!SweepSocket,
         SweepSocket, Ops!Silent, Silent, Ops!SweepNoSocket, SweepNoSocket, Ops!SweepRows, SweepRows,
         Ops!SweepCheck, SweepCheck, Ops!IsOnline, IsOnline, Ops!MarkOfflineRead, MarkOfflineRead,
         Ops!Marked, Marked, Ops!MarkOfflineWrite, MarkOfflineWrite
<1>2. Ops!Crash => LinkNext BY DEF Ops!Crash, Ops!LinkCrash, LinkCrash, LinkNext
<1> QED
  BY <1>1, <1>2
  DEF Ops!Next, Ops!vars, Ops!linkVars, Ops!TickStep, Ops!Begin, Ops!HealthRead, Ops!HealthWrite, Ops!OpenLook,
      Ops!OpenCreate, Ops!ResolveLook, Ops!ResolveWrite, Ops!DueList, Ops!EndingList, Ops!Finish,
      Ops!Activate, Ops!Complete, Ops!CommandStep, Ops!CommandAccepted, Ops!CommandFails, Ops!Acknowledge,
      Ops!Resolve, Ops!CloseStation, Ops!OpenStation, Ops!Create, Ops!CreateActivate, Ops!Cancel, Ops!Later

\* What a tick, a request, a command or a crash leaves to be shown of the scheduler's own state.
OpsStates == {"idle", "health", "healthWrite", "stale", "create", "recovered", "resolve", "due",
              "insert", "activate", "complete", "command"}
Healths   == {"OPERATING", "OFFLINE", "MAINTENANCE"}
Rows      == /\ station \in {"ACTIVE", "MAINTENANCE"}
             /\ health \in Healths /\ seen \in Healths
             /\ keyed \in {"OPEN", "ACKNOWLEDGED", "none"} /\ stray \in BOOLEAN
             /\ handled \in 0..MaxHandled
Plans     == /\ window \in [Windows -> {"NONE", "SCHEDULED", "ACTIVE", "COMPLETED", "CANCELLED"}]
             /\ phase \in [Windows -> {"before", "during", "after"}]
             /\ opsAt \in [Windows \union {Tick} -> OpsStates]
             /\ list \in SUBSET Windows
             /\ sends \in [Windows \union {Tick} -> [of : Windows \union {"none"},
                                                    to : {"none", "AVAILABLE", "UNAVAILABLE"}]]

LEMMA OpsTypes == Ops!TypeOK <=> LinkTypeOK /\ Rows /\ Plans
  BY DEF Ops!TypeOK, Ops!LinkTypeOK, LinkTypeOK, Rows, Healths, Plans, OpsStates, Ops!Live

\* A command under way concerns a window that has begun, and asks for one of two things; so does
\* a request that has inserted its window and is about to activate it.
Sending ==
  /\ \A w \in Windows : opsAt[w] = "insert" =>
       window[w] \notin {"NONE", "SCHEDULED"} /\ phase[w] # "before"
  /\ \A x \in Windows \union {Tick} : opsAt[x] = "command" =>
       /\ sends[x].of \in Windows /\ sends[x].to \in {"AVAILABLE", "UNAVAILABLE"}
       /\ window[sends[x].of] \notin {"NONE", "SCHEDULED"} /\ phase[sends[x].of] # "before"

\* What the tick has listed is still due, and what it is about to complete has passed.
Listed ==
  /\ \A w \in list : phase[w] # "before"
  /\ opsAt[Tick] = "complete" \/ (opsAt[Tick] = "command" /\ sends[Tick].to = "AVAILABLE") =>
       \A w \in list : phase[w] = "after"

\* Between the look for an incident's key and the row that takes it, nobody else takes it.
KeyIsFree == opsAt[Tick] = "create" => keyed = "none"

OpsInv == Ops!TypeOK /\ Sending /\ Listed /\ KeyIsFree /\ WindowsInTime

LEMMA OpsTypeStep ==
  ASSUME Tick \notin Windows, MaxHandled \in Nat, OpsInv, [Ops!Next]_Ops!vars
  PROVE  Ops!TypeOK'
<1>0. LinkTypeOK /\ Rows /\ Plans /\ Sending BY OpsTypes DEF OpsInv
<1>1. LinkTypeOK'
  <2>1. CASE LinkNext BY <1>0, <2>1, LinkTypeStep
  <2>2. ASSUME NEW x \in Windows \union {Tick}, Ops!CommandAccepted(x)
        PROVE  connector' \in {"AVAILABLE", "UNAVAILABLE"}
    BY <2>2, <1>0 DEF Ops!CommandAccepted, Sending
  <2> QED BY <1>0, <2>1, <2>2, OpsLink DEF LinkTypeOK
<1>2. ASSUME Ops!Begin \/ Ops!HealthRead \/ Ops!OpenLook \/ Ops!ResolveLook PROVE Rows' /\ Plans'
  <2>1. CASE Ops!Begin \/ Ops!OpenLook \/ Ops!ResolveLook
    BY <1>0, <2>1 DEF Rows, Plans, OpsStates, Ops!Goes, Ops!Begin, Ops!OpenLook, Ops!ResolveLook, Ops!desk
  <2>2. CASE Ops!HealthRead
    <3>1. \A offline : Ops!Health(offline) \in Healths BY DEF Ops!Health, Healths
    <3>2. seen' \in Healths BY <2>2, <3>1 DEF Ops!HealthRead
    <3> QED BY <1>0, <2>2, <3>2 DEF Rows, Plans, OpsStates, Ops!Goes, Ops!HealthRead, Ops!desk
  <2> QED BY <1>2, <2>1, <2>2
<1>3. ASSUME Ops!HealthWrite \/ Ops!OpenCreate \/ Ops!ResolveWrite \/ Ops!Finish PROVE Rows' /\ Plans'
  <2>1. CASE Ops!OpenCreate \/ Ops!ResolveWrite \/ Ops!Finish
    <3>1. stray' \in BOOLEAN
      BY <1>0, <2>1, Zenon DEF Rows, Ops!OpenCreate, Ops!ResolveWrite, Ops!Finish, Ops!desk
    <3>2. /\ keyed' \in {"OPEN", "ACKNOWLEDGED", "none"}
          /\ UNCHANGED <<station, health, handled, window, phase, seen, list, sends>>
      BY <1>0, <2>1 DEF Rows, Ops!OpenCreate, Ops!ResolveWrite, Ops!Finish, Ops!desk
    <3>3. opsAt' \in [Windows \union {Tick} -> OpsStates]
      BY <1>0, <2>1 DEF Plans, OpsStates, Ops!Goes, Ops!OpenCreate, Ops!ResolveWrite, Ops!Finish
    <3> QED BY <1>0, <3>1, <3>2, <3>3 DEF Rows, Plans
  <2>2. CASE Ops!HealthWrite
    <3>1. health' \in Healths /\ seen' \in Healths BY <1>0, <2>2 DEF Ops!HealthWrite, Rows, Healths
    <3> QED BY <1>0, <2>2, <3>1 DEF Rows, Plans, OpsStates, Ops!Goes, Ops!HealthWrite, Ops!desk
  <2> QED BY <1>3, <2>1, <2>2
<1>4. ASSUME Ops!Acknowledge \/ Ops!Resolve \/ Ops!CloseStation \/ Ops!OpenStation
      PROVE  Rows' /\ Plans'
  <2>1. handled' \in 0..MaxHandled
    BY <1>0, <1>4 DEF Rows, Ops!Acknowledge, Ops!Resolve, Ops!CloseStation, Ops!OpenStation, Ops!Handle
  <2>2. stray' \in BOOLEAN
    BY <1>0, <1>4, Zenon DEF Rows, Ops!Acknowledge, Ops!Resolve, Ops!CloseStation, Ops!OpenStation
  <2>3. /\ station' \in {"ACTIVE", "MAINTENANCE"} /\ keyed' \in {"OPEN", "ACKNOWLEDGED", "none"}
        /\ UNCHANGED <<health, window, phase, opsAt, seen, list, sends>>
    BY <1>0, <1>4 DEF Rows, Ops!Acknowledge, Ops!Resolve, Ops!CloseStation, Ops!OpenStation
  <2> QED BY <1>0, <2>1, <2>2, <2>3 DEF Rows, Plans
<1>5. ASSUME Ops!DueList \/ Ops!EndingList PROVE Rows' /\ Plans'
  BY <1>0, <1>5 DEF Rows, Plans, OpsStates, Ops!Goes, Ops!DueList, Ops!EndingList, Ops!Lists, Ops!desk
<1>6. ASSUME NEW x \in Windows \union {Tick}, NEW w \in Windows, NEW status \in {"ACTIVE", "COMPLETED"},
             NEW to \in {"AVAILABLE", "UNAVAILABLE"}, Ops!Sets(x, w, status, to), UNCHANGED <<phase, list>>
      PROVE  Plans'
  BY <1>0, <1>6 DEF Plans, OpsStates, Ops!Goes, Ops!Sets
<1>7. ASSUME NEW w \in Windows, Ops!Create(w) \/ Ops!CreateActivate(w) PROVE Rows' /\ Plans'
  <2>1. CASE Ops!Create(w)
    BY <1>0, <2>1 DEF Rows, Plans, OpsStates, Ops!Goes, Ops!Create, Ops!desk
  <2>2. CASE Ops!CreateActivate(w)
    BY <1>0, <1>6, <2>2 DEF Rows, Ops!CreateActivate, Ops!desk
  <2> QED BY <1>7, <2>1, <2>2
<1>8. ASSUME NEW w \in Windows, Ops!Activate(w) \/ Ops!Complete(w) PROVE Rows' /\ Plans'
  BY <1>0, <1>6, <1>8 DEF Rows, Ops!Activate, Ops!Complete, Ops!desk
<1>9. ASSUME NEW w \in Windows, Ops!Cancel(w) \/ Ops!Later(w) PROVE Rows' /\ Plans'
  BY <1>0, <1>9 DEF Rows, Plans, Ops!Cancel, Ops!Later, Ops!desk
<1>10. ASSUME NEW x \in Windows \union {Tick}, Ops!CommandStep(x) PROVE Rows' /\ Plans'
  <2>1. Ops!Sent(x) /\ UNCHANGED <<health, keyed, Ops!desk, window, phase, seen>>
    BY <1>10 DEF Ops!CommandStep, Ops!CommandAccepted, Ops!CommandFails
  <2> QED BY <1>0, <2>1 DEF Rows, Plans, OpsStates, Ops!Goes, Ops!Sent, Ops!Idle, Ops!desk
<1>11. ASSUME Ops!Crash PROVE Rows' /\ Plans'
  BY <1>0, <1>11 DEF Rows, Healths, Plans, OpsStates, Ops!Crash, Ops!Idle, Ops!desk
<1>12. ASSUME Ops!LinkStep \/ UNCHANGED Ops!vars PROVE Rows' /\ Plans'
  BY <1>0, <1>12 DEF Rows, Plans, Ops!LinkStep, Ops!vars, Ops!opsVars, Ops!desk
<1>13. Rows' /\ Plans'
  BY <1>2, <1>3, <1>4, <1>5, <1>7, <1>8, <1>9, <1>10, <1>11, <1>12 DEF Ops!Next, Ops!TickStep
<1> QED
  BY <1>1, <1>13 DEF Ops!TypeOK, Ops!LinkTypeOK, LinkTypeOK, Rows, Healths, Plans, OpsStates, Ops!Live

----------------------------------------------------------------------------
(* Operations: maintenance windows take effect in their time *)

\* The clock goes one way, and a window that was created is never uncreated.
LEMMA OpsClock ==
  ASSUME OpsInv, [Ops!Next]_Ops!vars, NEW w \in Windows
  PROVE  /\ phase[w] # "before" => phase'[w] # "before"
         /\ phase[w] = "after" => phase'[w] = "after"
         /\ window[w] \notin {"NONE", "SCHEDULED"} => window'[w] \notin {"NONE", "SCHEDULED"}
<1> USE OpsTypes DEF OpsInv, Plans
<1>1. ASSUME NEW v \in Windows, Ops!Later(v)
      PROVE  /\ phase[w] # "before" => phase'[w] # "before"
             /\ phase[w] = "after" => phase'[w] = "after"
             /\ UNCHANGED window
  BY <1>1 DEF Ops!Later
<1>2. ASSUME NEW v \in Windows, Ops!Create(v) \/ Ops!CreateActivate(v) \/ Ops!Cancel(v)
                                \/ Ops!Activate(v) \/ Ops!Complete(v)
      PROVE  /\ window[w] \notin {"NONE", "SCHEDULED"} => window'[w] \notin {"NONE", "SCHEDULED"}
             /\ UNCHANGED phase
  BY <1>2 DEF Ops!Create, Ops!CreateActivate, Ops!Cancel, Ops!Activate, Ops!Complete, Ops!Sets
<1> QED
  BY <1>1, <1>2
  DEF Ops!Next, Ops!vars, Ops!opsVars, Ops!TickStep, Ops!Begin, Ops!HealthRead, Ops!HealthWrite, Ops!OpenLook,
      Ops!OpenCreate, Ops!ResolveLook, Ops!ResolveWrite, Ops!DueList, Ops!EndingList, Ops!Finish,
      Ops!CommandStep, Ops!CommandAccepted, Ops!CommandFails, Ops!Acknowledge, Ops!Resolve,
      Ops!CloseStation, Ops!OpenStation, Ops!LinkStep, Ops!Crash

\* A step that lists nothing, sends nothing and sets no window keeps what was true of them.
LEMMA OpsQuiet ==
  ASSUME OpsInv, [Ops!Next]_Ops!vars, UNCHANGED <<list, sends>>,
         \A x \in Windows \union {Tick} : opsAt'[x] \in {"insert", "command", "complete"} => opsAt'[x] = opsAt[x]
  PROVE  Sending' /\ Listed'
<1> USE OpsTypes DEF OpsInv, Plans
<1>1. Sending' BY OpsClock DEF Sending
<1>2. Listed' BY OpsClock DEF Listed
<1> QED BY <1>1, <1>2

LEMMA SendingStep ==
  ASSUME Tick \notin Windows, OpsInv, [Ops!Next]_Ops!vars
  PROVE  Sending' /\ Listed'
<1> USE OpsTypes DEF OpsInv
<1>1. ASSUME Ops!Begin \/ Ops!HealthRead \/ Ops!HealthWrite \/ Ops!OpenLook \/ Ops!OpenCreate
      PROVE  Sending' /\ Listed'
  BY <1>1, OpsQuiet DEF Plans, Ops!Goes, Ops!Begin, Ops!HealthRead, Ops!HealthWrite, Ops!OpenLook, Ops!OpenCreate
<1>2. ASSUME Ops!ResolveLook \/ Ops!ResolveWrite \/ Ops!Finish PROVE Sending' /\ Listed'
  BY <1>2, OpsQuiet DEF Plans, Ops!Goes, Ops!ResolveLook, Ops!ResolveWrite, Ops!Finish
<1>3. ASSUME \/ Ops!Acknowledge \/ Ops!Resolve \/ Ops!CloseStation \/ Ops!OpenStation
             \/ Ops!LinkStep \/ UNCHANGED Ops!vars
      PROVE  Sending' /\ Listed'
  BY <1>3, OpsQuiet
  DEF Ops!Acknowledge, Ops!Resolve, Ops!CloseStation, Ops!OpenStation, Ops!LinkStep, Ops!vars, Ops!opsVars
<1>4. ASSUME NEW w \in Windows, Ops!Cancel(w) \/ Ops!Later(w) PROVE Sending' /\ Listed'
  BY <1>4, OpsQuiet DEF Ops!Cancel, Ops!Later
<1>5. CASE Ops!DueList
  <2>1. Sending' BY <1>5, OpsClock DEF Plans, Sending, Ops!DueList, Ops!Lists, Ops!Goes
  <2>2. Listed' BY <1>5 DEF Plans, Listed, Ops!DueList, Ops!Lists, Ops!Goes
  <2> QED BY <2>1, <2>2
<1>6. CASE Ops!EndingList
  <2>1. Sending' BY <1>6, OpsClock DEF Plans, Sending, Ops!EndingList, Ops!Lists, Ops!Goes
  <2>2. Listed' BY <1>6 DEF Plans, Listed, Ops!EndingList, Ops!Lists, Ops!Goes
  <2> QED BY <2>1, <2>2
<1>7. ASSUME NEW x \in Windows \union {Tick}, NEW w \in Windows, NEW status \in {"ACTIVE", "COMPLETED"},
             NEW to \in {"AVAILABLE", "UNAVAILABLE"}, Ops!Sets(x, w, status, to), UNCHANGED phase,
             phase[w] # "before"
      PROVE  Sending'
  BY <1>7, OpsClock DEF Plans, Sending, Ops!Sets, Ops!Goes
<1>8. ASSUME NEW w \in Windows, Ops!Create(w) PROVE Sending' /\ Listed'
  <2>1. CASE phase[w] = "before"
    <3>1. UNCHANGED <<list, sends, opsAt>> BY <1>8, <2>1 DEF Ops!Create
    <3> QED BY <3>1, OpsQuiet
  <2>2. CASE phase[w] # "before"
    <3>1. /\ window' = [window EXCEPT ![w] = "ACTIVE"] /\ opsAt' = [opsAt EXCEPT ![w] = "insert"]
          /\ UNCHANGED <<phase, list, sends>>
      BY <1>8, <2>2 DEF Ops!Create, Ops!Goes
    <3>2. Sending' BY <2>2, <3>1, OpsClock DEF Plans, Sending
    <3>3. Listed' BY <3>1 DEF Plans, Listed
    <3> QED BY <3>2, <3>3
  <2> QED BY <2>1, <2>2
<1>13. ASSUME NEW w \in Windows, Ops!CreateActivate(w) PROVE Sending' /\ Listed'
  <2>1. Ops!Sets(w, w, "ACTIVE", "UNAVAILABLE") /\ UNCHANGED <<phase, list>> /\ phase[w] # "before"
    BY <1>13 DEF Ops!CreateActivate, Sending
  <2>2. opsAt'[Tick] = opsAt[Tick] /\ sends'[Tick] = sends[Tick]
    BY <2>1 DEF Plans, Ops!Sets, Ops!Goes
  <2>3. Listed' BY <2>1, <2>2 DEF Listed
  <2> QED BY <1>7, <2>1, <2>3
<1>9. ASSUME NEW w \in Windows, Ops!Activate(w) PROVE Sending' /\ Listed'
  <2>1. Ops!Sets(Tick, w, "ACTIVE", "UNAVAILABLE") /\ UNCHANGED <<phase, list>> /\ w \in list
    BY <1>9 DEF Ops!Activate
  <2>2. Sending' BY <1>7, <2>1 DEF Listed
  <2>3. opsAt'[Tick] = "command" /\ sends'[Tick].to = "UNAVAILABLE" BY <2>1 DEF Plans, Ops!Sets, Ops!Goes
  <2>4. Listed' BY <2>1, <2>3 DEF Listed
  <2> QED BY <2>2, <2>4
<1>10. ASSUME NEW w \in Windows, Ops!Complete(w) PROVE Sending' /\ Listed'
  <2>1. Ops!Sets(Tick, w, "COMPLETED", "AVAILABLE") /\ UNCHANGED <<phase, list>> /\ w \in list
    BY <1>10 DEF Ops!Complete
  <2>2. Sending' BY <1>7, <2>1 DEF Listed
  <2>3. Listed' BY <1>10, <2>1 DEF Listed, Ops!Complete
  <2> QED BY <2>2, <2>3
<1>11. ASSUME NEW x \in Windows \union {Tick}, Ops!CommandStep(x) PROVE Sending' /\ Listed'
  <2>1. Ops!Sent(x) /\ UNCHANGED <<window, phase>> /\ opsAt[x] = "command"
    BY <1>11 DEF Ops!CommandStep, Ops!CommandAccepted, Ops!CommandFails
  <2>2. Sending' BY <2>1 DEF Plans, Sending, Ops!Sent, Ops!Goes
  <2>3. CASE x = Tick BY <2>1, <2>3 DEF Plans, Listed, Sending, Ops!Sent, Ops!Goes
  <2>4. CASE x # Tick
    <3>1. UNCHANGED <<list, opsAt[Tick], sends[Tick]>> BY <2>1, <2>4 DEF Plans, Ops!Sent, Ops!Goes
    <3> QED BY <2>1, <2>2, <3>1 DEF Listed
  <2> QED BY <2>2, <2>3, <2>4
<1>12. CASE Ops!Crash
  BY <1>12 DEF Plans, Sending, Listed, Ops!Crash
<1> QED
  BY <1>1, <1>2, <1>3, <1>4, <1>5, <1>6, <1>8, <1>9, <1>10, <1>11, <1>12, <1>13 DEF Ops!Next, Ops!TickStep

LEMMA KeyStep ==
  ASSUME Tick \notin Windows, OpsInv, [Ops!Next]_Ops!vars
  PROVE  KeyIsFree'
<1> USE OpsTypes DEF OpsInv, Plans, KeyIsFree
<1>1. ASSUME opsAt'[Tick] = "create" => opsAt[Tick] = "create", keyed' \in {keyed, "none"} PROVE KeyIsFree'
  BY <1>1
<1>2. ASSUME Ops!Begin \/ Ops!HealthRead \/ Ops!HealthWrite \/ Ops!ResolveLook \/ Ops!ResolveWrite
      PROVE  KeyIsFree'
  BY <1>2 DEF Ops!Goes, Ops!Begin, Ops!HealthRead, Ops!HealthWrite, Ops!ResolveLook, Ops!ResolveWrite
<1>3. ASSUME Ops!OpenLook \/ Ops!OpenCreate \/ Ops!DueList \/ Ops!EndingList \/ Ops!Finish PROVE KeyIsFree'
  BY <1>3 DEF Ops!Goes, Ops!OpenLook, Ops!OpenCreate, Ops!DueList, Ops!EndingList, Ops!Lists, Ops!Finish
\* An acknowledgement of the row with the key finds it taken, so no row is about to take it.
<1>4. ASSUME Ops!Acknowledge \/ Ops!Resolve \/ Ops!CloseStation \/ Ops!OpenStation PROVE KeyIsFree'
  BY <1>4 DEF Ops!Acknowledge, Ops!Resolve, Ops!CloseStation, Ops!OpenStation
<1>5. ASSUME NEW w \in Windows, Ops!Create(w) \/ Ops!CreateActivate(w) \/ Ops!Activate(w) \/ Ops!Complete(w)
      PROVE  KeyIsFree'
  BY <1>5 DEF Ops!Create, Ops!CreateActivate, Ops!Activate, Ops!Complete, Ops!Sets, Ops!Goes
<1>6. ASSUME NEW w \in Windows, Ops!Cancel(w) \/ Ops!Later(w) PROVE KeyIsFree'
  BY <1>6 DEF Ops!Cancel, Ops!Later
<1>7. ASSUME NEW x \in Windows \union {Tick}, Ops!CommandStep(x) PROVE KeyIsFree'
  <2>1. Ops!Sent(x) /\ UNCHANGED keyed
    BY <1>7 DEF Ops!CommandStep, Ops!CommandAccepted, Ops!CommandFails
  <2> QED BY <2>1 DEF Ops!Sent, Ops!Goes
<1>8. ASSUME Ops!Crash \/ Ops!LinkStep \/ UNCHANGED Ops!vars PROVE KeyIsFree'
  BY <1>8 DEF Ops!Crash, Ops!LinkStep, Ops!vars, Ops!opsVars
<1> QED
  BY <1>2, <1>3, <1>4, <1>5, <1>6, <1>7, <1>8 DEF Ops!Next, Ops!TickStep

LEMMA WindowStep ==
  ASSUME Tick \notin Windows, OpsInv, [Ops!Next]_Ops!vars
  PROVE  WindowsInTime'
<1> USE OpsTypes DEF OpsInv
<1> DEFINE Timely(w) == /\ window[w] = "ACTIVE" => phase[w] # "before"
                        /\ window[w] = "COMPLETED" => phase[w] = "after"
           Cause(w)  == phase[w] # "before" /\ window[w] \notin {"NONE", "SCHEDULED"}
<1>1. /\ \A w \in Windows : Timely(w)
      /\ connector = "UNAVAILABLE" => \E w \in Windows : Cause(w)
  BY DEF WindowsInTime
<1>2. ASSUME NEW w \in Windows PROVE Timely(w)'
  <2>1. CASE window'[w] \in {window[w], "NONE", "SCHEDULED", "CANCELLED"} BY <1>1, <2>1, OpsClock
  <2>2. ASSUME NEW v \in Windows, Ops!Create(v) \/ Ops!CreateActivate(v) \/ Ops!Activate(v)
        PROVE  Timely(w)'
    <3>1. window' = [window EXCEPT ![v] = window'[v]]
          /\ ((window'[v] = "ACTIVE" /\ phase[v] # "before") \/ window'[v] = "SCHEDULED")
      BY <2>2 DEF Plans, Ops!Create, Ops!CreateActivate, Ops!Activate, Ops!Sets, Sending, Listed
    <3> QED BY <1>1, <3>1, OpsClock DEF Plans
  <2>3. ASSUME NEW v \in Windows, Ops!Complete(v) PROVE Timely(w)'
    <3>1. window' = [window EXCEPT ![v] = "COMPLETED"] /\ phase[v] = "after"
      BY <2>3 DEF Plans, Ops!Complete, Ops!Sets, Listed
    <3> QED BY <1>1, <3>1, OpsClock DEF Plans
  <2>4. ASSUME NEW v \in Windows, Ops!Cancel(v) PROVE window'[w] \in {window[w], "CANCELLED"}
    BY <2>4 DEF Plans, Ops!Cancel
  <2> QED
    BY <2>1, <2>2, <2>3, <2>4
    DEF Ops!Next, Ops!vars, Ops!opsVars, Ops!TickStep, Ops!Begin, Ops!HealthRead, Ops!HealthWrite, Ops!OpenLook,
        Ops!OpenCreate, Ops!ResolveLook, Ops!ResolveWrite, Ops!DueList, Ops!EndingList, Ops!Finish,
        Ops!CommandStep, Ops!CommandAccepted, Ops!CommandFails, Ops!Acknowledge, Ops!Resolve,
        Ops!CloseStation, Ops!OpenStation, Ops!LinkStep, Ops!Crash, Ops!Later
<1>3. connector' = "UNAVAILABLE" => \E w \in Windows : Cause(w)'
  <2>1. \A w \in Windows : Cause(w) => Cause(w)' BY OpsClock
  <2>2. CASE connector' \in {connector, "AVAILABLE"} BY <1>1, <2>1, <2>2
  <2>3. CASE LinkNext
    <3>1. connector' \in {connector, "AVAILABLE"}
      BY <2>3 DEF LinkNext, Connect, LoseLink, SocketClosed, BootReceived, Silence, BootStep, BootCharger,
                  BootConnectors, SweepStep, SweepSocket, SweepNoSocket, SweepRows, SweepCheck,
                  MarkOfflineRead, MarkOfflineWrite, LinkCrash
    <3> QED BY <2>2, <3>1
  <2>4. ASSUME NEW x \in Windows \union {Tick}, Ops!CommandAccepted(x) PROVE \E w \in Windows : Cause(w)'
    <3>1. sends[x].of \in Windows /\ Cause(sends[x].of) BY <2>4 DEF Sending, Ops!CommandAccepted
    <3> QED BY <2>1, <3>1
  <2> QED BY <2>2, <2>3, <2>4, OpsLink
<1> QED BY <1>2, <1>3 DEF WindowsInTime

LEMMA OpsStart ==
  ASSUME Tick \notin Windows, MaxHandled \in Nat, Ops!Init
  PROVE  OpsInv
<1>1. 0 \in 0..MaxBoots /\ 0 \in 0..MaxFaults /\ 0 \in 0..MaxHandled OBVIOUS
<1>2. LinkTypeOK BY <1>1 DEF Ops!Init, Ops!LinkInit, LinkTypeOK
<1>3. Rows /\ Plans BY <1>1 DEF Ops!Init, Ops!Idle, Rows, Healths, Plans, OpsStates
<1>4. Sending /\ Listed /\ KeyIsFree BY DEF Ops!Init, Sending, Listed, KeyIsFree
<1>5. WindowsInTime BY DEF Ops!Init, Ops!LinkInit, WindowsInTime
<1> QED BY <1>2, <1>3, <1>4, <1>5, OpsTypes DEF OpsInv

\* The inductive invariant of the scheduler.
LEMMA OpsAlways ==
  ASSUME Tick \notin Windows, MaxHandled \in Nat
  PROVE  Ops!Spec => []OpsInv
<1>1. Ops!Init => OpsInv BY OpsStart
<1>2. OpsInv /\ [Ops!Next]_Ops!vars => OpsInv'
  BY OpsTypeStep, SendingStep, KeyStep, WindowStep DEF OpsInv
<1> QED BY <1>1, <1>2, PTL DEF Ops!Spec

\* The scheduler's rows, lists and commands keep their types: no status is written that its column
\* does not know, and no command is sent that is none.
THEOREM OperationsTypeCorrect ==
  ASSUME Tick \notin Windows, MaxHandled \in Nat
  PROVE  Ops!Spec => []Ops!TypeOK
<1>1. OpsInv => Ops!TypeOK BY DEF OpsInv
<1> QED BY <1>1, OpsAlways, PTL

\* Maintenance takes effect in its time, for any number of windows whose requests, ticks,
\* cancellations and commands overlap, and whenever the process dies.
THEOREM MaintenanceInTime ==
  ASSUME Tick \notin Windows, MaxHandled \in Nat
  PROVE  Ops!Spec => []WindowsInTime
<1>1. OpsInv => WindowsInTime BY DEF OpsInv
<1> QED BY <1>1, OpsAlways, PTL

\* openOrTouch looks for the key and then inserts it, in two statements: with one scheduler the
\* unique index is never hit, whatever operators do between the two.
THEOREM IncidentKeyIsFree ==
  ASSUME Tick \notin Windows, MaxHandled \in Nat
  PROVE  Ops!Spec => []KeyIsFree
<1>1. OpsInv => KeyIsFree BY DEF OpsInv
<1> QED BY <1>1, OpsAlways, PTL

\* A connected charge point is reached under the scheduler as it is under commands.
THEOREM ConnectedIsReachedByOperations ==
  ASSUME Tick \notin Windows, MaxHandled \in Nat
  PROVE  Ops!Spec => []LinkedIsRegistered
<1>1. Ops!Init => LinkedIsRegistered BY DEF Ops!Init, Ops!LinkInit, LinkedIsRegistered
<1>2. OpsInv /\ LinkedIsRegistered /\ [Ops!Next]_Ops!vars => LinkedIsRegistered'
  <2> SUFFICES ASSUME OpsInv, LinkedIsRegistered, [Ops!Next]_Ops!vars PROVE LinkedIsRegistered'
    OBVIOUS
  <2>1. CASE LinkNext BY <2>1, LinkedStep, OpsTypes DEF OpsInv
  <2>2. CASE UNCHANGED <<socket, linked, registered>> BY <2>2 DEF LinkedIsRegistered
  <2> QED BY <2>1, <2>2, OpsLink
<1> QED BY <1>1, <1>2, OpsAlways, PTL DEF Ops!Spec
=============================================================================
