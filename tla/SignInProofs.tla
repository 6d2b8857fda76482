----------------------------- MODULE SignInProofs -----------------------------
(***************************************************************************)
(* Theorems about SignIn, for every set of calls and every number of rows  *)
(* and losses.                                                             *)
(***************************************************************************)
EXTENDS SignIn, TLAPS

TokenRow   == [status : {"NONE", "VALID", "REVOKED"}, family : 0..MaxTokens]
CallRecord == [at : {"idle", "sent", "waiting", "retrying", "clearing"},
               access : 0..MaxTokens, retry : BOOLEAN, awaits : SUBSET Calls]
RefreshRecord == [at : {"none", "started", "sent", "checked", "issued", "answered", "true", "false"},
                  old : 0..MaxTokens, new : 0..MaxTokens]

OnTheWay == {"sent", "checked", "issued", "answered"}

----------------------------------------------------------------------------
(* Type correctness *)

\* A refresh that was sent has a row to replace, and one that has issued its successor has that.
RowsKnown ==
  \A r \in Calls : /\ refresh[r].at \in OnTheWay => refresh[r].old \in Tokens
                   /\ refresh[r].at \in {"issued", "answered"} => refresh[r].new \in Tokens

TypeInv == TypeOK /\ RowsKnown

LEMMA Records ==
  /\ NoToken \in TokenRow /\ NoToken.status = "NONE"
  /\ IdleCall \in CallRecord /\ IdleCall.at = "idle"
  /\ NoRefresh \in RefreshRecord /\ NoRefresh.at = "none"
  /\ 0 \in 0..MaxTokens /\ 1 \in 0..MaxTokens /\ Tokens \subseteq 0..MaxTokens /\ 0 \notin Tokens
<1> USE SignInBounds
<1>1. 0 \in 0..MaxTokens /\ 1 \in 0..MaxTokens /\ Tokens \subseteq 0..MaxTokens /\ 0 \notin Tokens
  BY DEF Tokens
<1> QED BY <1>1 DEF NoToken, IdleCall, NoRefresh, TokenRow, CallRecord, RefreshRecord

LEMMA RevokedType ==
  ASSUME TypeOK, NEW t \in Tokens
  PROVE  FamilyRevoked(t) \in [Tokens -> TokenRow]
<1>1. ASSUME NEW u \in Tokens PROVE [token[u] EXCEPT !.status = "REVOKED"] \in TokenRow
  BY DEF TypeOK, TokenRow
<1> QED BY <1>1 DEF FamilyRevoked, TypeOK, TokenRow

\* A step of a refresh writes its record and perhaps a row.
LEMMA RefreshTypes ==
  ASSUME TypeInv, NEW r \in Calls, NEW next \in RefreshRecord,
         refresh' = [refresh EXCEPT ![r] = next],
         next.at \in OnTheWay => next.old \in Tokens,
         next.at \in {"issued", "answered"} => next.new \in Tokens
  PROVE  refresh' \in [Calls -> RefreshRecord] /\ RowsKnown'
<1> USE DEF TypeInv, TypeOK, RefreshRecord
<1>1. refresh' \in [Calls -> RefreshRecord] OBVIOUS
<1>2. RowsKnown' BY DEF RowsKnown
<1> QED BY <1>1, <1>2

LEMMA TypeStep == TypeInv /\ [Next]_vars => TypeInv'
<1> SUFFICES ASSUME TypeInv, [Next]_vars PROVE TypeInv'
  OBVIOUS
<1> USE Records, SignInBounds DEF TypeInv, TypeOK, TokenRow, CallRecord, RefreshRecord
<1>1. ASSUME NEW t \in Tokens, Login(t) PROVE TypeInv'
  <2>1. [status |-> "VALID", family |-> t] \in TokenRow OBVIOUS
  <2>2. token' \in [Tokens -> TokenRow] BY <1>1, <2>1 DEF Login
  <2>3. excused' \in BOOLEAN BY <1>1, Zenon DEF Login
  <2> QED BY <1>1, <2>2, <2>3 DEF Login, RowsKnown
<1>2. ASSUME NEW t \in Tokens, AccessExpires(t) PROVE TypeInv'
  BY <1>2 DEF AccessExpires, RowsKnown
<1>3. CASE LogoutSend BY <1>3 DEF LogoutSend, RowsKnown
<1>4. CASE LogoutEnds
  <2>1. signOut \in Tokens BY <1>4 DEF LogoutEnds, Tokens
  <2>2. token' \in [Tokens -> TokenRow] BY <1>4, <2>1, RevokedType DEF LogoutEnds
  <2> QED BY <1>4, <2>2 DEF LogoutEnds, RowsKnown
<1>5. ASSUME NEW r \in Calls, NEW next \in CallRecord, call' = [call EXCEPT ![r] = next]
      PROVE  call' \in [Calls -> CallRecord]
  BY <1>5
<1>6. ASSUME NEW r \in Calls, CallSend(r) PROVE TypeInv'
  <2>1. [IdleCall EXCEPT !.at = "sent", !.access = stored] \in CallRecord OBVIOUS
  <2>2. call' \in [Calls -> CallRecord] BY <1>5, <1>6, <2>1 DEF CallSend
  <2> QED BY <1>6, <2>2 DEF CallSend, RowsKnown
<1>7. ASSUME NEW r \in Calls, CallEnds(r) PROVE TypeInv'
  <2>2. call' \in [Calls -> CallRecord] BY <1>5, <1>7 DEF CallEnds
  <2> QED BY <1>7, <2>2 DEF CallEnds, RowsKnown
<1>8. ASSUME NEW r \in Calls, CallDenied(r) PROVE TypeInv'
  <2> DEFINE next == [call[r] EXCEPT !.at = "waiting", !.awaits = Awaited(r)]
             started == [refresh[r] EXCEPT !.at = "started"]
  <2>0. Awaited(r) \subseteq Calls BY DEF Awaited, InFlight
  <2>1. next \in CallRecord BY <2>0
  <2>2. call' = [call EXCEPT ![r] = next] BY <1>8 DEF CallDenied
  <2>3. call' \in [Calls -> CallRecord] BY <1>5, <2>1, <2>2
  <2>4. started \in RefreshRecord /\ started.at \notin OnTheWay BY DEF OnTheWay
  <2>5. refresh' = refresh \/ refresh' = [refresh EXCEPT ![r] = started] BY <1>8 DEF CallDenied
  <2>6. refresh' \in [Calls -> RefreshRecord] /\ RowsKnown'
    <3>1. CASE refresh' = refresh
      <4>1. RowsKnown' BY <3>1 DEF RowsKnown, Tokens
      <4> QED BY <3>1, <4>1
    <3>2. CASE refresh' = [refresh EXCEPT ![r] = started]
      BY <2>4, <3>2, RefreshTypes DEF OnTheWay
    <3> QED BY <2>5, <3>1, <3>2
  <2> QED BY <1>8, <2>3, <2>6 DEF CallDenied
<1>9. ASSUME NEW r \in Calls, CallRetries(r) PROVE TypeInv'
  <2>1. [IdleCall EXCEPT !.at = "sent", !.access = stored, !.retry = FALSE] \in CallRecord OBVIOUS
  <2>2. call' \in [Calls -> CallRecord] BY <1>5, <1>9, <2>1 DEF CallRetries
  <2> QED BY <1>9, <2>2 DEF CallRetries, RowsKnown
<1>10. ASSUME NEW r \in Calls, CallClears(r) PROVE TypeInv'
  <2>2. call' \in [Calls -> CallRecord] BY <1>5, <1>10 DEF CallClears
  <2> QED BY <1>10, <2>2 DEF CallClears, RowsKnown
<1>11. ASSUME NEW r \in Calls, RefreshSend(r) PROVE TypeInv'
  <2> DEFINE next == [refresh[r] EXCEPT !.at = IF stored = 0 THEN "false" ELSE "sent", !.old = stored]
  <2>0. stored # 0 => stored \in Tokens BY DEF Tokens
  <2>1. /\ next \in RefreshRecord /\ next.at \in {"false", "sent"} /\ next.old = stored
        /\ next.at = "sent" => stored # 0
    OBVIOUS
  <2>2. refresh' = [refresh EXCEPT ![r] = next] BY <1>11 DEF RefreshSend
  <2> HIDE DEF next
  <2>3. refresh' \in [Calls -> RefreshRecord] /\ RowsKnown' BY <2>0, <2>1, <2>2, RefreshTypes DEF OnTheWay
  <2> QED BY <1>11, <2>3 DEF RefreshSend
<1>12. ASSUME NEW r \in Calls, NEW to \in {"checked", "answered", "true", "false"},
              refresh' = [refresh EXCEPT ![r].at = to],
              to = "checked" => refresh[r].at = "sent",
              to = "answered" => refresh[r].at = "issued"
       PROVE  refresh' \in [Calls -> RefreshRecord] /\ RowsKnown'
  <2> DEFINE next == [refresh[r] EXCEPT !.at = to]
  <2>1. next \in RefreshRecord /\ next.at = to /\ next.old = refresh[r].old /\ next.new = refresh[r].new
    OBVIOUS
  <2>2. refresh' = [refresh EXCEPT ![r] = next] BY <1>12
  <2>3. /\ to = "checked" => refresh[r].old \in Tokens
        /\ to = "answered" => refresh[r].old \in Tokens /\ refresh[r].new \in Tokens
    BY <1>12 DEF RowsKnown, OnTheWay
  <2> HIDE DEF next
  <2> QED BY <2>1, <2>2, <2>3, RefreshTypes DEF OnTheWay
<1>13. ASSUME NEW r \in Calls, RefreshChecked(r) PROVE TypeInv'
  <2>1. refresh' \in [Calls -> RefreshRecord] /\ RowsKnown' BY <1>12, <1>13 DEF RefreshChecked
  <2> QED BY <1>13, <2>1 DEF RefreshChecked
<1>14. ASSUME NEW r \in Calls, RefreshReused(r) PROVE TypeInv'
  <2>1. refresh' \in [Calls -> RefreshRecord] /\ RowsKnown' BY <1>12, <1>14 DEF RefreshReused
  <2>2. refresh[r].old \in Tokens BY <1>14 DEF RefreshReused, RowsKnown, OnTheWay
  <2>3. token' \in [Tokens -> TokenRow] BY <1>14, <2>2, RevokedType DEF RefreshReused
  <2> QED BY <1>14, <2>1, <2>3 DEF RefreshReused
<1>15. ASSUME NEW r \in Calls, NEW t \in Tokens, RefreshIssued(r, t) PROVE TypeInv'
  <2> DEFINE next == [refresh[r] EXCEPT !.at = "issued", !.new = t]
  <2>0. refresh[r].old \in Tokens BY <1>15 DEF RefreshIssued, RowsKnown, OnTheWay
  <2>1. [status |-> "VALID", family |-> token[refresh[r].old].family] \in TokenRow BY <2>0
  <2>2. token' \in [Tokens -> TokenRow] BY <1>15, <2>1 DEF RefreshIssued
  <2>3. next \in RefreshRecord /\ next.old = refresh[r].old /\ next.new = t OBVIOUS
  <2>4. refresh' = [refresh EXCEPT ![r] = next] BY <1>15 DEF RefreshIssued
  <2> HIDE DEF next
  <2>5. refresh' \in [Calls -> RefreshRecord] /\ RowsKnown' BY <2>0, <2>3, <2>4, RefreshTypes
  <2> QED BY <1>15, <2>2, <2>5 DEF RefreshIssued
<1>16. ASSUME NEW r \in Calls, RefreshReplaced(r) PROVE TypeInv'
  <2>1. refresh' \in [Calls -> RefreshRecord] /\ RowsKnown' BY <1>12, <1>16 DEF RefreshReplaced
  <2>2. token' \in [Tokens -> TokenRow] BY <1>16 DEF RefreshReplaced
  <2> QED BY <1>16, <2>1, <2>2 DEF RefreshReplaced
<1>17. ASSUME NEW r \in Calls, RefreshStored(r) PROVE TypeInv'
  <2>1. refresh' \in [Calls -> RefreshRecord] /\ RowsKnown' BY <1>12, <1>17 DEF RefreshStored
  <2> QED BY <1>17, <2>1 DEF RefreshStored
<1>18. ASSUME NEW r \in Calls, RefreshLost(r) PROVE TypeInv'
  <2>1. refresh' \in [Calls -> RefreshRecord] /\ RowsKnown' BY <1>12, <1>18 DEF RefreshLost
  <2> QED BY <1>18, <2>1 DEF RefreshLost
<1>19. ASSUME NEW r \in Calls, RefreshSettles(r) PROVE TypeInv'
  <2>1. refresh' \in [Calls -> RefreshRecord] /\ RowsKnown'
    BY <1>19, RefreshTypes DEF RefreshSettles, OnTheWay
  <2>2. ASSUME NEW q \in Calls
        PROVE  [call[q] EXCEPT !.at = IF refresh[r].at = "true" THEN "retrying" ELSE "clearing"] \in CallRecord
    OBVIOUS
  <2>3. call' \in [Calls -> CallRecord] BY <1>19, <2>2 DEF RefreshSettles
  <2> QED BY <1>19, <2>1, <2>3 DEF RefreshSettles
<1>20. CASE UNCHANGED vars BY <1>20 DEF vars, RowsKnown
<1> QED
  BY <1>1, <1>2, <1>3, <1>4, <1>6, <1>7, <1>8, <1>9, <1>10, <1>11, <1>13, <1>14, <1>15, <1>16, <1>17,
     <1>18, <1>19, <1>20
  DEF Next

LEMMA TypeStart == Init => TypeInv
<1> SUFFICES ASSUME Init PROVE TypeInv
  OBVIOUS
<1> USE Records, SignInBounds
<1>1. [status |-> "VALID", family |-> 1] \in TokenRow BY DEF TokenRow
<1>2. token \in [Tokens -> TokenRow] BY <1>1 DEF Init
<1>3. call \in [Calls -> CallRecord] /\ refresh \in [Calls -> RefreshRecord] BY DEF Init
<1>4. RowsKnown BY DEF Init, RowsKnown, OnTheWay
<1>5. /\ lapsed \subseteq Tokens /\ stored \in 0..MaxTokens /\ signOut \in 0..MaxTokens
      /\ losses \in 0..MaxLosses /\ excused \in BOOLEAN
  <2>1. 0 \in 0..MaxLosses BY SignInBounds
  <2>2. /\ stored = 1 /\ signOut = 0 /\ losses = 0 /\ lapsed = {} /\ excused = FALSE BY DEF Init
  <2> QED BY <2>1, <2>2
<1> QED BY <1>2, <1>3, <1>4, <1>5 DEF TypeInv, TypeOK, TokenRow, CallRecord, RefreshRecord

\* Rows, the store, calls and refreshes keep their types.
THEOREM TypeCorrect == Spec => []TypeOK
<1>1. TypeInv => TypeOK BY DEF TypeInv
<1> QED BY <1>1, TypeStart, TypeStep, PTL DEF Spec

----------------------------------------------------------------------------
(* One refresh at a time *)

\* The call that has started a refresh waits for it and for no other; whoever waits waits for
\* one that is in flight; and there is one.
SingleFlight ==
  /\ \A r \in Calls : refresh[r].at # "none" => call[r].at = "waiting" /\ call[r].awaits = {r}
  /\ \A r \in Calls : call[r].at = "waiting" => \E q \in call[r].awaits : refresh[q].at # "none"
  /\ \A q, r \in Calls : refresh[q].at # "none" /\ refresh[r].at # "none" => q = r

\* What a step does to calls and refreshes, for the invariant above: nothing; a call that waits
\* for nobody goes on; a refresh goes on; a call starts or joins a refresh; a refresh settles.
LEMMA FlightMoves ==
  ASSUME TypeInv, [Next]_vars
  PROVE  \/ UNCHANGED <<call, refresh>>
         \/ \E r \in Calls : CallDenied(r) \/ RefreshSettles(r)
         \/ \E r \in Calls : /\ call[r].at # "waiting" /\ call'[r].at # "waiting"
                             /\ \A q \in Calls \ {r} : call'[q] = call[q]
                             /\ UNCHANGED refresh
         \/ \E r \in Calls : /\ refresh[r].at # "none" /\ refresh'[r].at # "none"
                             /\ \A q \in Calls \ {r} : refresh'[q] = refresh[q]
                             /\ UNCHANGED call
<1> USE DEF TypeInv, TypeOK
<1>1. ASSUME NEW r \in Calls, CallSend(r) \/ CallEnds(r) \/ CallRetries(r) \/ CallClears(r)
      PROVE  /\ call[r].at # "waiting" /\ call'[r].at # "waiting"
             /\ \A q \in Calls \ {r} : call'[q] = call[q]
             /\ UNCHANGED refresh
  <2>1. /\ [IdleCall EXCEPT !.at = "sent", !.access = stored].at = "sent"
        /\ [IdleCall EXCEPT !.at = "sent", !.access = stored, !.retry = FALSE].at = "sent"
    BY DEF IdleCall
  <2>2. CASE CallSend(r) BY <2>1, <2>2, Records DEF CallSend
  <2>3. CASE CallRetries(r) BY <2>1, <2>3 DEF CallRetries
  <2>4. CASE CallEnds(r) \/ CallClears(r) BY <2>4, Records DEF CallEnds, CallClears
  <2> QED BY <1>1, <2>2, <2>3, <2>4
<1>2. ASSUME NEW r \in Calls,
             \/ RefreshSend(r) \/ RefreshChecked(r) \/ RefreshReused(r)
             \/ (\E t \in Tokens : RefreshIssued(r, t))
             \/ RefreshReplaced(r) \/ RefreshStored(r) \/ RefreshLost(r)
      PROVE  /\ refresh[r].at # "none" /\ refresh'[r].at # "none"
             /\ \A q \in Calls \ {r} : refresh'[q] = refresh[q]
             /\ UNCHANGED call
  BY <1>2 DEF RefreshSend, RefreshChecked, RefreshReused, RefreshIssued, RefreshReplaced,
              RefreshStored, RefreshLost
<1> QED
  BY <1>1, <1>2 DEF Next, vars, Login, AccessExpires, LogoutSend, LogoutEnds

LEMMA SingleStep == TypeInv /\ SingleFlight /\ [Next]_vars => SingleFlight'
<1> SUFFICES ASSUME TypeInv, SingleFlight, [Next]_vars PROVE SingleFlight'
  OBVIOUS
<1> USE DEF TypeInv, TypeOK, SingleFlight
<1>1. ASSUME NEW r \in Calls, CallDenied(r) PROVE SingleFlight'
  <2>1. refresh[r].at = "none" /\ call[r].at = "sent" BY <1>1 DEF CallDenied
  <2>2. /\ call'[r].at = "waiting" /\ call'[r].awaits = Awaited(r)
        /\ \A q \in Calls \ {r} : call'[q] = call[q]
    BY <1>1 DEF CallDenied
  <2>3. CASE InFlight = {}
    <3>1. Awaited(r) = {r} /\ \A q \in Calls : refresh[q].at = "none" BY <2>3 DEF Awaited, InFlight
    <3>2. refresh'[r].at = "started" /\ \A q \in Calls \ {r} : refresh'[q] = refresh[q]
      BY <1>1, <3>1 DEF CallDenied
    <3>3. \A q \in Calls : refresh'[q].at # "none" => q = r BY <3>1, <3>2
    <3>4. \A q \in Calls \ {r} : call[q].at # "waiting" BY <3>1
    <3> HIDE DEF TypeOK, TypeInv
    <3> QED BY <2>2, <3>1, <3>2, <3>3, <3>4
  <2>4. CASE InFlight # {}
    <3>1. Awaited(r) = InFlight /\ r \notin InFlight /\ \E q \in InFlight : refresh[q].at # "none"
      BY <2>1, <2>4 DEF Awaited, InFlight
    <3>2. refresh' = refresh BY <1>1, <3>1 DEF CallDenied
    <3>3. \A q \in Calls : refresh'[q].at # "none" => q # r /\ call'[q] = call[q] BY <2>1, <2>2, <3>2
    <3>4. \E q \in call'[r].awaits : refresh'[q].at # "none" BY <2>2, <3>1, <3>2
    <3>5. \A q \in Calls : call'[q].at = "waiting" => \E p \in call'[q].awaits : refresh'[p].at # "none"
      BY <2>2, <3>2, <3>4
    <3> QED BY <3>2, <3>3, <3>5
  <2> QED BY <2>3, <2>4
<1>2. ASSUME NEW r \in Calls, RefreshSettles(r) PROVE SingleFlight'
  <2>1. refresh[r].at # "none" /\ \A q \in Calls \ {r} : refresh[q].at = "none"
    BY <1>2 DEF RefreshSettles
  <2>2. \A q \in Calls : refresh'[q].at = "none" BY <1>2, <2>1, Records DEF RefreshSettles
  <2>3. \A q \in Calls : call[q].at = "waiting" => r \in call[q].awaits BY <2>1
  <2>4. \A q \in Calls : call'[q].at # "waiting" BY <1>2, <2>3 DEF RefreshSettles
  <2> QED BY <2>2, <2>4
<1>3. ASSUME NEW r \in Calls, call[r].at # "waiting", call'[r].at # "waiting",
             \A q \in Calls \ {r} : call'[q] = call[q], UNCHANGED refresh
      PROVE  SingleFlight'
  BY <1>3
<1>4. ASSUME NEW r \in Calls, refresh[r].at # "none", refresh'[r].at # "none",
             \A q \in Calls \ {r} : refresh'[q] = refresh[q], UNCHANGED call
      PROVE  SingleFlight'
  BY <1>4
<1> QED BY <1>1, <1>2, <1>3, <1>4, FlightMoves

----------------------------------------------------------------------------
(* The driver stays signed in *)

\* The refresh in flight replaces the stored row, has what it needs, and does not fail.
Sound(r) ==
  /\ refresh[r].at # "false"
  /\ refresh[r].at \in OnTheWay => refresh[r].old = stored
  /\ refresh[r].at \in {"issued", "answered"} =>
       token[refresh[r].new].status = "VALID" /\ refresh[r].new # refresh[r].old

SignedIn ==
  ~excused =>
    /\ signOut = 0 /\ stored \in Tokens
    /\ \A r \in Calls : call[r].at # "clearing" /\ Sound(r)
    /\ token[stored].status = "VALID" \/ \E r \in Calls : refresh[r].at = "answered"

LEMMA SignedInStep == TypeInv /\ SingleFlight /\ SignedIn /\ [Next]_vars => SignedIn'
<1> SUFFICES ASSUME TypeInv, SingleFlight, SignedIn, [Next]_vars, ~excused'
             PROVE  /\ signOut' = 0 /\ stored' \in Tokens
                    /\ \A r \in Calls : call'[r].at # "clearing" /\ Sound(r)'
                    /\ token'[stored'].status = "VALID" \/ \E r \in Calls : refresh'[r].at = "answered"
  BY DEF SignedIn
<1> DEFINE Goal == /\ signOut' = 0 /\ stored' \in Tokens
                   /\ \A r \in Calls : call'[r].at # "clearing" /\ Sound(r)'
                   /\ token'[stored'].status = "VALID" \/ \E r \in Calls : refresh'[r].at = "answered"
<1> USE DEF TypeInv, TypeOK
<1>1. ASSUME NEW t \in Tokens, Login(t) PROVE Goal
  <2>1. stored = 0 /\ Quiet /\ signOut = 0 BY <1>1, Records DEF Login, SignedIn
  <2>2. \A r \in Calls : refresh[r].at = "none" /\ call[r].at # "clearing" BY <2>1 DEF Quiet, InFlight
  <2>3. token'[t].status = "VALID" /\ stored' = t /\ UNCHANGED <<call, refresh, signOut>>
    BY <1>1 DEF Login
  <2> QED BY <2>1, <2>2, <2>3 DEF Sound, OnTheWay
\* From here on the driver has not signed out, and no refresh was lost.
<1>2. ASSUME ~excused
      PROVE  /\ signOut = 0 /\ stored \in Tokens
             /\ \A r \in Calls : call[r].at # "clearing" /\ Sound(r)
             /\ token[stored].status = "VALID" \/ \E r \in Calls : refresh[r].at = "answered"
  BY <1>2 DEF SignedIn
<1>3. ASSUME ~excused, NEW r \in Calls, refresh[r].at \notin {"none", "answered"}
      PROVE  token[stored].status = "VALID"
  BY <1>2, <1>3 DEF SingleFlight
<1>4. ASSUME NEW r \in Calls, refresh[r].at # "none", NEW q \in Calls \ {r}
      PROVE  refresh[q].at = "none"
  BY <1>4 DEF SingleFlight
<1>5. ASSUME ~excused, UNCHANGED <<token, stored, refresh, signOut>>,
             \A r \in Calls : call'[r].at # "clearing"
      PROVE  Goal
  BY <1>2, <1>5 DEF Sound
<1>6. ASSUME NEW t \in Tokens, AccessExpires(t) PROVE Goal
  BY <1>2, <1>5, <1>6 DEF AccessExpires
<1>7. ~LogoutSend BY DEF LogoutSend
<1>8. ~LogoutEnds BY <1>2 DEF LogoutEnds
<1>9. ASSUME NEW r \in Calls, CallSend(r) \/ CallRetries(r) PROVE Goal
  <2>1. /\ [IdleCall EXCEPT !.at = "sent", !.access = stored].at = "sent"
        /\ [IdleCall EXCEPT !.at = "sent", !.access = stored, !.retry = FALSE].at = "sent"
    BY DEF IdleCall
  <2>2. /\ ~excused /\ UNCHANGED <<token, stored, refresh, signOut>>
        /\ \A q \in Calls : call'[q].at = "sent" \/ call'[q] = call[q]
    BY <1>9, <2>1 DEF CallSend, CallRetries
  <2> QED BY <1>2, <1>5, <2>2
<1>10. ASSUME NEW r \in Calls, CallEnds(r) PROVE Goal
  BY <1>2, <1>5, <1>10, Records DEF CallEnds
<1>11. ASSUME NEW r \in Calls, CallDenied(r) PROVE Goal
  <2>1. ~excused /\ UNCHANGED <<token, stored, signOut>> /\ call[r].at = "sent"
    BY <1>11 DEF CallDenied
  <2>2. refresh[r].at = "none" BY <2>1 DEF SingleFlight
  <2>3. \A q \in Calls : call'[q].at # "clearing" BY <1>2, <1>11, <2>1 DEF CallDenied
  <2>4. CASE refresh' = refresh BY <1>5, <2>1, <2>3, <2>4
  <2>5. CASE refresh' = [refresh EXCEPT ![r].at = "started"]
    <3>1. refresh'[r].at = "started" /\ \A q \in Calls \ {r} : refresh'[q] = refresh[q] BY <2>5
    <3>2. \A q \in Calls : Sound(q)' BY <1>2, <2>1, <3>1 DEF Sound, OnTheWay
    <3>3. token'[stored'].status = "VALID" \/ \E q \in Calls : refresh'[q].at = "answered"
      BY <1>2, <2>1, <2>2, <3>1
    <3> QED BY <1>2, <2>1, <2>3, <3>2, <3>3
  <2> QED BY <1>11, <2>4, <2>5 DEF CallDenied
<1>12. ASSUME NEW r \in Calls, CallClears(r) PROVE FALSE
  BY <1>2, <1>12 DEF CallClears
\* A step of the refresh in flight: all that remains to be shown is that it is sound.
<1>13. ASSUME ~excused, NEW r \in Calls, refresh[r].at # "none",
              UNCHANGED <<call, signOut>>, stored' \in Tokens,
              \A q \in Calls \ {r} : refresh'[q] = refresh[q], Sound(r)',
              token'[stored'].status = "VALID" \/ refresh'[r].at = "answered"
       PROVE  Goal
  <2>1. \A q \in Calls \ {r} : refresh'[q].at = "none" BY <1>4, <1>13
  <2>2. \A q \in Calls : Sound(q)' BY <1>13, <2>1 DEF Sound, OnTheWay
  <2> QED BY <1>2, <1>13, <2>2
<1>14. ASSUME NEW r \in Calls, RefreshSend(r) PROVE Goal
  <2>1. ~excused /\ refresh[r].at = "started" /\ UNCHANGED <<token, stored, call, signOut>>
    BY <1>14 DEF RefreshSend
  <2>2. stored # 0 /\ stored \in Tokens BY <1>2, <2>1, Records
  <2>3. refresh'[r].at = "sent" /\ refresh'[r].old = stored /\ \A q \in Calls \ {r} : refresh'[q] = refresh[q]
    BY <1>14, <2>2 DEF RefreshSend
  <2>4. Sound(r)' BY <2>1, <2>3 DEF Sound
  <2> QED BY <1>3, <1>13, <2>1, <2>2, <2>3, <2>4
<1>15. ASSUME NEW r \in Calls, RefreshChecked(r) PROVE Goal
  <2>1. ~excused /\ refresh[r].at = "sent" /\ UNCHANGED <<token, stored, call, signOut>>
    BY <1>15 DEF RefreshChecked
  <2>3. /\ refresh'[r].at = "checked" /\ refresh'[r].old = refresh[r].old
        /\ \A q \in Calls \ {r} : refresh'[q] = refresh[q]
    BY <1>15 DEF RefreshChecked
  <2>4. Sound(r)' BY <1>2, <2>1, <2>3 DEF Sound, OnTheWay
  <2> QED BY <1>2, <1>3, <1>13, <2>1, <2>3, <2>4
<1>16. ASSUME NEW r \in Calls, RefreshReused(r) PROVE FALSE
  <2>1. ~excused /\ refresh[r].at = "sent" /\ token[refresh[r].old].status = "REVOKED"
    BY <1>16 DEF RefreshReused
  <2>2. refresh[r].old = stored BY <1>2, <2>1 DEF Sound, OnTheWay
  <2> QED BY <1>3, <2>1, <2>2
<1>17. ASSUME NEW r \in Calls, NEW t \in Tokens, RefreshIssued(r, t) PROVE Goal
  <2>1. ~excused /\ refresh[r].at = "checked" /\ UNCHANGED <<stored, call, signOut>> /\ token[t] = NoToken
    BY <1>17 DEF RefreshIssued, NewToken
  <2>2. refresh[r].old = stored /\ token[stored].status = "VALID" /\ stored \in Tokens
    BY <1>2, <1>3, <2>1 DEF Sound, OnTheWay
  <2>3. t # stored BY <2>1, <2>2, Records
  <2>4. token'[t].status = "VALID" /\ token'[stored] = token[stored]
    BY <1>17, <2>2, <2>3 DEF RefreshIssued
  <2>5. /\ refresh'[r].at = "issued" /\ refresh'[r].old = stored /\ refresh'[r].new = t
        /\ \A q \in Calls \ {r} : refresh'[q] = refresh[q]
    BY <1>17, <2>2 DEF RefreshIssued
  <2>6. Sound(r)' BY <2>1, <2>3, <2>4, <2>5 DEF Sound
  <2> QED BY <1>13, <2>1, <2>2, <2>4, <2>5, <2>6
<1>18. ASSUME NEW r \in Calls, RefreshReplaced(r) PROVE Goal
  <2>1. ~excused /\ refresh[r].at = "issued" /\ UNCHANGED <<stored, call, signOut>>
    BY <1>18 DEF RefreshReplaced
  <2>2. /\ refresh[r].old = stored /\ stored \in Tokens /\ refresh[r].new # stored
        /\ token[refresh[r].new].status = "VALID" /\ refresh[r].new \in Tokens
    BY <1>2, <2>1 DEF Sound, OnTheWay, RowsKnown
  <2>3. token'[refresh[r].new].status = "VALID" BY <1>18, <2>2 DEF RefreshReplaced
  <2>4. /\ refresh'[r].at = "answered" /\ refresh'[r].old = stored /\ refresh'[r].new = refresh[r].new
        /\ \A q \in Calls \ {r} : refresh'[q] = refresh[q]
    BY <1>18, <2>2 DEF RefreshReplaced
  <2>5. Sound(r)' BY <2>1, <2>2, <2>3, <2>4 DEF Sound
  <2> QED BY <1>13, <2>1, <2>2, <2>4, <2>5
<1>19. ASSUME NEW r \in Calls, RefreshStored(r) PROVE Goal
  <2>1. ~excused /\ refresh[r].at = "answered" /\ UNCHANGED <<token, call, signOut>>
    BY <1>19 DEF RefreshStored
  <2>2. token[refresh[r].new].status = "VALID" /\ refresh[r].new \in Tokens
    BY <1>2, <2>1 DEF Sound, OnTheWay, RowsKnown
  <2>3. /\ refresh'[r].at = "true" /\ stored' = refresh[r].new
        /\ \A q \in Calls \ {r} : refresh'[q] = refresh[q]
    BY <1>19 DEF RefreshStored
  <2>4. Sound(r)' BY <2>3 DEF Sound, OnTheWay
  <2> QED BY <1>13, <2>1, <2>2, <2>3, <2>4
<1>20. ASSUME NEW r \in Calls, RefreshLost(r) PROVE FALSE
  BY <1>20 DEF RefreshLost
<1>21. ASSUME NEW r \in Calls, RefreshSettles(r) PROVE Goal
  <2>1. ~excused /\ UNCHANGED <<token, stored, signOut>> /\ refresh[r].at \in {"true", "false"}
    BY <1>21 DEF RefreshSettles
  <2>2. refresh[r].at = "true" BY <1>2, <2>1 DEF Sound
  <2>3. \A q \in Calls : call'[q].at # "clearing" BY <1>2, <1>21, <2>1, <2>2 DEF RefreshSettles
  <2>4. \A q \in Calls : refresh'[q].at = "none" BY <1>4, <1>21, <2>2, Records DEF RefreshSettles
  <2>5. token[stored].status = "VALID" BY <1>3, <2>1, <2>2
  <2> QED BY <1>2, <2>1, <2>3, <2>4, <2>5 DEF Sound, OnTheWay
<1>22. CASE UNCHANGED vars BY <1>2, <1>5, <1>22 DEF vars
<1> QED
  BY <1>1, <1>6, <1>7, <1>8, <1>9, <1>10, <1>11, <1>12, <1>14, <1>15, <1>16, <1>17, <1>18, <1>19,
     <1>20, <1>21, <1>22
  DEF Next

LEMMA SignedInStart == Init => SingleFlight /\ SignedIn
<1> SUFFICES ASSUME Init PROVE SingleFlight /\ SignedIn
  OBVIOUS
<1> USE Records, SignInBounds
<1>1. \A r \in Calls : refresh[r].at = "none" /\ call[r].at = "idle" BY DEF Init
<1>2. stored = 1 /\ 1 \in Tokens /\ token[1].status = "VALID" /\ signOut = 0 BY DEF Init, Tokens
<1> QED BY <1>1, <1>2 DEF SingleFlight, SignedIn, Sound, OnTheWay

\* The calls of one app do not sign its driver out among themselves: however they are denied and
\* retried, one refresh at a time replaces the stored row, and nobody presents it twice.
THEOREM CallsKeepTheSession == Spec => []StaysSignedIn
<1>1. Init => TypeInv /\ SingleFlight /\ SignedIn BY TypeStart, SignedInStart
<1>2. TypeInv /\ SingleFlight /\ SignedIn /\ [Next]_vars => (TypeInv /\ SingleFlight /\ SignedIn)'
  BY TypeStep, SingleStep, SignedInStep
<1>3. SignedIn => StaysSignedIn
  BY Records DEF SignedIn, Sound, OnTheWay, StaysSignedIn
<1> QED BY <1>1, <1>2, <1>3, PTL DEF Spec
=============================================================================
