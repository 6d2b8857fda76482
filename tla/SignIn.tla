-------------------------------- MODULE SignIn --------------------------------
(***************************************************************************)
(* One driver's app and the refresh of its tokens: apiFetch() and          *)
(* tryRefresh() of apps/driver/lib/api-client.ts, against AuthService,     *)
(* which replaces a refresh token at every use and takes the use of a      *)
(* replaced one for a copy: it then revokes the whole family.              *)
(*                                                                         *)
(* Calls of the app run concurrently.  A call that is answered 401 starts  *)
(* a refresh, or awaits the one another call has started; the refresh      *)
(* reads the store, travels to the server, is handled there in three       *)
(* statements, and comes back.  This is the app on a phone, which keeps    *)
(* its tokens itself; the web applications' proxy refreshes for every      *)
(* request on its own and is not modelled.                                 *)
(***************************************************************************)
EXTENDS Naturals

CONSTANTS
  Calls,      \* bound: calls of apiFetch() in flight at once
  MaxTokens,  \* bound: rows of refresh_tokens
  MaxLosses   \* bound: refreshes that fail on the way or with the server

ASSUME SignInBounds == MaxTokens \in Nat \ {0} /\ MaxLosses \in Nat

VARIABLES
  token,    \* token[t]: a row of refresh_tokens, with the family it belongs to
  lapsed,   \* the rows whose access token has expired
  stored,   \* the app's store: the pair of a row, or 0
  call,     \* call[r]: a call of apiFetch()
  refresh,  \* refresh[r]: the tryRefresh() that call r has started
  signOut,  \* logout(): the row it revokes, or 0
  losses,
  excused   \* since the last quiet sign-in the driver has signed out, or a refresh was lost

vars == <<token, lapsed, stored, call, refresh, signOut, losses, excused>>

----------------------------------------------------------------------------
(* Vocabulary *)

Tokens   == 1..MaxTokens
NoToken  == [status |-> "NONE", family |-> 0]
IdleCall == [at |-> "idle", access |-> 0, retry |-> TRUE, awaits |-> {}]
NoRefresh == [at |-> "none", old |-> 0, new |-> 0]

\* Rows are created in order.
NewToken(t) == /\ t \in Tokens /\ token[t] = NoToken
               /\ \A u \in Tokens : u < t => token[u] # NoToken

\* updateMany of the family's rows that are not revoked yet.
FamilyRevoked(t) ==
  [u \in Tokens |-> IF token[u].family = token[t].family /\ token[u] # NoToken
                    THEN [token[u] EXCEPT !.status = "REVOKED"] ELSE token[u]]

\* Calls whose refresh is under way: refreshInFlight.
InFlight == {r \in Calls : refresh[r].at # "none"}

Quiet == InFlight = {} /\ \A r \in Calls : call[r].at # "clearing"

----------------------------------------------------------------------------
(* login() and logout() *)

\* issueTokens without a family; the app stores the pair.
Login(t) ==
  /\ stored = 0 /\ signOut = 0 /\ NewToken(t)
  /\ token' = [token EXCEPT ![t] = [status |-> "VALID", family |-> t]]
  /\ stored' = t
  /\ excused' = (excused /\ ~Quiet)
  /\ UNCHANGED <<lapsed, call, refresh, signOut, losses>>

LogoutSend ==
  /\ stored # 0 /\ signOut = 0
  /\ signOut' = stored
  /\ excused' = TRUE
  /\ UNCHANGED <<token, lapsed, stored, call, refresh, losses>>

\* The server may not be reached; the app clears its store all the same.
LogoutEnds ==
  /\ signOut # 0
  /\ token' \in {token, FamilyRevoked(signOut)}
  /\ stored' = 0
  /\ signOut' = 0
  /\ UNCHANGED <<lapsed, call, refresh, losses, excused>>

----------------------------------------------------------------------------
(* apiFetch() *)

CallSend(r) ==
  /\ call[r] = IdleCall /\ stored # 0
  /\ call' = [call EXCEPT ![r] = [IdleCall EXCEPT !.at = "sent", !.access = stored]]
  /\ UNCHANGED <<token, lapsed, stored, refresh, signOut, losses, excused>>

\* The access token is accepted until it expires, whatever becomes of the refresh token.
Accepted(r) == call[r].access # 0 /\ call[r].access \notin lapsed

\* The answer, a second 401, or the error of the first ends the call.
CallEnds(r) ==
  /\ call[r].at = "sent"
  /\ Accepted(r) \/ ~call[r].retry
  /\ call' = [call EXCEPT ![r] = IdleCall]
  /\ UNCHANGED <<token, lapsed, stored, refresh, signOut, losses, excused>>

\* Mutant: every call refreshes for itself.
AwaitedOwn(r) == {r}

\* refreshInFlight ??= tryRefresh()
Awaited(r) == IF InFlight = {} THEN {r} ELSE InFlight

CallDenied(r) ==
  /\ call[r].at = "sent" /\ call[r].retry /\ ~Accepted(r)
  /\ call' = [call EXCEPT ![r].at = "waiting", ![r].awaits = Awaited(r)]
  /\ refresh' = IF r \in Awaited(r) THEN [refresh EXCEPT ![r].at = "started"] ELSE refresh
  /\ UNCHANGED <<token, lapsed, stored, signOut, losses, excused>>

\* With the pair that is stored by now, and for the last time.
CallRetries(r) ==
  /\ call[r].at = "retrying"
  /\ call' = [call EXCEPT ![r] = [IdleCall EXCEPT !.at = "sent", !.access = stored, !.retry = FALSE]]
  /\ UNCHANGED <<token, lapsed, stored, refresh, signOut, losses, excused>>

CallClears(r) ==
  /\ call[r].at = "clearing"
  /\ stored' = 0
  /\ call' = [call EXCEPT ![r] = IdleCall]
  /\ UNCHANGED <<token, lapsed, refresh, signOut, losses, excused>>

----------------------------------------------------------------------------
(* tryRefresh(), and refresh() on the server *)

RefreshSend(r) ==
  /\ refresh[r].at = "started"
  /\ refresh' = [refresh EXCEPT ![r].at = IF stored = 0 THEN "false" ELSE "sent", ![r].old = stored]
  /\ UNCHANGED <<token, lapsed, stored, call, signOut, losses, excused>>

RefreshChecked(r) ==
  /\ refresh[r].at = "sent" /\ token[refresh[r].old].status = "VALID"
  /\ refresh' = [refresh EXCEPT ![r].at = "checked"]
  /\ UNCHANGED <<token, lapsed, stored, call, signOut, losses, excused>>

RefreshReused(r) ==
  /\ refresh[r].at = "sent" /\ token[refresh[r].old].status = "REVOKED"
  /\ token' = FamilyRevoked(refresh[r].old)
  /\ refresh' = [refresh EXCEPT ![r].at = "false"]
  /\ UNCHANGED <<lapsed, stored, call, signOut, losses, excused>>

\* Mutant: the new row gets a status of its own.
RefreshIssuedNamed(r, t) ==
  /\ refresh[r].at = "checked" /\ NewToken(t)
  /\ token' = [token EXCEPT ![t] = [status |-> "ISSUED", family |-> token[refresh[r].old].family]]
  /\ refresh' = [refresh EXCEPT ![r].at = "issued", ![r].new = t]
  /\ UNCHANGED <<lapsed, stored, call, signOut, losses, excused>>

\* issueTokens in the family of the old token.
RefreshIssued(r, t) ==
  /\ refresh[r].at = "checked" /\ NewToken(t)
  /\ token' = [token EXCEPT ![t] = [status |-> "VALID", family |-> token[refresh[r].old].family]]
  /\ refresh' = [refresh EXCEPT ![r].at = "issued", ![r].new = t]
  /\ UNCHANGED <<lapsed, stored, call, signOut, losses, excused>>

\* The old row is revoked, and the answer sent.
RefreshReplaced(r) ==
  /\ refresh[r].at = "issued"
  /\ token' = [token EXCEPT ![refresh[r].old].status = "REVOKED"]
  /\ refresh' = [refresh EXCEPT ![r].at = "answered"]
  /\ UNCHANGED <<lapsed, stored, call, signOut, losses, excused>>

RefreshStored(r) ==
  /\ refresh[r].at = "answered"
  /\ stored' = refresh[r].new
  /\ refresh' = [refresh EXCEPT ![r].at = "true"]
  /\ UNCHANGED <<token, lapsed, call, signOut, losses, excused>>

\* The network fails, or the server dies between two statements.
RefreshLost(r) ==
  /\ refresh[r].at \in {"sent", "checked", "issued", "answered"} /\ losses < MaxLosses
  /\ losses' = losses + 1
  /\ refresh' = [refresh EXCEPT ![r].at = "false"]
  /\ excused' = TRUE
  /\ UNCHANGED <<token, lapsed, stored, call, signOut>>

\* The promise settles: refreshInFlight is null again, and every call that awaited it goes on.
RefreshSettles(r) ==
  /\ refresh[r].at \in {"true", "false"}
  /\ call' = [q \in Calls |->
       IF call[q].at = "waiting" /\ r \in call[q].awaits
       THEN [call[q] EXCEPT !.at = IF refresh[r].at = "true" THEN "retrying" ELSE "clearing"]
       ELSE call[q]]
  /\ refresh' = [refresh EXCEPT ![r] = NoRefresh]
  /\ UNCHANGED <<token, lapsed, stored, signOut, losses, excused>>

\* An access token lives for minutes; the seven days of a refresh token do not pass.
AccessExpires(t) ==
  /\ token[t] # NoToken
  /\ lapsed' = lapsed \union {t}
  /\ UNCHANGED <<token, stored, call, refresh, signOut, losses, excused>>

Init ==
  /\ token = [t \in Tokens |-> IF t = 1 THEN [status |-> "VALID", family |-> 1] ELSE NoToken]
  /\ stored = 1 /\ lapsed = {}
  /\ call = [r \in Calls |-> IdleCall]
  /\ refresh = [r \in Calls |-> NoRefresh]
  /\ signOut = 0 /\ losses = 0 /\ excused = FALSE

Next ==
  \/ \E t \in Tokens : Login(t) \/ AccessExpires(t)
  \/ LogoutSend \/ LogoutEnds
  \/ \E r \in Calls :
       \/ CallSend(r) \/ CallEnds(r) \/ CallDenied(r) \/ CallRetries(r) \/ CallClears(r)
       \/ RefreshSend(r) \/ RefreshChecked(r) \/ RefreshReused(r)
       \/ (\E t \in Tokens : RefreshIssued(r, t))
       \/ RefreshReplaced(r) \/ RefreshStored(r) \/ RefreshLost(r) \/ RefreshSettles(r)

Spec == Init /\ [][Next]_vars

----------------------------------------------------------------------------
(* Properties *)

\* Type invariant.
TypeOK ==
  /\ token \in [Tokens -> [status : {"NONE", "VALID", "REVOKED"}, family : 0..MaxTokens]]
  /\ lapsed \subseteq Tokens
  /\ stored \in 0..MaxTokens
  /\ call \in [Calls -> [at : {"idle", "sent", "waiting", "retrying", "clearing"},
                         access : 0..MaxTokens, retry : BOOLEAN, awaits : SUBSET Calls]]
  /\ refresh \in [Calls -> [at : {"none", "started", "sent", "checked", "issued", "answered", "true", "false"},
                            old : 0..MaxTokens, new : 0..MaxTokens]]
  /\ signOut \in 0..MaxTokens
  /\ losses \in 0..MaxLosses
  /\ excused \in BOOLEAN

\* The app's calls do not sign the driver out among themselves: until the driver signs out or a
\* refresh is lost, the stored token is one the server accepts, or its successor is on the way;
\* no call finds it replaced, which the server would take for a copy.
StaysSignedIn ==
  excused \/ /\ stored # 0
             /\ \/ token[stored].status = "VALID"
                \/ \E r \in Calls : refresh[r].at = "answered" /\ refresh[r].old = stored
=============================================================================
