------------------------- MODULE WalletLedgerProofs -------------------------
(***************************************************************************)
(* Theorems about WalletLedger, for every number of concurrent requests,   *)
(* sessions, charges and credits, every opening balance and every amount.  *)
(***************************************************************************)
EXTENDS WalletLedger, TLAPS

----------------------------------------------------------------------------
(* Entries *)

\* Appending an entry under a key posts that key and nothing else.
LEMMA EnteredPosts ==
  ASSUME log \in Seq(Entry), NEW key, NEW amount, Entered(key, amount)
  PROVE  Posted' = Posted \union {key}
<1>1. /\ Len(log') = Len(log) + 1 /\ Len(log) \in Nat
      /\ DOMAIN log = 1..Len(log) /\ DOMAIN log' = 1..Len(log')
      /\ \A i \in 1..Len(log) : log'[i] = log[i]
      /\ log'[Len(log) + 1].key = key
  BY DEF Entered
<1> QED BY <1>1 DEF Posted

\* What an entry does to the types.
LEMMA EnteredType ==
  ASSUME log \in Seq(Entry), balance \in Int, NEW key \in Keys, NEW amount \in Int,
         Entered(key, amount)
  PROVE  log' \in Seq(Entry) /\ balance' \in Int
  BY DEF Entered, Entry

\* A credit's, a charge's and a capture's key are keys.
LEMMA KeysAreKeys ==
  /\ \A s \in Sessions : <<"capture", s>> \in Keys
  /\ \A k \in Charges : <<"charge", k>> \in Keys
  /\ \A k \in Credits : <<"credit", k>> \in Keys
  BY DEF Keys

\* What a worker's job carries.
LEMMA JobFields ==
  ASSUME TypeOK, NEW w \in Workers
  PROVE  /\ job[w].op = "hold" => /\ job[w].s \in Sessions /\ job[w].amount \in Amounts
                                  /\ job[w].read \in Int
         /\ job[w].op = "capture" => job[w].s \in Sessions /\ job[w].cost \in 0..MaxAmount
         /\ job[w].op = "release" => job[w].s \in Sessions
         /\ job[w].op = "credit" => job[w].k \in Credits /\ job[w].amount \in Amounts
  BY DEF TypeOK, Job, Idle

\* A capture takes between nothing and the whole hold.
LEMMA CapturedCentsBounds ==
  ASSUME TypeOK, NEW s \in Sessions, NEW cost \in 0..MaxAmount
  PROVE  /\ CapturedCents(s, cost) \in 0..MaxAmount
         /\ CapturedCents(s, cost) <= hold[s].amount
         /\ hold[s].amount - CapturedCents(s, cost) \in 0..MaxAmount
<1>1. hold[s].amount \in 0..MaxAmount BY DEF TypeOK, Hold
<1> QED BY <1>1, AmountAssumption DEF CapturedCents

----------------------------------------------------------------------------
(* Type correctness *)

\* Every step keeps the types, and no capture exceeds its hold.
LEMMA TypeStep == TypeOK /\ [Next]_vars => TypeOK'
<1> SUFFICES ASSUME TypeOK, [Next]_vars PROVE TypeOK' OBVIOUS
<1>i. Idle \in Job BY DEF Job
<1>1. ASSUME NEW w \in Workers, NEW s \in Sessions, HoldRead(w, s) PROVE TypeOK'
  BY <1>1 DEF HoldRead, TypeOK, Job, Amounts
<1>2. ASSUME NEW w \in Workers, NEW s \in Sessions, CaptureRead(w, s) PROVE TypeOK'
  BY <1>2 DEF CaptureRead, TypeOK, Job
<1>3. ASSUME NEW w \in Workers, NEW s \in Sessions, ReleaseRead(w, s) PROVE TypeOK'
  BY <1>3 DEF ReleaseRead, TypeOK, Job
<1>4. ASSUME NEW w \in Workers, NEW k \in Credits, CreditRead(w, k) PROVE TypeOK'
  BY <1>4 DEF CreditRead, TypeOK, Job
<1>5. ASSUME NEW w \in Workers, HoldCommit(w) PROVE TypeOK'
  <2>1. job' \in [Workers -> Job] BY <1>5, <1>i DEF HoldCommit, Finished, TypeOK
  <2>2. job[w].s \in Sessions /\ job[w].amount \in 0..MaxAmount
    BY <1>5, JobFields DEF HoldCommit, Amounts
  <2> DEFINE opened == OpenHold(job[w].amount)
  <2>3. opened \in Hold /\ opened.captured <= opened.amount
    BY <2>2, AmountAssumption DEF OpenHold, Hold
  <2>4. \/ UNCHANGED hold \/ hold' = [hold EXCEPT ![job[w].s] = opened]
    BY <1>5 DEF HoldCommit
  <2> HIDE DEF opened
  <2>5. /\ hold' \in [Sessions -> Hold]
        /\ \A s \in Sessions : hold'[s].captured <= hold'[s].amount
    BY <2>2, <2>3, <2>4 DEF TypeOK
  <2> QED BY <1>5, <2>1, <2>5 DEF HoldCommit, TypeOK
<1>6. ASSUME NEW w \in Workers, CaptureCommit(w) PROVE TypeOK'
  <2> DEFINE s == job[w].s
             cents == CapturedCents(s, job[w].cost)
             done == [hold EXCEPT ![s].status = "CAPTURED", ![s].captured = cents,
                                  ![s].released = hold[s].amount - cents]
  <2>1. job' \in [Workers -> Job] BY <1>6, <1>i DEF CaptureCommit, Finished, TypeOK
  <2>2. s \in Sessions /\ job[w].cost \in 0..MaxAmount BY <1>6, JobFields DEF CaptureCommit
  <2>3. /\ cents \in 0..MaxAmount /\ cents <= hold[s].amount
        /\ hold[s].amount - cents \in 0..MaxAmount
    BY <2>2, CapturedCentsBounds
  <2> HIDE DEF cents
  <2>4. done \in [Sessions -> Hold] /\ \A r \in Sessions : done[r].captured <= done[r].amount
    BY <2>2, <2>3 DEF TypeOK, Hold
  <2>5. \/ hold' = done \/ UNCHANGED hold
    BY <1>6 DEF CaptureCommit, cents
  <2>6. \/ UNCHANGED <<balance, log>> \/ Entered(<<"capture", s>>, -cents)
    BY <1>6 DEF CaptureCommit, cents
  <2>7. log' \in Seq(Entry) /\ balance' \in Int
    BY <2>2, <2>3, <2>6, KeysAreKeys, EnteredType DEF TypeOK
  <2> QED BY <2>1, <2>4, <2>5, <2>7 DEF TypeOK
<1>7. ASSUME NEW w \in Workers, ReleaseCommit(w) PROVE TypeOK'
  <2>1. job' \in [Workers -> Job] BY <1>7, <1>i DEF ReleaseCommit, Finished, TypeOK
  <2> QED BY <1>7, <2>1, JobFields DEF ReleaseCommit, TypeOK, Hold
<1>8. ASSUME NEW w \in Workers, CreditCommit(w) PROVE TypeOK'
  <2>1. job' \in [Workers -> Job] BY <1>8, <1>i DEF CreditCommit, Finished, TypeOK
  <2>2. job[w].k \in Credits /\ job[w].amount \in Int
    BY <1>8, JobFields DEF CreditCommit, Amounts
  <2>3. log' \in Seq(Entry) /\ balance' \in Int
    BY <1>8, <2>2, KeysAreKeys, EnteredType DEF CreditCommit, TypeOK
  <2> QED BY <1>8, <2>1, <2>3 DEF CreditCommit, TypeOK
<1>9. ASSUME NEW w \in Workers, Abort(w) PROVE TypeOK'
  BY <1>9, <1>i DEF Abort, Finished, TypeOK
<1>10. ASSUME NEW k \in Charges, NEW a \in Amounts, Charge(k, a) PROVE TypeOK'
  <2>1. log' \in Seq(Entry) /\ balance' \in Int
    BY <1>10, KeysAreKeys, EnteredType DEF Charge, TypeOK, Amounts
  <2> QED BY <1>10, <2>1 DEF Charge, TypeOK
<1>11. CASE UNCHANGED vars BY <1>11 DEF vars, TypeOK
<1> QED
  BY <1>1, <1>2, <1>3, <1>4, <1>5, <1>6, <1>7, <1>8, <1>9, <1>10, <1>11 DEF Next, WorkerStep

\* Type correctness of the wallet, its entries, its holds and the requests in flight; no
\* hold is captured beyond its amount.
THEOREM TypeCorrect == Spec => []TypeOK
<1>1. Init => TypeOK
  BY OpeningAssumption, AmountAssumption DEF Init, TypeOK, NoHold, Hold, Job, Idle
<1> QED BY <1>1, TypeStep, PTL DEF Spec

----------------------------------------------------------------------------
(* Every movement of money *)

\* A step leaves balance and statement alone, or posts one entry under a key that was not
\* posted before, and the balance can bear it.
Moves ==
  \/ UNCHANGED <<balance, log>>
  \/ \E key \in Keys \ Posted, amount \in Int :
       balance + amount >= 0 /\ Entered(key, amount)

LEMMA EveryStepMoves == TypeOK /\ NeverNegative /\ [Next]_vars => Moves
<1> SUFFICES ASSUME TypeOK, NeverNegative, [Next]_vars PROVE Moves OBVIOUS
<1>1. ASSUME NEW w \in Workers, CaptureCommit(w) PROVE Moves
  <2> DEFINE s == job[w].s
             cents == CapturedCents(s, job[w].cost)
  <2>1. s \in Sessions /\ cents \in Int
    BY <1>1, JobFields, CapturedCentsBounds DEF CaptureCommit
  <2>2. \/ UNCHANGED <<balance, log>>
        \/ <<"capture", s>> \notin Posted /\ cents <= balance /\ Entered(<<"capture", s>>, -cents)
    BY <1>1 DEF CaptureCommit
  <2> HIDE DEF cents
  <2>3. -cents \in Int /\ (cents <= balance => balance + (-cents) >= 0)
    BY <2>1 DEF TypeOK
  <2> QED BY <2>1, <2>2, <2>3, KeysAreKeys DEF Moves
<1>2. ASSUME NEW w \in Workers, CreditCommit(w) PROVE Moves
  <2>1. job[w].k \in Credits /\ job[w].amount \in Nat
    BY <1>2, JobFields DEF CreditCommit, Amounts
  <2>2. balance + job[w].amount >= 0 BY <2>1 DEF TypeOK, NeverNegative
  <2> QED BY <1>2, <2>1, <2>2, KeysAreKeys DEF CreditCommit, Moves
<1>3. ASSUME NEW k \in Charges, NEW a \in Amounts, Charge(k, a) PROVE Moves
  <2>1. -a \in Int /\ balance + (-a) >= 0 BY <1>3 DEF Charge, Amounts, TypeOK
  <2> QED BY <1>3, <2>1, KeysAreKeys DEF Charge, Moves
<1>4. ASSUME NEW w \in Workers, WorkerStep(w), ~CaptureCommit(w), ~CreditCommit(w)
      PROVE  UNCHANGED <<balance, log>>
  BY <1>4 DEF WorkerStep, HoldRead, CaptureRead, ReleaseRead, CreditRead, HoldCommit,
     ReleaseCommit, Abort
<1>5. CASE UNCHANGED vars BY <1>5 DEF vars, Moves
<1> QED BY <1>1, <1>2, <1>3, <1>4, <1>5 DEF Next, Moves

\* The balance never goes negative, however the requests interleave.
THEOREM BalanceStaysNonNegative == Spec => []NeverNegative
<1>1. Init => NeverNegative BY OpeningAssumption DEF Init, NeverNegative
<1>2. TypeOK /\ NeverNegative /\ [Next]_vars => NeverNegative'
  BY EveryStepMoves DEF Moves, Entered, NeverNegative
<1> QED BY <1>1, <1>2, TypeCorrect, PTL DEF Spec

\* The statement explains the balance: entries are chained and the last one is the wallet's.
THEOREM StatementExplainsBalance == Spec => []LogExplainsBalance
<1>1. Init => LogExplainsBalance BY DEF Init, LogExplainsBalance
<1>2. TypeOK /\ NeverNegative /\ LogExplainsBalance /\ [Next]_vars => LogExplainsBalance'
  <2> SUFFICES ASSUME TypeOK, NeverNegative, LogExplainsBalance, [Next]_vars
               PROVE  LogExplainsBalance'
    OBVIOUS
  <2>1. CASE UNCHANGED <<balance, log>> BY <2>1 DEF LogExplainsBalance
  <2>2. ASSUME NEW key \in Keys, NEW amount \in Int, Entered(key, amount)
        PROVE  LogExplainsBalance'
    <3>1. /\ Len(log) \in Nat /\ Len(log') = Len(log) + 1 /\ log' # <<>>
          /\ DOMAIN log = 1..Len(log) /\ DOMAIN log' = 1..Len(log')
          /\ \A i \in 1..Len(log) : log'[i] = log[i]
          /\ log'[Len(log')] = [key |-> key, amount |-> amount, after |-> balance + amount]
      BY <2>2 DEF Entered, TypeOK
    <3>2. balance' = log'[Len(log')].after BY <2>2, <3>1 DEF Entered
    <3>3. \A i \in 1..Len(log) :
            log'[i].after = log'[i].amount + (IF i = 1 THEN Opening ELSE log'[i - 1].after)
      BY <3>1 DEF LogExplainsBalance
    <3>4. balance = IF Len(log) + 1 = 1 THEN Opening ELSE log'[Len(log)].after
      <4>1. CASE Len(log) = 0
        <5>1. log = <<>> BY <4>1 DEF TypeOK
        <5> QED BY <4>1, <5>1 DEF LogExplainsBalance
      <4>2. CASE Len(log) # 0
        <5>1. log # <<>> /\ Len(log) \in 1..Len(log) BY <3>1, <4>2
        <5> QED BY <3>1, <4>2, <5>1 DEF LogExplainsBalance
      <4> QED BY <4>1, <4>2
    <3>5. log'[Len(log')].after
            = log'[Len(log')].amount + (IF Len(log) + 1 = 1 THEN Opening ELSE log'[Len(log)].after)
      BY <3>1, <3>4 DEF TypeOK
    <3> QED BY <3>1, <3>2, <3>3, <3>5 DEF LogExplainsBalance
  <2> QED BY <2>1, <2>2, EveryStepMoves DEF Moves
<1> QED BY <1>1, <1>2, TypeCorrect, BalanceStaysNonNegative, PTL DEF Spec

\* No idempotency key moves money twice, whichever requests overlap.
THEOREM KeysPostOnce == Spec => []OncePerKey
<1>1. Init => OncePerKey BY DEF Init, OncePerKey
<1>2. TypeOK /\ NeverNegative /\ OncePerKey /\ [Next]_vars => OncePerKey'
  <2> SUFFICES ASSUME TypeOK, NeverNegative, OncePerKey, [Next]_vars PROVE OncePerKey' OBVIOUS
  <2>1. CASE UNCHANGED <<balance, log>> BY <2>1 DEF OncePerKey
  <2>2. ASSUME NEW key \in Keys \ Posted, NEW amount \in Int, Entered(key, amount)
        PROVE  OncePerKey'
    <3>1. /\ Len(log) \in Nat /\ Len(log') = Len(log) + 1
          /\ DOMAIN log = 1..Len(log) /\ DOMAIN log' = 1..Len(log')
          /\ \A i \in 1..Len(log) : log'[i] = log[i]
          /\ log'[Len(log')].key = key
      BY <2>2 DEF Entered, TypeOK
    <3>2. \A i \in 1..Len(log) : log[i].key # key BY <3>1 DEF Posted
    <3> QED BY <3>1, <3>2 DEF OncePerKey
  <2> QED BY <2>1, <2>2, EveryStepMoves DEF Moves
<1> QED BY <1>1, <1>2, TypeCorrect, BalanceStaysNonNegative, PTL DEF Spec

\* The wallet implements the abstract account, with the set of posted keys as the
\* refinement mapping.
THEOREM WalletImplementsAccount == Spec => ImplementsAccount
<1>1. Init => AccountOf!Init
  BY DEF Init, AccountOf!Init, Posted
<1>2. TypeOK /\ NeverNegative /\ [Next]_vars => [AccountOf!Next]_(AccountOf!vars)
  <2> SUFFICES ASSUME TypeOK, NeverNegative, [Next]_vars
               PROVE  [AccountOf!Next]_(AccountOf!vars)
    OBVIOUS
  <2>1. CASE UNCHANGED <<balance, log>>
    BY <2>1 DEF AccountOf!vars, Posted
  <2>2. ASSUME NEW key \in Keys \ Posted, NEW amount \in Int, balance + amount >= 0,
               Entered(key, amount)
        PROVE  AccountOf!Next
    <3>1. balance' \in Nat BY <2>2 DEF Entered, TypeOK
    <3>2. Posted' = Posted \union {key} BY <2>2, EnteredPosts DEF TypeOK
    <3> QED BY <3>1, <3>2 DEF AccountOf!Next, AccountOf!Post
  <2> QED BY <2>1, <2>2, EveryStepMoves DEF Moves
<1> QED
  BY <1>1, <1>2, TypeCorrect, BalanceStaysNonNegative, PTL DEF Spec, ImplementsAccount, AccountOf!Spec
----------------------------------------------------------------------------
(* Captures and the statement *)

\* What a request in flight has read and what cannot have changed since: a hold about to
\* be opened does not exist, one about to be captured has not been captured, one about to
\* be released exists; and one hold has one opener and one capturer at a time.
JobInv ==
  /\ \A w \in Workers : job[w].op = "hold" => hold[job[w].s].status = "NONE"
  /\ \A w \in Workers : job[w].op = "release" => hold[job[w].s].status # "NONE"
  /\ \A w \in Workers : job[w].op = "capture" =>
       /\ hold[job[w].s].status \in {"OPEN", "RELEASED"}
       /\ hold[job[w].s].captured = 0
       /\ <<"capture", job[w].s>> \notin Posted
  /\ \A v, w \in Workers :
       /\ job[v].op \in {"hold", "capture"} /\ job[w].op = job[v].op /\ job[w].s = job[v].s
       => v = w

\* Before a hold is captured, nothing of it is marked captured or debited.
UncapturedInv ==
  \A s \in Sessions :
    hold[s].status \in {"NONE", "OPEN"} =>
      hold[s].captured = 0 /\ <<"capture", s>> \notin Posted

CaptureInv == JobInv /\ UncapturedInv /\ CapturedIsDebited

\* An entry under another key leaves a session's capture as it was in the statement.
LEMMA OtherEntry ==
  ASSUME log \in Seq(Entry), NEW key, NEW amount, Entered(key, amount),
         NEW s \in Sessions, key # <<"capture", s>>
  PROVE  /\ (<<"capture", s>> \in Posted)' <=> <<"capture", s>> \in Posted
         /\ \A i \in DOMAIN log' : log'[i].key = <<"capture", s>> =>
              i \in DOMAIN log /\ log'[i] = log[i]
<1>1. /\ Len(log) \in Nat /\ Len(log') = Len(log) + 1
      /\ DOMAIN log = 1..Len(log) /\ DOMAIN log' = 1..Len(log')
      /\ \A i \in 1..Len(log) : log'[i] = log[i]
      /\ log'[Len(log')].key = key
  BY DEF Entered
<1>2. (<<"capture", s>> \in Posted)' <=> <<"capture", s>> \in Posted
  BY EnteredPosts
<1> QED BY <1>1, <1>2

\* A step that leaves holds and jobs of captures alone and posts no capture keeps the
\* invariant: this is what a charge and a credit do.
LEMMA ForeignEntryKeeps ==
  ASSUME TypeOK, CaptureInv, UNCHANGED hold,
         NEW key, NEW amount, Entered(key, amount), \A s \in Sessions : key # <<"capture", s>>,
         \A w \in Workers : job'[w] = job[w] \/ job'[w] = Idle
  PROVE  CaptureInv'
<1>1. \A s \in Sessions :
        /\ (<<"capture", s>> \in Posted)' <=> <<"capture", s>> \in Posted
        /\ \A i \in DOMAIN log' : log'[i].key = <<"capture", s>> =>
             i \in DOMAIN log /\ log'[i] = log[i]
  BY OtherEntry DEF TypeOK
<1>2. \A w \in Workers : job[w].op = "capture" => job[w].s \in Sessions BY JobFields
<1>3. JobInv' BY <1>1, <1>2 DEF CaptureInv, JobInv, Idle
<1>4. UncapturedInv' /\ CapturedIsDebited'
  BY <1>1 DEF CaptureInv, UncapturedInv, CapturedIsDebited
<1> QED BY <1>3, <1>4 DEF CaptureInv

\* A step that posts nothing and writes no hold only has to keep JobInv.
LEMMA ReadKeeps ==
  ASSUME CaptureInv, UNCHANGED <<balance, log, hold>>, JobInv'
  PROVE  CaptureInv'
BY DEF CaptureInv, UncapturedInv, CapturedIsDebited, Posted

\* Every step keeps it.
LEMMA CaptureStep == TypeOK /\ CaptureInv /\ [Next]_vars => CaptureInv'
<1> SUFFICES ASSUME TypeOK, CaptureInv, [Next]_vars PROVE CaptureInv' OBVIOUS
<1>1. ASSUME NEW w \in Workers, NEW s \in Sessions,
             HoldRead(w, s) \/ CaptureRead(w, s) \/ ReleaseRead(w, s)
      PROVE  CaptureInv'
  <2>1. UNCHANGED <<balance, log, hold>> /\ Posted' = Posted
    BY <1>1 DEF HoldRead, CaptureRead, ReleaseRead, Posted
  <2>2. JobInv'
    <3> USE <2>1 DEF CaptureInv, JobInv, UncapturedInv, TypeOK, Busy, Open
    <3>1. CASE HoldRead(w, s) BY <3>1 DEF HoldRead
    <3>2. CASE CaptureRead(w, s) BY <3>2 DEF CaptureRead
    <3>3. CASE ReleaseRead(w, s) BY <3>3 DEF ReleaseRead
    <3> QED BY <1>1, <3>1, <3>2, <3>3
  <2> QED BY <2>1, <2>2, ReadKeeps
<1>2. ASSUME NEW w \in Workers, NEW k \in Credits, CreditRead(w, k) PROVE CaptureInv'
  <2>1. UNCHANGED <<balance, log, hold>> /\ Posted' = Posted BY <1>2 DEF CreditRead, Posted
  <2>2. JobInv' BY <1>2, <2>1 DEF CreditRead, CaptureInv, JobInv, TypeOK
  <2> QED BY <2>1, <2>2, ReadKeeps
<1>3. ASSUME NEW w \in Workers, Abort(w) PROVE CaptureInv'
  <2>1. UNCHANGED <<balance, log, hold>> /\ Posted' = Posted BY <1>3 DEF Abort, Posted
  <2>2. JobInv' BY <1>3, <2>1 DEF Abort, Finished, Idle, CaptureInv, JobInv, TypeOK
  <2> QED BY <2>1, <2>2, ReadKeeps
<1>4. ASSUME NEW w \in Workers, HoldCommit(w) PROVE CaptureInv'
  <2> DEFINE s == job[w].s
  <2>1. s \in Sessions /\ hold[s].status = "NONE" /\ hold[s].captured = 0
        /\ <<"capture", s>> \notin Posted
    BY <1>4, JobFields DEF HoldCommit, CaptureInv, JobInv, UncapturedInv
  <2>2. UNCHANGED <<balance, log>> /\ Posted' = Posted BY <1>4 DEF HoldCommit, Posted
  <2>3. \/ UNCHANGED hold
        \/ /\ hold' = [hold EXCEPT ![s] = OpenHold(job[w].amount)]
           /\ OpenHold(job[w].amount).status = "OPEN"
           /\ OpenHold(job[w].amount).captured = 0
    BY <1>4 DEF HoldCommit, OpenHold
  <2>4. \A v \in Workers : v # w => job'[v] = job[v] BY <1>4 DEF HoldCommit, Finished, TypeOK
  <2>5. job'[w] = Idle BY <1>4 DEF HoldCommit, Finished, TypeOK
  <2>6. \A v \in Workers \ {w} : job[v].op \in {"hold", "capture", "release"} => job[v].s # s
    BY <1>4, <2>1 DEF HoldCommit, CaptureInv, JobInv
  <2>a. \A v \in Workers : job[v].op \in {"hold", "capture", "release"} => job[v].s \in Sessions
    BY JobFields
  <2>b. \A r \in Sessions \ {s} : hold'[r] = hold[r] BY <2>3 DEF TypeOK
  <2>7. JobInv'
    BY <2>1, <2>2, <2>4, <2>5, <2>6, <2>a, <2>b DEF CaptureInv, JobInv, Idle
  <2>8. UncapturedInv' /\ CapturedIsDebited'
    BY <2>1, <2>2, <2>3 DEF CaptureInv, UncapturedInv, CapturedIsDebited, TypeOK
  <2> QED BY <2>7, <2>8 DEF CaptureInv
<1>5. ASSUME NEW w \in Workers, ReleaseCommit(w) PROVE CaptureInv'
  <2> DEFINE s == job[w].s
  <2>1. s \in Sessions /\ hold[s].status # "NONE"
    BY <1>5, JobFields DEF ReleaseCommit, CaptureInv, JobInv
  <2>2. UNCHANGED <<balance, log>> /\ Posted' = Posted BY <1>5 DEF ReleaseCommit, Posted
  <2>3. /\ hold'[s].status = "RELEASED" /\ hold'[s].captured = hold[s].captured
        /\ \A r \in Sessions \ {s} : hold'[r] = hold[r]
    BY <1>5, <2>1 DEF ReleaseCommit, TypeOK, Hold
  <2>4. \A v \in Workers : job'[v] = job[v] \/ job'[v] = Idle
    BY <1>5 DEF ReleaseCommit, Finished, TypeOK
  <2>5. \A v \in Workers : job[v].op \in {"hold", "capture", "release"} => job[v].s \in Sessions
    BY JobFields
  <2>6. JobInv'
    BY <2>1, <2>2, <2>3, <2>4, <2>5 DEF CaptureInv, JobInv, Idle
  <2>7. UncapturedInv' /\ CapturedIsDebited'
    BY <2>2, <2>3 DEF CaptureInv, UncapturedInv, CapturedIsDebited
  <2> QED BY <2>6, <2>7 DEF CaptureInv
<1>6. ASSUME NEW w \in Workers, CaptureCommit(w) PROVE CaptureInv'
  <2> DEFINE s == job[w].s
             key == <<"capture", s>>
             cents == CapturedCents(s, job[w].cost)
  <2>1. /\ s \in Sessions /\ job[w].op = "capture"
        /\ hold[s].status \in {"OPEN", "RELEASED"} /\ hold[s].captured = 0
        /\ key \notin Posted
    BY <1>6, JobFields DEF CaptureCommit, CaptureInv, JobInv
  <2>2. cents \in Nat BY <1>6, <2>1, JobFields, CapturedCentsBounds, AmountAssumption
  <2> HIDE DEF cents
  <2>3. \A v \in Workers : v # w => job'[v] = job[v]
    BY <1>6 DEF CaptureCommit, Finished, TypeOK
  <2>4. job'[w] = Idle BY <1>6 DEF CaptureCommit, Finished, TypeOK
  <2>5. \A v \in Workers \ {w} : job[v].op \in {"hold", "capture"} => job[v].s # s
    BY <2>1 DEF CaptureInv, JobInv
  <2>6. \A v \in Workers : job[v].op \in {"hold", "capture", "release"} => job[v].s \in Sessions
    BY JobFields
  <2>7. CASE UNCHANGED <<balance, log, hold>>
    <3>1. Posted' = Posted BY <2>7 DEF Posted
    <3>2. JobInv' BY <2>3, <2>4, <2>7, <3>1 DEF CaptureInv, JobInv, Idle
    <3> QED BY <2>7, <3>2, ReadKeeps
  <2>8. ASSUME hold' = [hold EXCEPT ![s].status = "CAPTURED", ![s].captured = cents,
                                    ![s].released = hold[s].amount - cents],
               \/ cents = 0 /\ UNCHANGED <<balance, log>>
               \/ Entered(key, -cents)
        PROVE  CaptureInv'
    <3>1. /\ hold'[s].status = "CAPTURED" /\ hold'[s].captured = cents
          /\ \A r \in Sessions \ {s} : hold'[r] = hold[r]
      BY <2>1, <2>8 DEF TypeOK, Hold
    <3>2. \A r \in Sessions \ {s} :
            /\ (<<"capture", r>> \in Posted)' <=> <<"capture", r>> \in Posted
            /\ \A i \in DOMAIN log' : log'[i].key = <<"capture", r>> =>
                 i \in DOMAIN log /\ log'[i] = log[i]
      <4>1. CASE UNCHANGED log BY <4>1 DEF Posted
      <4>2. CASE Entered(key, -cents)
        <5>1. ASSUME NEW r \in Sessions \ {s} PROVE key # <<"capture", r>> OBVIOUS
        <5> QED BY <4>2, <5>1, OtherEntry DEF TypeOK
      <4> QED BY <2>8, <4>1, <4>2
    <3>3. /\ \A i \in DOMAIN log' : log'[i].key = key => log'[i].amount = -cents
          /\ cents > 0 => key \in Posted'
      <4>1. CASE cents = 0 /\ UNCHANGED <<balance, log>>
        BY <2>1, <4>1 DEF Posted
      <4>2. CASE Entered(key, -cents)
        <5>1. /\ Len(log) \in Nat /\ Len(log') = Len(log) + 1
              /\ DOMAIN log = 1..Len(log) /\ DOMAIN log' = 1..Len(log')
              /\ \A i \in 1..Len(log) : log'[i] = log[i]
              /\ log'[Len(log')].amount = -cents
          BY <4>2 DEF Entered, TypeOK
        <5>2. \A i \in 1..Len(log) : log[i].key # key BY <2>1, <5>1 DEF Posted
        <5>3. key \in Posted' BY <4>2, EnteredPosts DEF TypeOK
        <5> QED BY <5>1, <5>2, <5>3
      <4> QED BY <2>8, <4>1, <4>2
    <3>4. JobInv'
      BY <2>3, <2>4, <2>5, <2>6, <3>1, <3>2 DEF CaptureInv, JobInv, Idle
    <3>5. UncapturedInv' BY <3>1, <3>2 DEF CaptureInv, UncapturedInv
    <3>6. CapturedIsDebited'
      <4>1. ASSUME NEW r \in Sessions \ {s}
            PROVE  /\ \A i \in DOMAIN log' :
                        log'[i].key = <<"capture", r>> => log'[i].amount = -hold'[r].captured
                   /\ hold'[r].captured > 0 => <<"capture", r>> \in Posted'
        BY <3>1, <3>2 DEF CaptureInv, CapturedIsDebited
      <4>2. /\ \A i \in DOMAIN log' : log'[i].key = key => log'[i].amount = -hold'[s].captured
            /\ hold'[s].captured > 0 => key \in Posted'
        BY <3>1, <3>3
      <4> QED BY <4>1, <4>2 DEF CapturedIsDebited
    <3> QED BY <3>4, <3>5, <3>6 DEF CaptureInv
  <2> QED BY <1>6, <2>1, <2>7, <2>8 DEF CaptureCommit, cents
<1>7. ASSUME NEW w \in Workers, CreditCommit(w) PROVE CaptureInv'
  <2>1. \A v \in Workers : job'[v] = job[v] \/ job'[v] = Idle
    BY <1>7 DEF CreditCommit, Finished, TypeOK
  <2>2. CASE UNCHANGED <<balance, log>>
    <3>1. Posted' = Posted BY <2>2 DEF Posted
    <3>2. JobInv' BY <1>7, <2>1, <3>1 DEF CreditCommit, CaptureInv, JobInv, Idle
    <3> QED BY <1>7, <2>2, <3>2, ReadKeeps DEF CreditCommit
  <2>3. CASE Entered(<<"credit", job[w].k>>, job[w].amount)
    BY <1>7, <2>1, <2>3, ForeignEntryKeeps DEF CreditCommit
  <2> QED BY <1>7, <2>2, <2>3 DEF CreditCommit
<1>8. ASSUME NEW k \in Charges, NEW a \in Amounts, Charge(k, a) PROVE CaptureInv'
  BY <1>8, ForeignEntryKeeps DEF Charge
<1>9. CASE UNCHANGED vars
  <2>1. UNCHANGED <<balance, log, hold, job>> /\ Posted' = Posted BY <1>9 DEF vars, Posted
  <2>2. JobInv' BY <2>1 DEF CaptureInv, JobInv
  <2> QED BY <2>1, <2>2, ReadKeeps
<1> QED
  BY <1>1, <1>2, <1>3, <1>4, <1>5, <1>6, <1>7, <1>8, <1>9 DEF Next, WorkerStep

\* What a hold says was captured is what the wallet was debited, for any number of
\* captures, releases and refused debits that overlap.
THEOREM CapturesAreDebits == Spec => []CapturedIsDebited
<1>1. Init => CaptureInv
  BY DEF Init, CaptureInv, JobInv, UncapturedInv, CapturedIsDebited, NoHold, Idle, Posted
<1>2. CaptureInv => CapturedIsDebited BY DEF CaptureInv
<1> QED BY <1>1, <1>2, TypeCorrect, CaptureStep, PTL DEF Spec
============================================================================
