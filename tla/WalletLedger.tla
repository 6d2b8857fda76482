---------------------------- MODULE WalletLedger ----------------------------
(***************************************************************************)
(* One driver's wallet: WalletService's holds, captures, releases, debits  *)
(* and credits, run by concurrent requests against PostgreSQL at its       *)
(* default isolation (READ COMMITTED).                                     *)
(*                                                                         *)
(* A worker is a request with a transaction open.  What it reads before it *)
(* holds a row lock stays in its job; from the lock to the commit nothing  *)
(* it uses can change under it, so that part is one step.  Amounts are     *)
(* cents in the code and small naturals here.                              *)
(***************************************************************************)
EXTENDS Integers, Sequences, FiniteSetsExt

CONSTANTS
  Workers,   \* requests that may be in flight together
  Sessions,  \* charging sessions paid from this wallet
  Charges,   \* debits outside a hold: meter deltas, connection fees, refunds
  Credits,   \* confirmed payments and deposits
  Opening,   \* the balance before the first entry
  MaxAmount  \* bound: the largest amount of a request

ASSUME OpeningAssumption == Opening \in Nat
ASSUME AmountAssumption  == MaxAmount \in Nat

VARIABLES
  balance,   \* wallets.balance_cents
  log,       \* wallet_transactions, in the order of their commits
  hold,      \* hold[s]: the wallet_holds row of session s
  job        \* job[w]: what worker w has read, "idle" if it has no transaction

vars == <<balance, log, hold, job>>

----------------------------------------------------------------------------
(* Vocabulary *)

Amounts == 1..MaxAmount

\* The idempotency keys: billing-capture-{session}, and one per charge and per credit.
Keys == ({"capture"} \X Sessions) \union ({"charge"} \X Charges) \union ({"credit"} \X Credits)

Entry == [key : Keys, amount : Int, after : Int]

NoHold == [status |-> "NONE", amount |-> 0, captured |-> 0, released |-> 0]
OpenHold(amount) == [status |-> "OPEN", amount |-> amount, captured |-> 0, released |-> 0]
Hold   == [status : {"NONE", "OPEN", "CAPTURED", "RELEASED"},
           amount : 0..MaxAmount, captured : 0..MaxAmount, released : 0..MaxAmount]

Idle == [op |-> "idle"]
Job  == {Idle}
        \union [op : {"hold"}, s : Sessions, amount : Amounts, read : Int]
        \union [op : {"capture"}, s : Sessions, cost : 0..MaxAmount]
        \union [op : {"release"}, s : Sessions]
        \union [op : {"credit"}, k : Credits, amount : Amounts]

Posted == {log[i].key : i \in DOMAIN log}

Open(s) == hold[s].status = "OPEN"

\* The sum of the open holds.
Held == MapThenSumSet(LAMBDA s : hold[s].amount, {s \in Sessions : Open(s)})

\* Mutant: the entry records the balance from before the update.
EnteredStale(key, amount) ==
  /\ balance' = balance + amount
  /\ log' = Append(log, [key |-> key, amount |-> amount, after |-> balance])

\* The update of the balance and the insert of its entry, in one transaction.
Entered(key, amount) ==
  /\ balance' = balance + amount
  /\ log' = Append(log, [key |-> key, amount |-> amount, after |-> balance + amount])

Busy(op, s) == \E w \in Workers : job[w].op = op /\ job[w].s = s

Finished(w) == job' = [job EXCEPT ![w] = Idle]

----------------------------------------------------------------------------
(* createHold *)

\* The balance is read before the wallet row is locked.  start() runs once per session.
HoldRead(w, s) ==
  /\ job[w] = Idle
  /\ hold[s].status = "NONE"
  /\ ~Busy("hold", s)
  /\ \E a \in Amounts :
       job' = [job EXCEPT ![w] = [op |-> "hold", s |-> s, amount |-> a, read |-> balance]]
  /\ UNCHANGED <<balance, log, hold>>

\* Under the lock: the open holds are summed now, and set against the balance read then.
HoldCommit(w) ==
  /\ job[w].op = "hold"
  /\ Finished(w)
  /\ LET j == job[w] IN
       IF j.read - Held < j.amount
       THEN UNCHANGED hold
       ELSE hold' = [hold EXCEPT ![j.s] = OpenHold(j.amount)]
  /\ UNCHANGED <<balance, log>>

----------------------------------------------------------------------------
(* captureHold *)

\* Two finalizations of one session are serialised by its row, so they do not overlap;
\* a release of the same hold is not.
CaptureRead(w, s) ==
  /\ job[w] = Idle
  /\ Open(s)
  /\ ~Busy("capture", s)
  /\ \E c \in 0..MaxAmount :
       job' = [job EXCEPT ![w] = [op |-> "capture", s |-> s, cost |-> c]]
  /\ UNCHANGED <<balance, log, hold>>

\* Mutant: the whole cost is taken, beyond what was reserved.
CapturedCentsUncapped(s, cost) == cost

CapturedCents(s, cost) == IF cost < hold[s].amount THEN cost ELSE hold[s].amount

\* Mutant: a refused debit is ignored and the hold is marked captured all the same.
CaptureCommitAnyway(w) ==
  /\ job[w].op = "capture"
  /\ Finished(w)
  /\ LET s     == job[w].s
         cents == CapturedCents(s, job[w].cost)
     IN /\ hold' = [hold EXCEPT ![s].status = "CAPTURED", ![s].captured = cents,
                               ![s].released = hold[s].amount - cents]
        /\ IF 0 < cents /\ cents <= balance /\ <<"capture", s>> \notin Posted
           THEN Entered(<<"capture", s>>, -cents)
           ELSE UNCHANGED <<balance, log>>

CaptureCommit(w) ==
  /\ job[w].op = "capture"
  /\ Finished(w)
  /\ LET s     == job[w].s
         cents == CapturedCents(s, job[w].cost)
         key   == <<"capture", s>>
         done  == [hold EXCEPT ![s].status = "CAPTURED", ![s].captured = cents,
                               ![s].released = hold[s].amount - cents]
     IN \/ /\ cents = 0 \/ key \in Posted
           /\ hold' = done
           /\ UNCHANGED <<balance, log>>
        \/ /\ cents > 0 /\ key \notin Posted /\ cents <= balance
           /\ hold' = done
           /\ Entered(key, -cents)
        \/ \* InsufficientBalanceError, caught by the caller: the hold stays as it is
           /\ cents > balance /\ key \notin Posted
           /\ UNCHANGED <<balance, log, hold>>

----------------------------------------------------------------------------
(* releaseHold *)

ReleaseRead(w, s) ==
  /\ job[w] = Idle
  /\ Open(s)
  /\ ~Busy("release", s)
  /\ job' = [job EXCEPT ![w] = [op |-> "release", s |-> s]]
  /\ UNCHANGED <<balance, log, hold>>

\* The update names the row only: it does not ask whether the hold is still open.
ReleaseCommit(w) ==
  /\ job[w].op = "release"
  /\ Finished(w)
  /\ LET s == job[w].s IN
       hold' = [hold EXCEPT ![s].status = "RELEASED", ![s].released = hold[s].amount]
  /\ UNCHANGED <<balance, log>>

----------------------------------------------------------------------------
(* debitForSession, creditInTx *)

\* Mutants: the balance is not compared; a replayed key subtracts again.
ChargeUnchecked(k, amount) ==
  /\ <<"charge", k>> \notin Posted
  /\ Entered(<<"charge", k>>, -amount)
  /\ UNCHANGED <<hold, job>>

ChargeReplayed(k, amount) ==
  /\ balance >= amount
  /\ Len(log) < 3
  /\ Entered(<<"charge", k>>, -amount)
  /\ UNCHANGED <<hold, job>>

\* Lock, look the key up, subtract if the balance allows it, insert the entry.  A replay
\* and a refusal change nothing.
Charge(k, amount) ==
  /\ <<"charge", k>> \notin Posted
  /\ balance >= amount
  /\ Entered(<<"charge", k>>, -amount)
  /\ UNCHANGED <<hold, job>>

\* A credit looks its key up before it locks the wallet.
CreditRead(w, k) ==
  /\ job[w] = Idle
  /\ <<"credit", k>> \notin Posted
  /\ \E a \in Amounts :
       job' = [job EXCEPT ![w] = [op |-> "credit", k |-> k, amount |-> a]]
  /\ UNCHANGED <<balance, log, hold>>

\* Mutant: no unique index stands behind the look-up.
CreditCommitUnindexed(w) ==
  /\ job[w].op = "credit"
  /\ Finished(w)
  /\ Entered(<<"credit", job[w].k>>, job[w].amount)
  /\ UNCHANGED hold

\* The unique index on the key refuses the second of two overlapping credits, which rolls
\* its addition to the balance back.
CreditCommit(w) ==
  /\ job[w].op = "credit"
  /\ Finished(w)
  /\ LET key == <<"credit", job[w].k>> IN
       \/ key \in Posted /\ UNCHANGED <<balance, log>>
       \/ key \notin Posted /\ Entered(key, job[w].amount)
  /\ UNCHANGED hold

\* The request fails for another reason, or the server dies: the transaction is undone.
Abort(w) ==
  /\ job[w] # Idle
  /\ Finished(w)
  /\ UNCHANGED <<balance, log, hold>>

----------------------------------------------------------------------------
(* Specification *)

Init ==
  /\ balance = Opening
  /\ log = <<>>
  /\ hold = [s \in Sessions |-> NoHold]
  /\ job = [w \in Workers |-> Idle]

WorkerStep(w) ==
  \/ \E s \in Sessions : HoldRead(w, s) \/ CaptureRead(w, s) \/ ReleaseRead(w, s)
  \/ \E k \in Credits : CreditRead(w, k)
  \/ HoldCommit(w) \/ CaptureCommit(w) \/ ReleaseCommit(w) \/ CreditCommit(w)
  \/ Abort(w)

Next ==
  \/ \E w \in Workers : WorkerStep(w)
  \/ \E k \in Charges, a \in Amounts : Charge(k, a)

Spec == Init /\ [][Next]_vars

----------------------------------------------------------------------------
(* Properties *)

\* Type invariant; a capture never takes more than the hold reserved.
TypeOK ==
  /\ balance \in Int
  /\ log \in Seq(Entry)
  /\ hold \in [Sessions -> Hold]
  /\ job \in [Workers -> Job]
  /\ \A s \in Sessions : hold[s].captured <= hold[s].amount

\* However many debits, captures and credits run at once, the balance never goes
\* negative, even though a debit does not look at the open holds.
NeverNegative == balance >= 0

\* The statement explains the balance: each entry's balance is the one before it plus its
\* amount, and the last entry's is the wallet's.
LogExplainsBalance ==
  /\ log = <<>> => balance = Opening
  /\ \A i \in DOMAIN log :
       log[i].after = log[i].amount + (IF i = 1 THEN Opening ELSE log[i - 1].after)
  /\ log # <<>> => balance = log[Len(log)].after

\* No idempotency key is posted twice: a webhook, a retry and a poll that confirm the same
\* payment together, or two captures of one session, move money once.
OncePerKey == \A i, j \in DOMAIN log : log[i].key = log[j].key => i = j

\* What a hold says was captured is what the wallet was debited for that session, also
\* when a release overtakes the capture or the debit is refused.
CapturedIsDebited ==
  \A s \in Sessions :
    /\ \A i \in DOMAIN log : log[i].key = <<"capture", s>> => log[i].amount = -hold[s].captured
    /\ hold[s].captured > 0 => <<"capture", s>> \in Posted

\* The wallet is an account: see module Account.
AccountOf == INSTANCE Account WITH posted <- Posted

\* Every step posts one new key with a balance that stays at or above zero, or changes
\* neither the balance nor what is posted.
ImplementsAccount == AccountOf!Spec
============================================================================
