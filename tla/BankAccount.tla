----------------------------- MODULE BankAccount -----------------------------
(***************************************************************************)
(* examples/bank-account: Service with the Account aggregate, and the      *)
(* Ledger view folded over its log.  AccountHandle is given to Service as  *)
(* its Handle.                                                             *)
(***************************************************************************)
EXTENDS Service, SequencesExt

CONSTANTS
    Amount,  \* the amounts in commands; 0 is one the aggregate must refuse
    Width    \* the bits of an unsigned amount or balance: 64

Modulus == 2^Width

ASSUME BankAccountAssumption ==
    /\ Width \in Nat
    /\ Modulus \in Nat \ {0}  \* for the provers, which know nothing of powers
    /\ Amount \subseteq 0..(Modulus - 1)

(* AccountEvent, and one CommandKind type for each operation of the service *)
AccountEvent ==
    [kind : {"Opened", "Closed"}, amount : {0}]
    \cup [kind : {"Deposited", "Withdrawn"}, amount : Amount]

AccountCommand ==
    [kind : {"Open", "Close"}, amount : {0}]
    \cup [kind : {"Deposit", "Withdraw"}, amount : Amount]

(* A handler that decides on one event of the command's amount, or rejects. *)
Event(kind, amount)   == Ok(<<[kind |-> kind, amount |-> amount]>>)
EventIf(condition, d) == IF condition THEN d ELSE Rejected

-----------------------------------------------------------------------------
(* Aggregate::apply, in a build that wraps; one that checks for overflow   *)
(* panics where the balance here wraps.                                    *)
Apply(account, event) ==
    CASE event.kind = "Opened"    -> [account EXCEPT !.open = TRUE]
      [] event.kind = "Deposited" -> [account EXCEPT !.balance = (@ + event.amount) % Modulus]
      [] event.kind = "Withdrawn" -> [account EXCEPT !.balance = (@ - event.amount) % Modulus]
      [] event.kind = "Closed"    -> [account EXCEPT !.open = FALSE]

(* render: the events of the stream folded onto Account::default(). *)
Account(history) == FoldLeft(Apply, [open |-> FALSE, balance |-> 0], history)

(* Handles<Open>, Handles<Deposit>, Handles<Withdraw>, Handles<Close> *)
Open(account) == EventIf(~account.open, Event("Opened", 0))

Deposit(account, amount) ==
    EventIf(account.open /\ amount # 0, Event("Deposited", amount))

Withdraw(account, amount) ==
    EventIf(account.open /\ amount # 0 /\ amount <= account.balance,
            Event("Withdrawn", amount))

Close(account) ==
    EventIf(account.open /\ account.balance = 0, Event("Closed", 0))

AccountHandle(command, history) ==
    LET account == Account(history)
    IN CASE command.kind = "Open"     -> {Open(account)}
         [] command.kind = "Deposit"  -> {Deposit(account, command.amount)}
         [] command.kind = "Withdraw" -> {Withdraw(account, command.amount)}
         [] command.kind = "Close"    -> {Close(account)}

-----------------------------------------------------------------------------
(* LedgerView::apply, in an i128 that no sum of u64 amounts reaches the    *)
(* end of.                                                                 *)
LedgerApply(view, event) ==
    CASE event.kind = "Opened"    -> [view EXCEPT !.accounts_opened = @ + 1]
      [] event.kind = "Deposited" -> [view EXCEPT !.total_balance = @ + event.amount]
      [] event.kind = "Withdrawn" -> [view EXCEPT !.total_balance = @ - event.amount]
      [] event.kind = "Closed"    -> view

NoLedger == [accounts_opened |-> 0, total_balance |-> 0]

(* Mutant: what is withdrawn is not taken off the ledger. *)
LedgerOfDeposits == FoldLeft(LedgerApply, NoLedger,
    SelectSeq(Payloads(log), LAMBDA event : event.kind # "Withdrawn"))

(* replay_view::<LedgerView> of all streams *)
Ledger == FoldLeft(LedgerApply, NoLedger, Payloads(log))

-----------------------------------------------------------------------------
(* Properties. *)

Legal(account, event) ==
    CASE event.kind = "Opened"    -> ~account.open
      [] event.kind = "Deposited" -> account.open /\ event.amount > 0
      [] event.kind = "Withdrawn" -> /\ account.open
                                     /\ event.amount > 0
                                     /\ event.amount <= account.balance
      [] event.kind = "Closed"    -> account.open /\ account.balance = 0

(* The business rules hold of what is recorded, not only of what each      *)
(* handler saw: whatever races or is retried, no account is overdrawn,     *)
(* opened twice, closed with money in it or used while it is not open.     *)
RulesHold ==
    \A s \in Stream : \A v \in 1..CurrentVersion(log, s) :
        Legal(Account(PrefixAt(s, v - 1)), History(log, s)[v])

(* The deposits that carry their account's balance past the end of a u64. *)
Overflows(s) ==
    {v \in 1..CurrentVersion(log, s) :
        /\ History(log, s)[v].kind = "Deposited"
        /\ Account(PrefixAt(s, v - 1)).balance + History(log, s)[v].amount >= Modulus}

(* "Total money held across every account": what the ledger has summed up  *)
(* over the global log is what the accounts' own streams add up to, but    *)
(* for what is lost of a balance each time a deposit overflows it; and it  *)
(* has seen opened every account that is.                                  *)
LedgerHoldsTotal ==
    /\ Ledger.total_balance =
          FoldFunction(+, 0, [s \in Stream |-> Account(History(log, s)).balance
                                               + Modulus * Cardinality(Overflows(s))])
    /\ Ledger.accounts_opened >= Cardinality({s \in Stream : Account(History(log, s)).open})
=============================================================================
