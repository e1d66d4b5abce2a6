--------------------------- MODULE DurableAccount ---------------------------
(***************************************************************************)
(* examples/durable-account: the bank account served by durable_object!.   *)
(* Its events and its apply are those of BankAccount; its commands have no *)
(* Close, and its handlers do not look for an amount of 0.                 *)
(***************************************************************************)
EXTENDS RestateObject, BankAccount

(* Open, Deposit and Withdraw *)
DurableCommand == {command \in AccountCommand : command.kind # "Close"}

DepositAny(account, amount) == EventIf(account.open, Event("Deposited", amount))

WithdrawAny(account, amount) ==
    EventIf(account.open /\ amount <= account.balance, Event("Withdrawn", amount))

DurableHandle(command, history) ==
    LET account == Account(history)
    IN CASE command.kind = "Open"     -> {Open(account)}
         [] command.kind = "Deposit"  -> {DepositAny(account, command.amount)}
         [] command.kind = "Withdraw" -> {WithdrawAny(account, command.amount)}

(* The methods of service!'s object, one for each command. *)
Method(id, key, command) ==
    [id |-> id, key |-> key, handler |-> "submit", command |-> command]
=============================================================================
