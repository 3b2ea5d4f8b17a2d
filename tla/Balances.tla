------------------------------ MODULE Balances ------------------------------
(***************************************************************************)
(* The two balances of a user and the ledger beside them, as the requests  *)
(* of the console change them: a recharge adds to one, a correction sets   *)
(* it to a target and books the difference from what was read before;      *)
(* what users spend is debited meanwhile.  A request changes the balance   *)
(* in one statement and the ledger in another.                             *)
(*                                                                         *)
(* A pot is a user and one of the columns account_balance and              *)
(* withdrawable_balance.  `booked` is the sum of the entries the console   *)
(* made for it.                                                            *)
(***************************************************************************)
EXTENDS Integers, FiniteSets

CONSTANTS
  Holders,      \* users
  NoSum,        \* what is not a number
  Sums,         \* amounts in requests, also those that are refused
  Desks,        \* request goroutines
  MaxRequests,  \* bound: requests and debits
  MaxLost       \* bound: ledger entries whose INSERT fails, and goroutines that end early

ASSUME BalancesAssumption ==
  /\ Holders # {} /\ IsFiniteSet(Desks)
  /\ NoSum \notin Int /\ Sums \ {NoSum} \subseteq Int
  /\ MaxRequests \in Nat /\ MaxLost \in Nat

VARIABLES
  balance,   \* the column
  booked,    \* the ledger
  spent,     \* debited without an entry
  desk,      \* the state of each request goroutine
  made,      \* requests and debits so far
  lost,      \* faults so far
  mixed,     \* history: pots whose balance was set after it had moved since it was read
  unbooked   \* history: pots with a change that never reached the ledger

balanceVars == <<balance, booked, spent, desk, made, lost, mixed, unbooked>>

Columns == {"account", "withdrawable"}
Pots == Holders \X Columns

AtDesk(pc, p, amount, before) == [pc |-> pc, pot |-> p, amount |-> amount, before |-> before]
NoRequest == AtDesk("idle", <<CHOOSE u \in Holders : TRUE, "account">>, 0, 0)

BalancesInit ==
  /\ balance = [p \in Pots |-> 0] /\ booked = [p \in Pots |-> 0] /\ spent = [p \in Pots |-> 0]
  /\ desk = [d \in Desks |-> NoRequest]
  /\ made = 0 /\ lost = 0
  /\ mixed = {} /\ unbooked = {}

\* Of what data/user.go calls addBalance, subBalance and setBalance.
AddBalance(p, amount) == balance' = [balance EXCEPT ![p] = @ + amount]
SetBalance(p, amount) == balance' = [balance EXCEPT ![p] = amount]

\* Mutation: the condition of the UPDATE is lost.
SubBalanceAlways(p, amount) == balance' = [balance EXCEPT ![p] = @ - amount]

SubBalance(p, amount) == balance[p] >= amount /\ balance' = [balance EXCEPT ![p] = @ - amount]

Arrive == made < MaxRequests /\ made' = made + 1

\* Deposit credits account_balance: the amount must be positive.
Deposit(d, p, amount) ==
  /\ desk[d].pc = "idle" /\ Arrive
  /\ amount > 0
  /\ desk' = [desk EXCEPT ![d] = AtDesk("add", p, amount, 0)]
  /\ UNCHANGED <<balance, booked, spent, lost, mixed, unbooked>>

Credit(d) ==
  /\ desk[d].pc = "add"
  /\ AddBalance(desk[d].pot, desk[d].amount)
  /\ desk' = [desk EXCEPT ![d].pc = "book"]
  /\ UNCHANGED <<booked, spent, made, lost, mixed, unbooked>>

\* Setting reads the balance first; the target must not be negative and must differ.
SetBalanceAbsolute(d, p, amount) ==
  /\ desk[d].pc = "idle" /\ Arrive
  /\ amount >= 0 /\ balance[p] # amount
  /\ desk' = [desk EXCEPT ![d] = AtDesk("set", p, amount, balance[p])]
  /\ UNCHANGED <<balance, booked, spent, lost, mixed, unbooked>>

WriteTarget(d) ==
  /\ desk[d].pc = "set"
  /\ SetBalance(desk[d].pot, desk[d].amount)
  /\ desk' = [desk EXCEPT ![d].pc = "book"]
  /\ mixed' = IF balance[desk[d].pot] = desk[d].before THEN mixed ELSE mixed \cup {desk[d].pot}
  /\ UNCHANGED <<booked, spent, made, lost, unbooked>>

\* What a request books: a deposit its amount, a setting the difference from what it read.
Difference(d) == desk[d].amount - desk[d].before

\* Mutation: the ledger gets the target instead of the difference.
BookTarget(d) ==
  /\ desk[d].pc = "book"
  /\ booked' = [booked EXCEPT ![desk[d].pot] = @ + desk[d].amount]
  /\ desk' = [desk EXCEPT ![d] = NoRequest]
  /\ UNCHANGED <<balance, spent, made, lost, mixed, unbooked>>

Book(d) ==
  /\ desk[d].pc = "book"
  /\ booked' = [booked EXCEPT ![desk[d].pot] = @ + Difference(d)]
  /\ desk' = [desk EXCEPT ![d] = NoRequest]
  /\ UNCHANGED <<balance, spent, made, lost, mixed, unbooked>>

\* The error of the ledger is ignored; or the request ends before its next statement.
NotBooked(d) ==
  /\ desk[d].pc # "idle" /\ lost < MaxLost
  /\ lost' = lost + 1
  /\ unbooked' = IF desk[d].pc = "book" THEN unbooked \cup {desk[d].pot} ELSE unbooked
  /\ desk' = [desk EXCEPT ![d] = NoRequest]
  /\ UNCHANGED <<balance, booked, spent, made, mixed>>

\* A subscription of the user debits his account balance, an extract the other one.
Spend(p, amount) ==
  /\ amount > 0 /\ Arrive
  /\ SubBalance(p, amount)
  /\ spent' = [spent EXCEPT ![p] = @ + amount]
  /\ UNCHANGED <<booked, desk, lost, mixed, unbooked>>

\* What is not a number is refused before anything is read.
Parsed(amount) == amount # NoSum

AdminRecharge(d, u, amount) == Parsed(amount) /\ Deposit(d, <<u, "account">>, amount)
CompatAdminDeposit(d, u, amount) == Parsed(amount) /\ Deposit(d, <<u, "account">>, amount)
CompatAdminAddMoneyTwo(d, u, amount) == Parsed(amount) /\ SetBalanceAbsolute(d, <<u, "withdrawable">>, amount)
CompatAdminAddMoneyThree(d, u, amount) == Parsed(amount) /\ SetBalanceAbsolute(d, <<u, "account">>, amount)

BalancesNext ==
  \/ \E p \in Pots, amount \in Sums \ {NoSum} : Spend(p, amount)
  \/ \E d \in Desks, u \in Holders, amount \in Sums :
       \/ AdminRecharge(d, u, amount) \/ CompatAdminDeposit(d, u, amount)
       \/ CompatAdminAddMoneyTwo(d, u, amount) \/ CompatAdminAddMoneyThree(d, u, amount)
  \/ \E d \in Desks : Credit(d) \/ WriteTarget(d) \/ Book(d) \/ NotBooked(d)

BalancesSpec == BalancesInit /\ [][BalancesNext]_balanceVars

-----------------------------------------------------------------------------
DeskState == [pc : {"idle", "add", "set", "book"}, pot : Pots, amount : Int, before : Int]

BalancesTypeOK ==
  /\ {balance, booked, spent} \subseteq [Pots -> Int]
  /\ desk \in [Desks -> DeskState]
  /\ made \in 0..MaxRequests /\ lost \in 0..MaxLost
  /\ mixed \in SUBSET Pots /\ unbooked \in SUBSET Pots

\* No balance goes below zero, whatever debits and settings overlap.
NonNegative == \A p \in Pots : balance[p] >= 0

\* The ledger explains every balance (entries less what was spent), also after overlapping requests and
\* debits, unless the balance was set to a target after it had moved, or an entry failed.
BooksBalance ==
  \A p \in Pots \ (mixed \cup unbooked) :
    (\A d \in Desks : desk[d].pc = "book" => desk[d].pot # p) => balance[p] = booked[p] - spent[p]
=============================================================================
