# Verification of jinniu-new2

TLA+ models, TLC runs and TLAPS proofs for the Go backend in `src/app/app`: a
subscription platform whose money moves through four protocols. Deposits arrive
on chain and are credited; users subscribe orders ("locations") that earn daily
and reward their inviters; users extract what was earned; extracts are paid on
chain. Around them are accounts with their referral paths, levels, balances and
parameters that administrators change, and the lists and totals they look at.
All of it is sequences of single SQL statements and RPC calls, with
no transaction around them, run by HTTP handlers, spawned goroutines and crons that
overlap. That is where this code is hard to test, and what the models are about.

Paths below are relative to `src/app/app/internal` unless they start with `src/`.

## 1. The system

| component | state | operations | who calls it |
|---|---|---|---|
| withdraws table (`data/withdraw.go`) | one row per extract: status, amount, credited amount, `tx_hash` | `Create`, `CasClaimPayout`, `SetTxHash`, `MarkPass`, `CasUpdateStatus`, `ListPayoutQueue`, `ListFiltered` | extract submission, payout, cancel at start |
| extract submission (`biz/record.go`, `CreateWithdraw`, `CancelAllPendingWithdraws`) | `users.withdrawable_balance` | check, debit, insert, turn the rates of the user's orders, spawn the payout; refund of legacy `pending` rows | HTTP; program start |
| payout (`biz/payout.go`, `pkg/payout/usdt.go`, `server/payout_cron.go`) | `payoutMu` per process, transfers on chain | `ProcessWithdrawPayout`, `confirmPayout`, `ConfirmWithdrawPayout`, `RunPayoutQueue` | spawned goroutine, admin, cron |
| chain deposits (`service/deposit.go`, `biz/record.go`, `data/eth_record.go`, `server/deposit_cron.go`) | `eth_user_record`, one row per contract number; its maximum is the cursor | pull a round, credit, skip, replay a skipped one | cron, admin |
| orders (`biz/record.go`, `data/location.go`, `data/settle_run.go`, `server/settle_cron.go`) | `locations` rows; `settle_runs`, one row per settled day; `settleMu` per process | `CreateLocation`, `SettleStatic`, the rate turn of an extract | HTTP, cron, admin |
| dynamic rate (`biz/rate.go`) | rate, direction, pending flag and last settled rate of an order | `AdvanceRate`, `ApplyExtractRateTurn`, the clearing of a turn | settlement, extract |
| rewards (`biz/community.go`, `biz/generation.go`) | none: functions of the referral tree and the day's yields | generation unlocking, levels, gap and peer lines | settlement |
| accounts (`biz/user.go`, `data/user.go`, `data/recommend.go`) | `users` (address, inviter, lock), `user_recommends` (the path of inviters), `login_challenges` | `CreateLoginChallenge`, `Login`, `EthAuthorize` with registration; `SetUserLock`, `SetLineLock` | users, admins |
| authentication (`pkg/middleware/auth`) | tokens, kept by their holders | issue, check of expiry | every request |
| levels (`biz/record.go`, `data/user.go`) | `community_level`, `community_level_locked` | `SetVIP`, `UnlockVIP`; the refresh of `settleCommunity` | admins; settlement |
| balances (`biz/user.go`, `data/user.go`) | `account_balance`, `withdrawable_balance` | `Deposit`, `setBalanceAbsolute`, add, subtract | admins, all of the above |
| parameters (`biz/params*.go`, `data/params.go`) | `business_configs` rows; `activeParams` of each process | seed, load, `UpdateConfig` | program start, admins; read by all |
| ledger and dashboards (`biz/ledger.go`, `data/ledger.go`, `service/compat.go`) | append-only rows | append; list by pages, sum | all; nothing decides on it |
| HTTP services, wiring, scripts | none of their own | translation, start-up | |

Interactions: the components share one MySQL database and call each other
directly. `CreateWithdraw` writes orders (the rate turn) that a settlement may be
writing too, and spawns the payout goroutine. Settlement reads the referral tree
and pays into the balance extracts draw on. Two mutexes (`payoutMu`,
`settleMu`) exclude goroutines of one process; across processes only conditional
UPDATEs and UNIQUE keys do (`settle_runs.settle_date`, `eth_user_record.last`).

What is hard: statements of two goroutines interleaved at every point; rows read
before and written after others have changed them (an order's `Update` writes
every mutable column); a process that ends between an effect and its record; an
effect whose answer is lost; deadlines that pass while a receipt is awaited;
work that must eventually be done by a cron; integer rounding of fees, yields
and rates at their bounds. `PROJECT.json` lists each of these hazards at its
line, with the properties that cover it or the reason none does.

What makes each component correct:

- **extracts**: balance, live rows and requests together conserve money; a row
  that is paid or cancelled is final;
- **payout**: a withdraw is transferred at most once, is marked paid only after
  its transfer arrived, and is paid in the end;
- **deposits**: no deposit is added twice, none is passed over, and one of a
  registered user is credited in the end;
- **orders**: an order pays exactly what it accumulates, ends exactly at its
  target, never loses progress, is turned once per cycle, and exits in the end;
- **accounts**: a challenge lets one login through; one user per address; a path
  is a chain of inviters, and what went wrong in one registration does not spread;
  a lock reaches the line it is for, and no token of a locked user outlives it by more than a bounded time;
- **levels**: a level given by hand stays; **balances**: never negative, and
  explained by the ledger; **parameters**: always valid, never reset, and in force
  where they were entered; **lists and dashboard**: nothing is missed, and
  today's earnings are among all earnings.

## 2. Modules

```
WithdrawTable --+-- Withdraw --+
                +-- Payout ----+-- WithdrawSystem --+-- MCWithdraw
                                      |  implements PayoutOnce
                                      +-- WithdrawProofs -- MoneyProofs
ChainDeposit --+-- MCDeposit          implements DepositOnce
               +-- DepositProofs
OrderRules -- Community -- AtomicOrders -- Orders --+-- MCOrders
                                                    +-- OrdersProofs -- OrderMoneyProofs
Accounts, Levels, Balances, Params,
Reports, Rules (uses Community) ------ MCBackoffice -----+-- BackofficeProofs
Accounts ----------------------------- AccountsProofs ---+
```

`MoneyProofs`, `OrderMoneyProofs`, `AccountsProofs` and `BackofficeProofs` also use
`SumTheorems`, lemmas about sums over finite sets and about induction over numbers
that belong to no component.

| module | models | code |
|---|---|---|
| `WithdrawTable` | the table; one operator per SQL statement | `data/withdraw.go` |
| `Withdraw` | `Submit`, `Debit`, `Insert`, `Refund`, `Turn` = the statements of `CreateWithdraw`; `CancelList`, `CancelCas`, `CancelCredit` = `CancelAllPendingWithdraws`; `...Fails` = their error paths | `biz/record.go` |
| `Payout` | a worker is a goroutine inside `ProcessWithdrawPayout` or `ConfirmWithdrawPayout`; its `pc` names the call it is about to make (`lock`, `load`, `claim`, `reload`, `send`, `save`, `wait`, `mark`); `RunPayoutQueue` and `TakeNext` are the queue; the chain (`tx`) is external | `biz/payout.go`, `pkg/payout/usdt.go`, `server/payout_cron.go` |
| `WithdrawSystem` | both over one table, joined by the spawned goroutine (`AsyncPayout`) and by `Crash`; the properties; the refinement mapping | the two together |
| `PayoutOnce` | the abstract promise: owed, sent once, arrived, settled | `src/docs/adr/0010-withdraw-onchain-payout.md` item 4 |
| `ChainDeposit` | pulling goroutines (`StartRound`, `ReadLength`, `Fetch`, `Skip`, `EndRound`), crediting (`Claim` = the INSERT, `AddAccountBalance`, `Undo`, `Park`), replaying (`Replay`, `LookUp`, `Delete`), arrivals and registrations | `service/deposit.go`, `biz/record.go`, `data/eth_record.go` |
| `DepositOnce` | the abstract deposit: reported, decided once (skipped or claimed), credited for good, and opened again only where it never reached a balance | `src/docs/adr/0007-chain-deposit-new18new.md:17-26` |
| `OrderRules` | arithmetic of rates, yields, tiers and generations | `biz/rate.go`, `biz/generation.go` |
| `Community` | referral tree, small-area volume, levels, gap and peer lines | `biz/community.go` |
| `AtomicOrders` | the abstract order: the row, and what opening, settling, accelerating and turning one does to it, each at once (`AtomicSpec`); `Orders` computes its writes with the same operators | `biz/record.go`, `data/location.go` |
| `Orders` | `Subscribe`..`Create` = `CreateLocation`; `ListTurns`, `Turn` = the rate turn; `Lock`, `TryClaim`, `ForceSettle`, `ListActive`, `Load`, `Pay`, `Save` = the static part of `SettleStatic`; `Climb` = generation rewards; `Fill`, `Write`, `CreditFilled` = `creditOrderAcceleration`; `RefreshLevels`, `TakeLine`, `StartPeers`, `Finish` = the community part | `biz/record.go` and below |
| `Accounts` | a `visit` is a request inside `Login` or `EthAuthorize`, its `pc` the statement it is about to make (`mark`, `find`, `inviter`, `create`, `parent`, `save`) or, in the end, its token (`issue`); `line` is a request inside `SetLineLock`; `tokens` are those the middleware accepts at `now` | `biz/user.go`, `data/user.go`, `data/recommend.go`, `pkg/middleware/auth`, `biz/record.go:927-961` |
| `Levels` | `SetVIP`, `UnlockVIP`; `ListAll` and `UpdateCommunity` = the refresh inside `settleCommunity` | `biz/record.go:667-734,908-925`, `data/user.go` |
| `Balances` | `Deposit`, `Credit`; `SetBalanceAbsolute` (the read), `WriteTarget`; `Book` = the ledger entry that follows; `Spend` = the debits of orders and extracts | `biz/user.go:326-425`, `data/user.go:287-340` |
| `Params` | `CountRows`, `Save` = `seedIfEmpty`; `LoadMap`, `GetDefaults`, `SetActiveParams` = a load; `UpdateConfig`, `ListConfigs`, `UpdateValue` = an update, which goes on to a load, unless the value was there already (`UpdateUnchanged`); `Boot`, `Stop` = a process | `data/params.go`, `biz/params.go`, `biz/record.go:509-519` |
| `Reports` | the lists, each by what it shows and whether it counts first; `Open`, `Count`, `Select`, `PaginateSlice` = somebody who goes through one; `Statements` = the earnings of `DashboardStats`, read by `ReadFigure` | `service/compat.go`, `data/*.go`, `biz/record.go:1014-1029` |
| `Rules` | pure rules, asked and answered: `ParseSubscribeTiers`, `AggregateBusinessParams` with `FlattenBusinessParams`, `AmountAsUSDT`, and the gap rates of `Community` | `biz/params*.go`, `service/deposit.go:469-478`, `biz/community.go` |
| `MC*` | small instances | |
| `*Proofs`, `SumTheorems` | theorems | |

One action is one statement, one RPC or one read, with the pure code that
follows it up to the next call; every error path is an action of its own, or a
disjunct. Definitions after a comment "Mutation:" are not part of the model:
each is a plausible bug of the definition that follows it, kept to check that
the properties notice it. `PROJECT.json` maps each definition to its lines.

### Abstractions

- Money is an integer in its smallest unit, a rate a fraction of `Scale` (or
  basis points), rounded as the code rounds. Parameters are constants: an
  operation sees one version of them.
- Columns nothing decides on (`payout_error`, remarks, counts, timestamps) and
  ledger rows are left out. Contexts appear as deadlines that may pass.
- *Payout*: the rate turn inside `CreateWithdraw` is one step that succeeds or
  fails; its effect on orders is in `Orders`. A hash is the identity of its
  transfer.
- *Deposits*: `credited[i]` counts how often deposit `i` was added to a
  balance. The look-up of a batch's depositors is one step. `Crash(g)` ends one
  goroutine, since goroutines may be of different processes. The admin's
  catch-up is a sequence of rounds.
- *Orders*: `earned` is what orders added to the withdrawable balance; extracts
  from it are in `Withdraw`. A multiplier is an integer. VIP locks and reward
  locks are constants, as admins set them between settlements. Midnight comes
  when no settlement runs. The lines of one receiver are credited in any order,
  as the code walks a map. The upsert at the end of a settlement marks the day as settled also
  after a forced one; that its error is ignored is the same as ending before it.
- *Accounts*: the id of a user is his place in the table (`AUTO_INCREMENT`). A
  request that a check turns down before it has changed anything is no action.
  Signatures are genuine. One administrator at a time locks a line. A token is kept only while it is accepted. Of
  `disabled_at` the code only asks whether it is NULL, and so does the model. `cut`
  remembers whose path may lack ancestors, `passed` how many logins a challenge
  let through, `shut` when the UPDATE was made that locked a user, and `took` of a token how
  long its request had its user in hand before the token was issued; the code has none of them.
- *Levels*: the level a refresh computes is any, as it depends on orders.
- *Balances*: a pot is a user and a column. Credits by other components are
  like a recharge, except that the console makes no entry for them.
- *Parameters*: a value is valid or not by itself, as `ValidateBusinessParams`
  compares no two of them. Reading a copy takes no step: what an operation sees is the
  copy at one moment.
- *Reports*: every list is a set of rows in the order of their ids; every amount
  is 1. Rows are never deleted; the user's lists of rewards and deposits leave out what is older
  than a year (`Window`, in days of the calendar), no other list filters by what can change. Of the
  dashboard only the earnings are modelled: each other figure has a statement of its own, its total
  before that of today, and nothing is claimed of those.
- The settlement of some order ids on request claims the whole day for everyone
  (`service/app.go:303`); the model includes it as the code has it, and the rest
  of the orders then waits for the next day.

## 3. Runs

| run | instance | properties |
|---|---|---|
| `payout_single` | 1 process, 2 requests, a worker and a cron, balance 3 and extracts of 2, one legacy pending row and one row above the cap; sends fail, deadlines pass | `AtMostOneTransfer`, `FundsConserved`, `PaidWithinDebited`, `ImplementsPayoutOnce`, `EventuallyPaid` |
| `payout_faults` | the same with every kind of failure | `TypeOK`, `PassMeansPaid`, `PassHashPaid`, `NoMoneyFromNothing`, `NoSendOnceRecorded`, `SettledIsFinal` |
| `deposit_live` | a cron, an admin pulling, an admin replaying, 3 deposits in batches of 2, amounts on both sides of the minimum; chain calls fail | `NoDepositForgotten`, `RegisteredIsCredited` |
| `deposit_faults` | the same with crashes, failing statements and lost answers | `DepositTypeOK`, `CreditedOnce`, `ImplementsDepositOnce` |
| `orders_daily` | 3 users in a chain, the crons of 2 processes, 3 orders, 1 request; no failures | `EarnedIsAccumulated`, `TurnNeverRaises`, `OrdersExit` |
| `orders_faults` | 1 process, the cron and an admin who may force a settlement, 2 requests, one goroutine may end early anywhere | `OrdersTypeOK`, `ExitedIffFull`, `TurnIsOfLast`, `OrdersArePaid`, `ImplementsAtomicOrders` |
| `backoffice` | scenes, below | `BackofficeTypeOK`, `NonceOnce`, `PathIsLineage`, `PathExtendsInviters`, `LineExact`, `LockedOut`, `GrantedLevelStays`, `NonNegative`, `BooksBalance`, `ConfigValid`, `SeedNeverOverwrites`, `ActiveIsFresh`, `NothingMissed`, `TodayWithinTotal`, `ReadsExactly`, `GapWithinTop` |

Five more runs each show one statement of the documentation that the code does not
keep; section 6 has them.

**Scenes.** The components of `backoffice` share no state that a step of another
decides on, so their product would only multiply states. A behaviour of
`MCBackoffice` picks a scene in its first state and follows one component; all
others stay as they were:

| scene | component | instance |
|---|---|---|
| `registry` | `Accounts` | the first user and two registrations at once, under him or under each other, a path that is not read or saved, one lock of a line; no login, no clock |
| `sessions` | `Accounts` | logins with and without a challenge of a user and of one nobody invites, against locks and the clock, which may move between any two statements; two challenges, tokens of one tick, a clock of two |
| `levels` | `Levels` | 2 users, 2 levels, 2 settlements |
| `balances` | `Balances` | both balances of one user, 2 requests at once, 3 requests and debits in all, amounts -1 to 2, one entry lost |
| `params` | `Params` | 2 processes, 2 keys with two values of which one key refuses one, 2 goroutines, 2 updates, one failure or restart; the table provisioned or empty |
| `reports` | `Reports` | 3 rows and 2 more, pages of 2, every list, a midnight at which the lists of the last year lose their older rows; or the dashboard over a midnight |
| `rules` | `Rules` | every text of up to three parts, every small table, payments around the unit, every rate table of three levels and all levels of three people above a fourth |

`Accounts` has two scenes because what registrations and sessions share is only
the table of users, which logins do not write. In `registry` the constraint `Registry`
fixes who registers under whom and admits faults only where they cut a path (a
failure elsewhere ends a request that has left nothing); in `sessions` nobody
but the first user can register. What both leave out is covered by the theorems, which have
no such constraint.

`SettledIsFinal` is about every row that no call may pay again: paid, cancelled, or
`doing` with the hash of a transfer that was reverted. Every retry enters the last kind
again through the confirm path and must leave it as it is. `ImplementsAtomicOrders` is
the refinement of `AtomicOrders`: whatever is read long before it is written, each step
changes the table as if one order had been opened, settled, accelerated or turned at
once, on the row as it stands, or not at all.

`ImplementsDepositOnce` says of deposits what `PayoutOnce` says of extracts. Each
statement of a round or a replay moves at most one deposit by one stage: an open one is
skipped, or claimed if it is large enough and its depositor registered; a claimed
one is credited or, when the balance was not updated, given back; a skipped one is taken
up again if it deserves to be; a credited one stays so. A row that is deleted by its
number must therefore be the one its goroutine knows.

`GrantedLevelStays`, `BooksBalance`, `ActiveIsFresh` and `NothingMissed` name the
overlap that breaks them as an exception (`raced`, `mixed`, `behind`, `torn`):
each is true only outside a particular window of the code, and the history variable is
that window. `NothingMissed` asks for the rows that were in the list at the first page and still are at
the last: who pages through the last year cannot be shown what has left it. `LockedOut` bounds a token by
what the code does bound it by: a lock does not reach a login that has found its user unlocked, and
`tokens.Issue` reads the clock later (`biz/user.go:195`, `:198`), so a token of a locked user may outlive
his lock by `TokenTTL` and the time its request took in between, and by no more. `TodayWithinTotal` is
about earnings, whose total is read last. `LineExact` excuses a lock of a root whose own registration was still
going on (`rash`). `AmountExact`, a part of `ReadsExactly`, leaves out deposits below one USDT
that are reported in wei, which the code takes for up to 10^18 USDT.

**Bounds.** Two goroutines of each kind that can race are enough for every
hazard listed: each is a race of two actors on one row or one balance. Three
withdraws let two requests and a legacy row meet; a balance of 3 against
extracts of 2 makes the second debit fail. Three transfers are two more than one
withdraw may have. Three deposits in batches of two make a round cross a
batch boundary. In the orders runs targets are twice the amount and rates 40 to 80 %,
so that an order exits within a few days, the rate reaches both of its bounds, the
last yield is cut to the room left, and rewards fill an order between its being
listed and its being read. `orders_faults` takes bounds the step does not divide
(40 to 70 by 20), so that the bounce is cut. `MaxFailures = 1` lets one goroutine
end at any statement, and the others meet the tables as it left them; that any
number of failures changes nothing is what the theorems add. Where requests differ in nothing but
their name, the safety runs use symmetry; the liveness runs use none.

**Deadlock** is checked except where the system may stop: in `deposit_live`,
`payout_dropped` every deposit and row may be dealt with and nobody obliged to act,
and a scene of `backoffice` ends at its bounds.

**Fairness.**
- *Payout*: started goroutines run; `sync.Mutex` starves nobody (strong fairness of
  `Lock`); the cron ticks (`server/payout_cron.go:27-48`); the chain mines what
  stays pending; a node asked again and again answers, so that a send gets out and a receipt is had
  (strong fairness of `Send`, and of `Receipt` for the cron).
  Users and admins owe nothing.
- *Deposits*: the cron starts a round every minute; a node that is asked again
  and again answers, and a round gets past any given deposit before its time is up
  (strong fairness of `ReadLength`, `Fetch` and `Skip \/ Claim`); a claimed
  deposit is added, which has no deadline in between.
- *Orders*: days pass; on each day some cron takes the mutex and the claim; a
  settlement and a started turn go on.
- *Back office*: none; its properties are all safety. The two goroutines of a scene are
  interchangeable, and the run uses that symmetry.

**Assumptions of the orders runs.** `TurnsMayOverlap = FALSE` keeps the rate
turns of extracts out of the time a settlement takes. The code does not do that:
it is an operational condition, and run `orders_overlap` shows what happens
without it. The payout properties take one process, which `src/CONTEXT.md:63`
requires of deployments that pay out; `PassMeansPaid` needs no such assumption.

`TurnNeverRaises` depends on parameters: it holds where the step divides the
range of rates (`WholeSteps` of its theorem), as the defaults do. Otherwise a turn of a
rate less than a step above the minimum bounces upward.

## 4. Proofs

TLAPS checks these for every value of the constants that satisfies the named
assumptions: any number of users, rows, goroutines, processes.

| theorem | statement | assumes |
|---|---|---|
| `WithdrawProofs!TypeCorrect` | `Spec => []TypeOK` | nothing |
| `WithdrawProofs!PaidWasPaid` | `Spec => []PassMeansPaid` | nothing |
| `WithdrawProofs!PaidHashIsItsOwn` | `Spec => []PassHashPaid` | `SingleInstance` |
| `WithdrawProofs!RecordedNeverSentAgain` | `Spec => NoSendOnceRecorded` | `SingleInstance` |
| `WithdrawProofs!SettledStaysFinal` | `Spec => SettledIsFinal` | `SingleInstance` |
| `WithdrawProofs!TransferredOnce` | `Spec => []AtMostOneTransfer` | `SingleInstance`, `NoGap` |
| `WithdrawProofs!PayoutIsOnce` | `Spec => ImplementsPayoutOnce` | `SingleInstance`, `NoGap` |
| `MoneyProofs!NothingFromNothing` | `Spec => []NoMoneyFromNothing` | `"insert" \notin Faults` |
| `MoneyProofs!NothingLost` | `Spec => []FundsConserved` | `Quiet` |
| `MoneyProofs!NeverPaysMoreThanDebited` | `Spec => []PaidWithinDebited` | `SingleInstance`, `NoGap`, `LegacyNet`, `"insert" \notin Faults` |
| `DepositProofs!DepositTypeCorrect` | `Spec => []DepositTypeOK` | nothing |
| `DepositProofs!DepositCreditedOnce` | `Spec => []CreditedOnce` | `OneReplay`, `UpdatesAnswer` |
| `DepositProofs!DepositStaysRecorded` | `Spec => []CreditedIsRecorded` | `OneReplay`, `UpdatesAnswer` |
| `DepositProofs!NoneForgotten` | `Spec => []NoDepositForgotten` | `ReplaysComplete` |
| `DepositProofs!DepositsAreOnce` | `Spec => ImplementsDepositOnce` | `OneReplay`, `UpdatesAnswer` |
| `OrdersProofs!OrdersTypeCorrect` | `Spec => []OrdersTypeOK` | nothing |
| `OrdersProofs!ExitExact` | `Spec => []ExitedIffFull` | nothing |
| `OrdersProofs!TurnedOnce` | `Spec => []TurnIsOfLast` | `Apart`, `OneAtATime` |
| `OrdersProofs!ProgressKept` | `Spec => ProgressNeverFalls` | `Apart`, `OneAtATime` |
| `OrdersProofs!OrdersAreAtomic` | `Spec => ImplementsAtomicOrders` | `Apart`, `OneAtATime` |
| `OrderMoneyProofs!OrdersWerePaid` | `Spec => []OrdersArePaid` | nothing |
| `OrderMoneyProofs!EarnedExactly` | `Spec => []EarnedIsAccumulated` | `Apart`, `OneAtATime`, `MaxFailures = 0` |
| `OrderMoneyProofs!TurnedDown` | `Spec => []TurnNeverRaises` | `Apart`, `OneAtATime`, `WholeSteps` |
| `OrderMoneyProofs!SettlementsPay` | `Spec => EachSettlementPays` | `Apart`, `OneAtATime`, `LeastYields` |
| `AccountsProofs!AccountsTypeCorrect` | `AccountsSpec => []AccountsTypeOK` | nothing |
| `AccountsProofs!ChallengesLetOneThrough` | `AccountsSpec => []NonceOnce` | nothing |
| `AccountsProofs!ReferralsAreAForest` | `AccountsSpec => []ReferralForest` | nothing |
| `AccountsProofs!LocksShutOut` | `AccountsSpec => []LockedOut` | nothing |
| `AccountsProofs!PathsNameNoStranger` | `AccountsSpec => []PathIsLineage` | nothing |
| `AccountsProofs!PathsExtendTheInviters` | `AccountsSpec => []PathExtendsInviters` | nothing |
| `AccountsProofs!LineLocksAreExact` | `AccountsSpec => []LineExact` | nothing |
| `BackofficeProofs!GrantedLevelsStay` | `LevelsSpec => []GrantedLevelStays` | nothing |
| `BackofficeProofs!BalancesStayNonNegative` | `BalancesSpec => []NonNegative` | nothing |
| `BackofficeProofs!LedgerExplainsBalances` | `BalancesSpec => []BooksBalance` | nothing |
| `BackofficeProofs!ConfigStaysValid` | `ParamsSpec => []ConfigValid` | nothing |
| `BackofficeProofs!SeedingKeepsValues` | `ParamsSpec => []SeedNeverOverwrites` | nothing |
| `BackofficeProofs!ActiveStaysFresh` | `ParamsSpec => []ActiveIsFresh` | nothing |
| `BackofficeProofs!ReportsTypeCorrect` | `ReportsSpec => [](ReportsTypeOK /\ RowsInv)` | nothing |
| `BackofficeProofs!ReadersMissNothing` | `ReportsSpec => []NothingMissed` | nothing |
| `BackofficeProofs!TodayIsWithinTotal` | `ReportsSpec => []TodayWithinTotal` | nothing |
| `BackofficeProofs!GapsStayWithinTop` | `RulesSpec => []GapWithinTop` | nothing |
| `BackofficeProofs!RulesReadExactly` | `RulesSpec => []ReadsExactly` | nothing |
| `BackofficeProofs!ScenesAreBehaviours` | `Spec` of `MCBackoffice` implies `AccountsSpec`, `LevelsSpec`, `BalancesSpec`, `ParamsSpec` and, in their scenes, `ReportsSpec`, `RulesSpec` | nothing |
| `BackofficeProofs!BackofficeTypeCorrect` | `Spec => []BackofficeTypeOK` | nothing |
| `BackofficeProofs!BackofficeIsSafe` | `Spec` of `MCBackoffice` implies the 15 other invariants of `backoffice` | nothing |

"Nothing" is nothing beyond the named assumption of the module, which says that
bounds are numbers, defaults are valid and so on. The others:

| assumption | meaning |
|---|---|
| `SingleInstance` | one process pays out, as `src/CONTEXT.md:63` requires |
| `NoGap` | nothing separates a transfer from the record of its hash: no crash, no failing statement, no lost answer of a send |
| `"insert" \notin Faults` | no INSERT of an extract takes effect and reports an error, which would refund a row that exists |
| `Quiet` | no process ends and no statement fails; the chain may fail as it likes |
| `LegacyNet` | rows older than the program's start credit no more than they debited |
| `OneReplay`, `UpdatesAnswer` | one skipped deposit is replayed at a time; no UPDATE takes effect and reports an error |
| `ReplaysComplete` | no statement fails or reports a failure after taking effect, and where there are replays no process ends and no answer is lost; pulls may do both, and the chain may fail as it likes |
| `LeastYields` | the smallest order at the lowest rate yields at least one unit, after rounding; no validation asks for it (`biz/params.go:113-157` admits a `rate_min` of 0) |
| `Apart` | the rate turns of extracts keep out of the time a settlement takes |
| `OneAtATime` | settlements share a process, or none is forced |
| `WholeSteps` | `rate_max` is `rate_min` and some whole steps |

The arguments:

- **Types of extracts** (`TypeInv`): a row's number is in the hands of the
  goroutine that writes it, which must be carried along to type the writes.
- **Paid was paid** (`PaidInv`): a transfer in a worker's hands, or the hash of a row,
  is always one sent for that very withdraw (`HashKnown`, `InHand`), and a worker
  at `mark` has seen it succeed (`Marking`). No mutual exclusion is needed: two
  processes may overwrite each other's hash, but only with one that is theirs
  to write.
- **One process** (`OneInv`): `payoutMu` admits one worker (`Exclusive`), so what
  it read of the row still holds when it acts: at `send` the row is `doing`
  without a hash (`AtSend`), at `wait` its hash is the transfer in hand
  (`AtWait`). Hence a recorded hash is never sent again nor overwritten, also
  through crashes. At most one transfer needs more (`OnceInv`): that every transfer
  is in the row or in the worker's hand (`Remembered`), which a crash, a failed
  statement or a lost RPC answer breaks: that is `NoGap`. Run `payout_double` is
  the counterexample without it.
- **Refinement**: under `OnceInv` each step moves at most one withdraw by one stage of
  `PayoutOnce`, or none.
- **Money of extracts** (`FundsInv`): each sum over rows and over requests changes in one
  term at a step (`SumChange`), and an extract moves its amount from one of them to the
  other: debit, insert and refund each keep balance + live rows + held. Who is about to
  give a row back has cancelled it (`CreditCancelled`), so it is live no longer.
  `PaidOutInv` adds that each transfer has a row of its own (`OnceInv`) and takes
  no more than was debited for that row; the sum over transfers is then paired off
  against the sum over rows (`SumPaired`).
- **Deposits** (`OnceInv`): the INSERT under the UNIQUE number makes its writer the
  owner of the deposit until it has been added or undone (`OwnersAlone`), and
  what a single replay found skipped stays so until it deletes it
  (`FoundStaysSkipped`). With two replays the second fails, and run
  `deposit_double` shows it. `KeptInv`: a pull has a row written, or in hand, for
  every number it leaves behind; only what deletes a row, a replay or an undone
  claim, may not stop half-way, so a pull may end at any statement.
- **Abstract deposit** (`AllFit`): what a goroutine has found out about a deposit (that its
  user was registered when the batch was looked up, that its row was skipped, that it
  is the one that claimed it) still fits the stage the deposit is in when it acts.
  Registrations are never withdrawn and only the owner of a claim ends it, so what was
  read in an earlier statement is enough.
- **Exit** (`Good`): every row in the table, in a settlement's hand and in an
  extract's list is *sound* by itself: below its target while active, at it
  when over. Every row written is computed from a sound one, so it does not matter
  how stale that is: `ExitExact` holds with overlaps, forced settlements and
  crashes.
- **Turns and progress** (`AloneInv`): here staleness matters. With one
  settlement at work (`AloneAtWork`, from `settleMu` in one process or from the
  claim of the day when nothing is forced) and no turn beside it
  (`TurnsKeepAway`), the row in hand was computed from the row that still stands
  (`HandIsFresh`), and a listed row has at most been turned meanwhile, by another
  request of the same user (`ListIsFresh`); turning it again gives the same row.
- **Atomic orders**: by the same invariant the row a settlement or a reward writes is
  `Settled` or `Progress` of the row that stands, although it was read several statements
  before, so each write is a step of `AtomicOrders`.
- **Orders were paid** (`KinInv`): owner and amount of an order never change, and every copy
  in somebody's hands agrees on both, so no stale write can make an order dearer. What a
  user's orders cost, what his requests have debited and what is left is then
  never more than he had, whichever goroutine ends where.
- **Earned is accumulated** (`EarnInv`): with what settlements have credited and not saved
  yet, or saved and not credited yet, earned and accumulated are equal for each user at
  every step (`Balanced`).
- **Settlements pay** (`AmountsStand`): an active order has an amount of at least the minimum,
  so what it yields at its rate rounds to at least one unit, and the room left of an
  active order is positive (`Good`); each day's write therefore raises it. With
  days that pass (the fairness of `orders_daily`) this is why orders exit; a day at a
  rate of 0 would leave them where they were.
- **Turns go down** (`StepInv`): every rate, also one in a list or in hand, is a whole
  number of steps above `rate_min`, so `Fall` never bounces.
- **Types of accounts** (`Held`): what a request holds (a challenge, an inviter, the id of
  its user) exists from the statement on that found or made it, since no table loses a
  row.
- **Locks** (`VisitInv`, `TokenInv`): as long as its user is locked, a request that has him in hand had
  found or created him by the time of the lock (`Sooner`), and nobody locked is found; so when a token is
  issued, its time less what its request took is not after the lock. Locking a locked account again moves nothing.
- **Paths** (`ChainTo`): what a request carries as its path is itself a chain of inviters
  that ends in its user, also when the inviter's path was read empty; inviters never change, so
  a chain stays one as the table grows. For the stronger `PathExtendsInviters`
  every statement is `Gentle` to whoever is not being registered: it changes neither
  his path nor his inviter nor whether he is cut, and an inviter who is whole when
  his path is read keeps it.
- **Line locks**: `Lineage`, recursive over the inviters, has a value because an inviter has
  a smaller id. Who is below the root by whole paths is then decided by paths as they
  stand, and a path that is saved is not written again; a row locked or not locked
  by the statement stays so until the lock has ended, or the lock is excused (`rash`).
- **Levels** (`StaysInv`): a user with a granted level who is not `raced` is in the hands of no
  settlement that read him unlocked.
- **Balances** (`DeskInv`): the amount a request carries was checked when it came
  and is not negative. For `BooksBalance` (`BooksInv`): what a balance has beyond its
  entries is the sum of what the desks have yet to book (`Pending`).
- **Parameters** (`ParamsInv`, `JobHolds`): a copy that is about to be published is the
  table's or is marked stale, and every map in a goroutine's hand is valid. An update that
  validated other rows than it writes beside does no harm because validity does not
  relate two rows.
- **Lists** (`WalkInv`): what a reader has not seen of what was there when he began, and still is, stands
  below the pages he has read. Rows that come in can only push it down and show him some twice; rows
  that grow too old leave from the end of the list, as later rows are not of earlier days (`RowsInv`), and
  change no place above them (`PlacesAtMidnight`).
- **Dashboard** (`BoardInv`): rows stay, so today's earnings, which are read first, are at most
  what the later statement of all earnings counts.
- **Gaps**: along the chain upwards the gap lines paid so far sum to at most the rate of the
  highest level met (`GapsUpTo`, a telescoping sum); with rates that do not
  fall with the level that is at most the top rate.
- **Reading** (`ReadInv`): after each part of the text the amounts read are those parts, each
  once; the inner loop of the sort leaves the least of what is left at its place, and an exchange
  changes no set of values. A table has the rows of some number of tiers and some set of
  levels, which Aggregate finds again.

Induction is carried out on counterexamples: a finite set of them has a smallest member
(`FiniteMinimal`, `NatMinimal`, from the library's well-foundedness of finite sets),
and without it there are none (`FiniteGrowth`, `Steps`). `SumTheorems` gets from this the value of
`SumFunctionOnSet` over any finite set, and that a recursive function over `0..n` has the
values its definition says (`Recursion`), which is all the modules' recursive
functions need.

- **Scenes**: a step of `MCBackoffice` is one of the component of its scene, under
  further conditions, and leaves the others as they are (`SceneSteps`); so each
  behaviour is one of every component, and what is proved of a component is proved of
  the run.

Only model-checked: what needs liveness (`EventuallyPaid`, `RegisteredIsCredited`,
`OrdersExit`), which is out of the prover's reach. The other 37 properties of the passing runs
are each stated by a theorem above. The five runs of section 6 show
what becomes of a property where an assumption is dropped, or where the
documentation promises more than the code does.

## 5. What is not modelled

- Data without control: display names, remarks, error texts, formatting of amounts and
  times, the JSON of requests and answers, signatures and the encoding of tokens.
- Of the reports, the filters a client sets (months, dates), the figures about users, buyers, orders,
  balances and withdraws, and the tree views of referrals: reads nothing else depends on.
- The token of the administrator: its name and password come from configuration.
- `SetRewardLock`: reward locks are a constant of `Orders`.
- `service/BuySomething.go`: the generated binding of the deposit contract. The contract and
  the chain are external, as `ChainDeposit` and `Payout` use them.
- `src/scripts`: schema, migrations, demo data and smoke tests, run by hand. The UNIQUE keys
  and seeded rows of `schema.sql` are facts the modules use.
- A balance followed through orders, extracts and corrections at once: each of
  `Withdraw`, `Orders` and `Balances` sees its own changes of it, and what they share is the
  conditional debit, which each of them has.
- Statements whose INSERT or UPDATE takes effect and reports an error, in `backoffice`: the
  payout and deposit modules have that kind of failure.

## 6. Where the code and its documentation differ

| run | what happens | statement |
|---|---|---|
| `payout_double` | the process ends after the broadcast and before `SetTxHash`; the next attempt transfers again | `src/docs/adr/0010-withdraw-onchain-payout.md:22` |
| `payout_dropped` | the cron waits without a deadline for a transfer that left the mempool, holding `payoutMu` | `src/docs/ops-payout.md:30` |
| `deposit_double` | two admins replay the same skipped deposit; the second deletes the success row of the first | `src/docs/adr/0007-chain-deposit-new18new.md:26` |
| `orders_overlap` | an extract's write of a whole order row undoes what a settlement wrote since; the order pays beyond its target | `src/CONTEXT.md:46` |
| `level_overwritten` | a settlement that listed the users before an administrator gave and locked a level writes its own over it, and the lock then keeps that | `src/CONTEXT.md:142-143` |

Three more, in the models but without a run of their own:

- A reverted transfer keeps its hash in the row (`biz/payout.go:116-118`), so each retry
  reads the same receipt and no second transfer follows, as
  `src/docs/adr/0010-withdraw-onchain-payout.md:22` has it; `src/CONTEXT.md:54` says a
  failed payout can be retried. `SettledIsFinal` checks and proves the former.
- A replay that ends between its delete and its insert (`biz/record.go:1254`, `:1158`) leaves
  a number without a row below the cursor, which neither a pull nor a replay finds again;
  `src/docs/adr/0007-chain-deposit-new18new.md:17` says one row per number.
  `NoDepositForgotten` is therefore checked without such ends, and its theorem
  (`ReplaysComplete`) allows them for pulls, in a system without replays.
- Gap rates are bounded by the top rate only when a higher level has no lower rate
  (`GapWithinTop`), which no validation asks for (`biz/params.go:113-157`).

## 7. What could follow

1. **Composition** of extracts and orders over one balance, the rate turn of
   `Withdraw!Turn` expanded into `Orders!ListTurns` and `Orders!Turn`.
2. **Starvation** of the payout queue by as many rows that never succeed as its limit
   admits, as a liveness property of its own.
