------------------------------- MODULE Orders -------------------------------
(***************************************************************************)
(* Subscription orders (locations): opening one (CreateLocation), the      *)
(* daily settlement (SettleStatic), and the rate turn of an extract        *)
(* (CreateWithdraw).  Settlements and requests are goroutines that talk to *)
(* the database statement by statement; an Update writes every mutable     *)
(* column of the row its caller read before.  Settlements of one process   *)
(* exclude each other with settleMu, those of several by the INSERT of the *)
(* day into settle_runs.                                                   *)
(*                                                                         *)
(* Time is the flag `claimed`, whether today's row of settle_runs exists:  *)
(* midnight clears it.  The withdrawable balance is represented by what    *)
(* orders added to it; what extracts take from it is the subject of        *)
(* Withdraw.  Levels and reward locks an admin sets change between         *)
(* settlements only and are constants; ledger, counts and remarks decide   *)
(* nothing.                                                                *)
(***************************************************************************)
EXTENDS AtomicOrders

CONSTANTS
  Funds,          \* account balances at the start, the placed orders deducted
  LockedLevel,    \* users whose level an admin has locked, and that level
  RewardLocked,   \* users excluded from paying rewards upward
  Requests,       \* request goroutines
  Settlers,       \* settlement goroutines
  Cron,           \* those of the settle cron: they settle all orders, unforced
  Instances,      \* processes
  Home,           \* the process of each settlement goroutine
  NoSettler,      \* settleMu is free
  Named,          \* sets of order ids an admin may ask to settle
  AllowForce,     \* allow_force_settle
  MaxFailures,    \* bound: goroutines that end between two statements, by an error or a crash
  TurnsMayOverlap \* extracts are confirmed while a settlement runs

ASSUME OrdersAssumption ==
  /\ MaxOrders \in Nat /\ Amounts \subseteq {a \in Nat : Subscribable(a)}
  /\ \A a \in Amounts : ExitTarget(a) \in Nat \ {0}
  /\ Funds \in [Users -> Nat]
  /\ Len(Placed) <= MaxOrders
  /\ \A o \in DOMAIN Placed : Placed[o] \in [by : Users, amount : Amounts]
  /\ DOMAIN LockedLevel \subseteq Users /\ LockedLevel \in [DOMAIN LockedLevel -> 0..9]
  /\ RewardLocked \subseteq Users
  /\ IsFiniteSet(Requests) /\ IsFiniteSet(Settlers)
  /\ Cron \subseteq Settlers /\ NoSettler \notin Settlers
  /\ Home \in [Settlers -> Instances]
  /\ Named \subseteq SUBSET (1..MaxOrders)
  /\ MaxFailures \in Nat
  /\ {AllowForce, TurnsMayOverlap} \subseteq BOOLEAN

VARIABLES
  account,    \* users.account_balance
  earned,     \* what orders have added to users.withdrawable_balance
  claimed,    \* today's row of settle_runs exists
  settleMu,   \* of each process: its holder
  run,        \* the state of each settlement goroutine
  req,        \* the state of each request goroutine
  failed      \* how many goroutines have ended early

vars == <<orders, account, earned, claimed, settleMu, run, req, failed>>

OrdersOf(u) == {o \in OrderIds : Exists(o) /\ orders[o].by = u}

IdleRun ==
  [pc |-> "idle", phase |-> "static", todo |-> {},
   id |-> 0, row |-> NoOrder, yield |-> 0,
   at |-> NoUser, depth |-> 0,
   to |-> NoUser, left |-> 0, chunk |-> 0, applied |-> 0,
   pieces |-> [o \in OrderIds |-> [by |-> NoUser, yield |-> 0]],
   level |-> [u \in Users |-> 0], lines |-> {}, got |-> [u \in Users |-> 0]]

NoRows  == [o \in OrderIds |-> NoOrder]
IdleReq == [pc |-> "idle", user |-> NoUser, amount |-> 0, rows |-> NoRows]

Init ==
  /\ FirstOrders
  /\ account = Funds
  /\ earned = [u \in Users |-> 0]
  /\ claimed = FALSE
  /\ settleMu = [i \in Instances |-> NoSettler]
  /\ run = [s \in Settlers |-> IdleRun]
  /\ req = [r \in Requests |-> IdleReq]
  /\ failed = 0

-----------------------------------------------------------------------------
(* CreateLocation *)

RequestDone(r) == req' = [req EXCEPT ![r] = IdleReq]

Subscribe(r, u, a) ==
  /\ req[r].pc = "idle"
  /\ account[u] >= a
  /\ req' = [req EXCEPT ![r] = [IdleReq EXCEPT !.pc = "sub", !.user = u, !.amount = a]]
  /\ UNCHANGED <<orders, account, earned, claimed, settleMu, run, failed>>

(* Mutation: the balance read by Subscribe is trusted. *)
CoversStale(r) == TRUE

(* SubAccountBalance: UPDATE ... WHERE account_balance >= amount. *)
Covers(r) == account[req[r].user] >= req[r].amount

SubAccountBalance(r) ==
  /\ req[r].pc = "sub"
  /\ \/ /\ Covers(r)
        /\ account' = [account EXCEPT ![req[r].user] = @ - req[r].amount]
        /\ req' = [req EXCEPT ![r].pc = "create"]
     \/ ~Covers(r) /\ RequestDone(r) /\ UNCHANGED account
  /\ UNCHANGED <<orders, earned, claimed, settleMu, run, failed>>

Create(r) ==
  /\ req[r].pc = "create"
  /\ \E o \in OrderIds :
       /\ FirstFree(o)
       /\ orders' = [orders EXCEPT ![o] = NewOrder(req[r].user, req[r].amount)]
  /\ RequestDone(r)
  /\ UNCHANGED <<account, earned, claimed, settleMu, run, failed>>

-----------------------------------------------------------------------------
(* The rate turn of an extract: ListByUser, then one Update for each order that   *)
(* turns, newest first, from the rows as they were listed.                        *)

Settling == \E s \in Settlers : run[s].pc \notin {"idle", "claim"}
Turning  == \E r \in Requests : req[r].pc = "turn"

ToTurn(u) ==
  {o \in OrdersOf(u) : ToBeTurned(o)}

ListTurns(r, u) ==
  /\ req[r].pc = "idle"
  /\ ToTurn(u) # {}
  /\ TurnsMayOverlap \/ ~Settling
  /\ req' = [req EXCEPT ![r] = [IdleReq EXCEPT !.pc = "turn", !.user = u,
                                               !.rows = [o \in OrderIds |-> IF o \in ToTurn(u)
                                                                           THEN orders[o] ELSE NoOrder]]]
  /\ UNCHANGED <<orders, account, earned, claimed, settleMu, run, failed>>

(* The rows still to be written. *)
Unwritten(r) == {o \in OrderIds : req[r].rows[o].status # "none"}

Turn(r) ==
  /\ req[r].pc = "turn"
  /\ \E o \in Unwritten(r) :
       /\ \A p \in Unwritten(r) : p <= o
       /\ orders' = [orders EXCEPT ![o] = Turned(req[r].rows[o])]
       /\ \/ Unwritten(r) = {o} /\ RequestDone(r)
          \/ Unwritten(r) # {o} /\ req' = [req EXCEPT ![r].rows[o] = NoOrder]
  /\ UNCHANGED <<account, earned, claimed, settleMu, run, failed>>

-----------------------------------------------------------------------------
(* SettleStatic *)

Set(s, r) == run' = [run EXCEPT ![s] = r]

(* return, with the deferred Unlock *)
Return(s) ==
  /\ Set(s, IdleRun)
  /\ settleMu' = [settleMu EXCEPT ![Home[s]] = NoSettler]

(* Mutation: no settleMu. *)
MutexIgnored(s) == TRUE

MutexFree(s) == settleMu[Home[s]] = NoSettler

Lock(s) ==
  /\ run[s].pc = "idle"
  /\ MutexFree(s)
  /\ settleMu' = [settleMu EXCEPT ![Home[s]] = s]
  /\ Set(s, [IdleRun EXCEPT !.pc = "claim"])
  /\ UNCHANGED <<orders, account, earned, claimed, req, failed>>

(* Mutation: a read of settle_runs instead of the INSERT: nobody is refused. *)
ClaimableAlways == TRUE

Claimable == ~claimed

(* TryClaim: INSERT under UNIQUE(settle_date). *)
TryClaim(s) ==
  /\ run[s].pc = "claim"
  /\ TurnsMayOverlap \/ ~Turning
  /\ claimed' = TRUE
  /\ \/ Claimable /\ Set(s, [run[s] EXCEPT !.pc = "list"]) /\ UNCHANGED settleMu
     \/ ~Claimable /\ Return(s)
  /\ UNCHANGED <<orders, account, earned, req, failed>>

(* An admin forces a settlement: no claim. *)
ForceSettle(s) ==
  /\ AllowForce
  /\ s \notin Cron
  /\ run[s].pc = "claim"
  /\ TurnsMayOverlap \/ ~Turning
  /\ Set(s, [run[s] EXCEPT !.pc = "list"])
  /\ UNCHANGED <<orders, account, earned, claimed, settleMu, req, failed>>

(* Mutation: orders an extract has turned today are left for another day. *)
ListedUnlessTurned(o) == Active(o) /\ ~orders[o].pending

Listed(o) == Active(o)

(* ListActive: all, or those of the ids an admin named. *)
ListActive(s) ==
  /\ run[s].pc = "list"
  /\ \E only \in IF s \in Cron THEN {OrderIds} ELSE Named :
       Set(s, [run[s] EXCEPT !.pc = "next", !.todo = {o \in only : Listed(o)}])
  /\ UNCHANGED <<orders, account, earned, claimed, settleMu, req, failed>>

(* The next order of the list, read again: an earlier one's rewards may have filled *)
(* it.  A yield is paid before the row is written.                                  *)
Load(s) ==
  /\ run[s].pc = "next"
  /\ \E o \in run[s].todo :
       LET rest == run[s].todo \ {o} IN
       /\ \A p \in run[s].todo : o <= p
       /\ \/ /\ Active(o)
             /\ Set(s, [run[s] EXCEPT !.pc = IF Yield(orders[o]) > 0 THEN "pay" ELSE "save",
                                      !.todo = rest, !.id = o, !.row = Settled(orders[o]),
                                      !.yield = Yield(orders[o])])
          \/ ~Active(o) /\ Set(s, [run[s] EXCEPT !.todo = rest])
  /\ UNCHANGED <<orders, account, earned, claimed, settleMu, req, failed>>

Pay(s) ==
  /\ run[s].pc = "pay"
  /\ earned' = [earned EXCEPT ![run[s].row.by] = @ + run[s].yield]
  /\ Set(s, [run[s] EXCEPT !.pc = "save"])
  /\ UNCHANGED <<orders, account, claimed, settleMu, req, failed>>

(* The Update, the day's pieces, and the start of payGenerationRewards. *)
Save(s) ==
  /\ run[s].pc = "save"
  /\ orders' = [orders EXCEPT ![run[s].id] = run[s].row]
  /\ LET by    == run[s].row.by
         pays  == CalcGenerationReward(run[s].yield) > 0 /\ by \notin RewardLocked
     IN  Set(s, [run[s] EXCEPT !.pc = IF pays THEN "climb" ELSE "next",
                               !.pieces[run[s].id] = [by |-> by, yield |-> run[s].yield],
                               !.at = by, !.depth = 1])
  /\ UNCHANGED <<account, earned, claimed, settleMu, req, failed>>

-----------------------------------------------------------------------------
(* payGenerationRewards: up the inviters, one generation at a time *)

CountEffectiveDirectReferrals(u) == Cardinality({v \in Directs(u) : OrdersOf(v) # {}})

Climb(s) ==
  /\ run[s].pc = "climb"
  /\ LET up    == Inviter[run[s].at]
         depth == run[s].depth
         next  == [run[s] EXCEPT !.at = up, !.depth = depth + 1]
     IN  IF up = NoUser \/ depth > MaxGeneration THEN Set(s, [run[s] EXCEPT !.pc = "next"])
         ELSE IF CanEarnGeneration(CountEffectiveDirectReferrals(up), depth)
         THEN Set(s, [next EXCEPT !.pc = "fill", !.to = up,
                                  !.left = CalcGenerationReward(run[s].yield)])
         ELSE Set(s, next)
  /\ UNCHANGED <<orders, account, earned, claimed, settleMu, req, failed>>

-----------------------------------------------------------------------------
(* creditOrderAcceleration: fill the receiver's active orders, the earliest first; *)
(* what fits counts as progress and is paid, the rest is dropped.                  *)

ActiveOf(u) == {o \in OrdersOf(u) : Active(o)}

(* Back to whoever called. *)
Caller(s) == IF run[s].phase = "static" THEN "climb" ELSE "lines"

Fill(s) ==
  /\ run[s].pc = "fill"
  /\ LET to == ActiveOf(run[s].to)
         r  == run[s]
     IN  \/ /\ r.left > 0
            /\ \E o \in to :
                 /\ \A p \in to : o <= p
                 /\ LET c == Lesser(r.left, Room(orders[o])) IN
                      Set(s, [r EXCEPT !.pc = "write", !.id = o, !.chunk = c,
                                       !.row = Progress(orders[o], c)])
         \/ /\ r.left = 0 \/ to = {}
            /\ IF r.applied > 0 THEN Set(s, [r EXCEPT !.pc = "credit"])
               ELSE Set(s, [r EXCEPT !.pc = Caller(s), !.left = 0])
  /\ UNCHANGED <<orders, account, earned, claimed, settleMu, req, failed>>

Write(s) ==
  /\ run[s].pc = "write"
  /\ orders' = [orders EXCEPT ![run[s].id] = run[s].row]
  /\ Set(s, [run[s] EXCEPT !.pc = "fill", !.left = @ - run[s].chunk, !.chunk = 0,
                           !.applied = @ + run[s].chunk])
  /\ UNCHANGED <<account, earned, claimed, settleMu, req, failed>>

CreditFilled(s) ==
  /\ run[s].pc = "credit"
  /\ LET to == run[s].to
         a  == run[s].applied
     IN  /\ earned' = [earned EXCEPT ![to] = @ + a]
         /\ Set(s, [run[s] EXCEPT !.pc = Caller(s), !.left = 0, !.applied = 0,
                                  !.got[to] = IF run[s].phase = "base" THEN @ + a ELSE @])
  /\ UNCHANGED <<orders, account, claimed, settleMu, req, failed>>

-----------------------------------------------------------------------------
(* settleCommunity *)

Personal == [u \in Users |-> MapThenSumSet(LAMBDA o : orders[o].amount, OrdersOf(u))]

LevelNow == [u \in Users |-> IF u \in DOMAIN LockedLevel THEN LockedLevel[u]
                             ELSE LevelFromVolume(SmallAreaVolume(u, Personal))]

(* The static part is over: the levels of today and the base lines. *)
RefreshLevels(s) ==
  /\ run[s].pc = "next"
  /\ run[s].todo = {}
  /\ LET pieces == [o \in OrderIds |->
                      IF run[s].pieces[o].by \in RewardLocked THEN [run[s].pieces[o] EXCEPT !.yield = 0]
                      ELSE run[s].pieces[o]]
     IN  Set(s, [run[s] EXCEPT !.pc = "lines", !.phase = "base", !.level = LevelNow,
                               !.lines = BaseLines(LevelNow, pieces)])
  /\ UNCHANGED <<orders, account, earned, claimed, settleMu, req, failed>>

(* One line is credited.  Lines of one receiver come in any order: only their sum  *)
(* matters for what it is paid.                                                    *)
TakeLine(s) ==
  /\ run[s].pc = "lines"
  /\ \E l \in run[s].lines :
       Set(s, [run[s] EXCEPT !.pc = "fill", !.to = l.to, !.left = l.amount, !.lines = @ \ {l}])
  /\ UNCHANGED <<orders, account, earned, claimed, settleMu, req, failed>>

StartPeers(s) ==
  /\ run[s].pc = "lines" /\ run[s].lines = {} /\ run[s].phase = "base"
  /\ Set(s, [run[s] EXCEPT !.phase = "peer", !.lines = PeerLines(run[s].level, run[s].got)])
  /\ UNCHANGED <<orders, account, earned, claimed, settleMu, req, failed>>

(* The upsert at the end writes the row of the day after a forced settlement, too; *)
(* one that fails is as if the settlement had ended before it.                     *)
Finish(s) ==
  /\ run[s].pc = "lines" /\ run[s].lines = {} /\ run[s].phase = "peer"
  /\ claimed' = TRUE
  /\ Return(s)
  /\ UNCHANGED <<orders, account, earned, req, failed>>

-----------------------------------------------------------------------------
(* Midnight, taken to come when no settlement runs: one takes far less than a day. *)
NextDay ==
  /\ claimed /\ ~Settling
  /\ claimed' = FALSE
  /\ UNCHANGED <<orders, account, earned, settleMu, run, req, failed>>

(* A goroutine ends early: a statement failed, or its process crashed. *)
Fails == failed < MaxFailures /\ failed' = failed + 1

EndSettlement(s) ==
  /\ Fails
  /\ run[s].pc # "idle"
  /\ Return(s)
  /\ UNCHANGED <<orders, account, earned, claimed, req>>

EndRequest(r) ==
  /\ Fails
  /\ req[r].pc # "idle"
  /\ RequestDone(r)
  /\ UNCHANGED <<orders, account, earned, claimed, settleMu, run>>

Progresses(s) ==
  \/ ListActive(s) \/ Load(s) \/ Pay(s) \/ Save(s) \/ Climb(s)
  \/ Fill(s) \/ Write(s) \/ CreditFilled(s)
  \/ RefreshLevels(s) \/ TakeLine(s) \/ StartPeers(s) \/ Finish(s)

Next ==
  \/ \E r \in Requests, u \in Users, a \in Amounts : Subscribe(r, u, a)
  \/ \E r \in Requests, u \in Users : ListTurns(r, u)
  \/ \E r \in Requests : SubAccountBalance(r) \/ Create(r) \/ Turn(r) \/ EndRequest(r)
  \/ \E s \in Settlers : Lock(s) \/ TryClaim(s) \/ ForceSettle(s) \/ Progresses(s) \/ EndSettlement(s)
  \/ NextDay

Spec == Init /\ [][Next]_vars

(* Goroutines run, days pass, and on each of them some cron tick gets to claim it: *)
(* where extracts keep away from settlements, it finds a moment without one.       *)
Fairness ==
  /\ SF_vars(NextDay)
  /\ SF_vars(\E s \in Cron : Lock(s))
  /\ SF_vars(\E s \in Cron : TryClaim(s))
  /\ WF_vars(\E s \in Settlers : Progresses(s))
  /\ WF_vars(\E r \in Requests : Turn(r))

FairSpec == Spec /\ Fairness

-----------------------------------------------------------------------------
(* Properties *)

OrderRow ==
  [by : Users \cup {NoUser}, amount : Nat, target : Nat, acc : Nat,
   status : {"none", "active", "exited"}, rate : Rates, dir : {"up", "down"},
   pending : BOOLEAN, last : Rates \cup {NoRate}]

RunState ==
  [pc : {"idle", "claim", "list", "next", "pay", "save", "climb", "fill", "write", "credit", "lines"},
   phase : {"static", "base", "peer"}, todo : SUBSET OrderIds,
   id : OrderIds \cup {0}, row : OrderRow, yield : Nat,
   at : Users \cup {NoUser}, depth : Nat,
   to : Users \cup {NoUser}, left : Nat, chunk : Nat, applied : Nat,
   pieces : [OrderIds -> [by : Users \cup {NoUser}, yield : Nat]],
   level : [Users -> 0..9],
   lines : SUBSET [to : Users, from : Users \cup {NoUser}, source : OrderIds \cup {0}, amount : Nat],
   got : [Users -> Nat]]

ReqState ==
  [pc : {"idle", "sub", "create", "turn"}, user : Users \cup {NoUser}, amount : Amounts \cup {0},
   rows : [OrderIds -> OrderRow]]

(* Types of the locations rows, balances and goroutines of biz/record.go; the rate *)
(* of an order stays between rate_min and rate_max.                                *)
OrdersTypeOK ==
  /\ orders \in [OrderIds -> OrderRow]
  /\ account \in [Users -> Nat]
  /\ earned \in [Users -> Nat]
  /\ claimed \in BOOLEAN
  /\ settleMu \in [Instances -> Settlers \cup {NoSettler}]
  /\ run \in [Settlers -> RunState]
  /\ req \in [Requests -> ReqState]
  /\ failed \in Nat

(* CONTEXT.md, exit: an order is over exactly when what it accumulated reaches     *)
(* amount times multiplier, whichever of the static yield and the rewards brought  *)
(* it there, and whatever failed in between.                                       *)
ExitedIffFull ==
  \A o \in OrderIds : Exists(o) => (orders[o].status = "exited" <=> orders[o].acc = orders[o].target)

(* Neither a settlement nor a reward nor an extract's full-row write takes away    *)
(* progress another one has recorded, and an exited order is never written again.  *)
ProgressNeverFalls ==
  [][\A o \in OrderIds : orders'[o].acc >= orders[o].acc
                           /\ (orders[o].status = "exited" => orders'[o] = orders[o])]_vars

(* Requests, settlements and rewards read a row, pay, and write every column of it *)
(* back statements later; and yet what becomes of the table is what becomes of it  *)
(* when each order is opened, settled, accelerated and turned at once.             *)
ImplementsAtomicOrders == AtomicSpec

(* ADR 0018: between two settlements the rate of an order is turned once, from the *)
(* rate of the last settlement, however many extracts run at once.                 *)
TurnIsOfLast ==
  \A o \in OrderIds : Active(o) /\ orders[o].pending =>
    [rate |-> orders[o].rate, dir |-> orders[o].dir] = ExtractRateTurn(orders[o].last)

(* CONTEXT.md, turn: an extract never raises the rate above the one settled last.  *)
TurnNeverRaises ==
  \A o \in OrderIds : Active(o) /\ orders[o].pending => orders[o].rate <= orders[o].last

(* What an order of user u has accumulated, what a settlement has added to his     *)
(* orders and not yet to his balance, and what it has added to his balance and not *)
(* yet to his order.                                                               *)
Accumulated(o, u) == IF orders[o].by = u THEN orders[o].acc ELSE 0
Uncredited(s, u)  == IF run[s].to = u THEN run[s].applied ELSE 0
Unsaved(s, u)     == IF run[s].pc = "save" /\ run[s].row.by = u THEN run[s].yield ELSE 0

(* ADR 0009, double entry: what a user's orders accumulated is what they added to  *)
(* the withdrawable balance, except for what a settlement has in hand.             *)
EarnedIsAccumulated ==
  \A u \in Users :
    earned[u] + SumFunctionOnSet([s \in Settlers |-> Uncredited(s, u)], Settlers)
      = SumFunctionOnSet([o \in OrderIds |-> Accumulated(o, u)], OrderIds)
          + SumFunctionOnSet([s \in Settlers |-> Unsaved(s, u)], Settlers)

(* CONTEXT.md, exit: an order stops releasing at amount times multiplier; a user   *)
(* never gets more out of his orders than that.                                    *)
EarnedWithinTarget ==
  \A u \in Users : earned[u] <= MapThenSumSet(LAMBDA o : orders[o].target, OrdersOf(u))

(* What user u paid for an order, and what a request has taken for one.            *)
Bought(o, u) == IF o \notin DOMAIN Placed /\ orders[o].by = u THEN orders[o].amount ELSE 0
Paying(r, u) == IF req[r].pc = "create" /\ req[r].user = u THEN req[r].amount ELSE 0

(* Every order was paid for, however many requests spend one balance at once and   *)
(* wherever they fail: orders, the balance and what requests hold never exceed what *)
(* the user had.                                                                   *)
OrdersArePaid ==
  \A u \in Users :
    /\ account[u] >= 0
    /\ account[u] + SumFunctionOnSet([o \in OrderIds |-> Bought(o, u)], OrderIds)
                  + SumFunctionOnSet([r \in Requests |-> Paying(r, u)], Requests)
         <= Funds[u]

(* Every order exits in the end, however often its owner extracts.                 *)
OrdersExit == \A o \in OrderIds : Active(o) ~> (orders[o].status = "exited")
=============================================================================
