--------------------------- MODULE WithdrawSystem ---------------------------
(***************************************************************************)
(* Extracts from submission to payment: Withdraw and Payout over the same  *)
(* table, joined by the goroutine CreateWithdraw spawns and by crashes,    *)
(* and what the pair promises.                                             *)
(***************************************************************************)
EXTENDS Withdraw, Payout, FiniteSetsExt

CONSTANTS
  Funds,    \* withdrawable balances at the start
  Legacy    \* rows an earlier version of the program left in the table

LegacyRow == [status : {"pending", "approved", "rewarded"}, owner : Users,
              amount : 1..MaxAmount, credited : 0..MaxAmount, hash : {NoTx}]

ASSUME SystemAssumption ==
  /\ Funds \in [Users -> Nat]
  /\ DOMAIN Legacy \subseteq Ids
  /\ \A id \in DOMAIN Legacy : Legacy[id] \in LegacyRow

vars == <<row, withdrawVars, payoutVars>>

Init ==
  /\ row = [id \in Ids |-> IF id \in DOMAIN Legacy THEN Legacy[id] ELSE NoRow]
  /\ withdrawable = Funds
  /\ req = [r \in Requests |-> IdleReq]
  /\ jobs = [i \in Instances |-> {}]
  /\ mutex = [i \in Instances |-> NoWorker]
  /\ pc = [w \in Workers |-> "idle"]
  /\ op = [w \in Workers |-> "process"]
  /\ cur = [w \in Workers |-> 0]
  /\ sent = [w \in Workers |-> NoTx]
  /\ todo = [w \in Workers |-> {}]
  /\ tx = [t \in TxIds |-> NoTransfer]

(* The goroutine CreateWithdraw spawned starts ProcessWithdrawPayout. *)
AsyncPayout(w) ==
  /\ Free(w)
  /\ w \notin CronWorkers
  /\ \E id \in jobs[Home[w]] :
       /\ jobs' = [jobs EXCEPT ![Home[w]] = @ \ {id}]
       /\ Call(w, "process", id)
  /\ UNCHANGED <<mutex, sent, todo, tx, row, withdrawable, req>>

Crash(i) ==
  /\ "crash" \in Faults
  /\ RequestsCrash(i)
  /\ WorkersCrash(i)

Next ==
  \/ \E r \in Requests : RequestStep(r) /\ UNCHANGED payoutVars
  \/ \E w \in Workers : WorkerStep(w) /\ UNCHANGED withdrawVars
  \/ \E w \in Workers : RunPayoutQueue(w) /\ UNCHANGED withdrawVars
  \/ \E w \in Workers, o \in {"process", "confirm"}, id \in Ids :
       AdminCall(w, o, id) /\ UNCHANGED withdrawVars
  \/ \E w \in Workers : AsyncPayout(w)
  \/ \E t \in TxIds : (Mine(t) \/ Drop(t)) /\ UNCHANGED withdrawVars
  \/ \E i \in Instances : Crash(i)

Spec == Init /\ [][Next]_vars

(* Goroutines run; a sync.Mutex starves nobody; the cron keeps ticking; the chain *)
(* mines what stays pending; and a node that the cron asks again and again answers *)
(* in the end: a transfer tried that often gets through, its receipt is found.     *)
(* Admins and users owe the system nothing.                                       *)
Fairness ==
  /\ \A w \in Workers :
       /\ WF_vars(WorkerStep(w) /\ UNCHANGED withdrawVars)
       /\ SF_vars(Lock(w) /\ UNCHANGED withdrawVars)
       /\ SF_vars(Send(w) /\ UNCHANGED withdrawVars)
  /\ \A w \in CronWorkers : /\ WF_vars(RunPayoutQueue(w) /\ UNCHANGED withdrawVars)
                            /\ SF_vars(Receipt(w) /\ UNCHANGED withdrawVars)
  /\ \A t \in TxIds : WF_vars(Mine(t) /\ UNCHANGED withdrawVars)

FairSpec == Spec /\ Fairness

-----------------------------------------------------------------------------
(* Properties *)

(* Types of every variable: the row columns, goroutine states and transfers of     *)
(* data/withdraw.go, biz/record.go and biz/payout.go.                              *)
TypeOK == TableOK /\ WithdrawOK /\ PayoutOK

(* ADR 0010 item 4: withdraw.id is the idempotency key; however the async payout, *)
(* the cron and admins race in ProcessWithdrawPayout, a withdraw is transferred at *)
(* most once.                                                                     *)
AtMostOneTransfer ==
  \A s, t \in TxIds : tx[s].wid = tx[t].wid /\ tx[s].wid # 0 => s = t

(* Whatever fails and whoever runs, confirmPayout marks a withdraw paid only when *)
(* some transfer of that withdraw was mined with success.                         *)
PassMeansPaid ==
  \A id \in Ids : row[id].status = "pass" =>
    \E t \in TxIds : tx[t].wid = id /\ tx[t].state = "ok"

(* In one process, the hash a paid withdraw shows is that of its own successful   *)
(* transfer.                                                                      *)
PassHashPaid ==
  \A id \in Ids : row[id].status = "pass" =>
    /\ row[id].hash # NoTx
    /\ tx[row[id].hash] = [wid |-> id, state |-> "ok"]

(* ADR 0010 item 4: once a hash is recorded, a retry only looks for its receipt   *)
(* and never sends again, through crashes and failed calls.                       *)
NoSendOnceRecorded ==
  [][\A t \in TxIds : Fresh(t) /\ ~Fresh(t)' => row[tx'[t].wid].hash = NoTx]_vars

(* The chain has rejected the transfer whose hash the row shows. *)
Reverted(id) == row[id].hash # NoTx /\ tx[row[id].hash].state = "reverted"

(* A paid or a cancelled withdraw is final, and one whose transfer was reverted is *)
(* left to the administrators (ADR 0010 items 4 and 6): no late worker, retry or   *)
(* restart rewrites its row, refunds it or transfers for it.                       *)
SettledIsFinal ==
  [][\A id \in Ids : row[id].status \in {"pass", "cancelled"} \/ Reverted(id) =>
       row'[id] = row[id] /\ TxsOf(id)' = TxsOf(id)]_vars

(* What user u could have extracted, ever. *)
Opening(id, u) == IF Legacy[id].owner = u THEN Legacy[id].amount ELSE 0

Entitled(u) ==
  Funds[u] + SumFunctionOnSet([id \in DOMAIN Legacy |-> Opening(id, u)], DOMAIN Legacy)

(* The amount of a row that is not refunded.                                      *)
Live(id, u) ==
  IF row[id].owner = u /\ row[id].status # "cancelled" THEN row[id].amount ELSE 0

(* Debited by a request that has not written its row, or owed back by one that    *)
(* cancelled a row.                                                               *)
Held(r, u) ==
  CASE req[r].pc \in {"insert", "refund"} /\ req[r].user = u -> req[r].amount
    [] req[r].pc = "credit" /\ row[req[r].id].owner = u -> row[req[r].id].amount
    [] OTHER -> 0

Accounted(u) ==
  withdrawable[u] + SumFunctionOnSet([id \in Ids |-> Live(id, u)], Ids)
                  + SumFunctionOnSet([r \in Requests |-> Held(r, u)], Requests)

(* Without failures every unit a user could extract is, at every moment, in the   *)
(* balance, in a live row or in the hands of one request: concurrent submissions  *)
(* and concurrent refunds of the same pending row neither lose nor repeat one.    *)
FundsConserved == \A u \in Users : withdrawable[u] >= 0 /\ Accounted(u) = Entitled(u)

(* With failing statements and crashes a unit can be lost (the debit of a request *)
(* that died), but none appears twice: balance and live rows never exceed what    *)
(* the user had.                                                                  *)
NoMoneyFromNothing == \A u \in Users : withdrawable[u] >= 0 /\ Accounted(u) <= Entitled(u)

(* What a transfer has paid user u or may still pay, and what a row not           *)
(* transferred yet owes.                                                          *)
Transferred(t, u) ==
  IF tx[t].state \in {"pending", "ok"} /\ row[tx[t].wid].owner = u THEN row[tx[t].wid].credited ELSE 0

Owed(id, u) ==
  IF row[id].owner = u /\ Queued(id) /\ TxsOf(id) = {} THEN row[id].amount ELSE 0

(* What the chain has paid or may still pay a user, what rows not transferred yet *)
(* owe, and what is left in the balance, never exceed what the user had: debits in *)
(* CreateWithdraw, refunds in CancelAllPendingWithdraws and transfers agree.       *)
PaidWithinDebited ==
  \A u \in Users :
    withdrawable[u] + SumFunctionOnSet([t \in TxIds |-> Transferred(t, u)], TxIds)
                    + SumFunctionOnSet([id \in Ids |-> Owed(id, u)], Ids)
      <= Entitled(u)

(* Every payable withdraw at or below the cap is paid in the end, through         *)
(* failed sends and requests that give up, as the cron retries it.                *)
EventuallyPaid ==
  \A id \in Ids : (Queued(id) /\ ~AboveCap(id)) ~> (row[id].status = "pass")

(* docs/ops-payout.md: a backlog can be worked off by running the queue; no       *)
(* rewarded withdraw stays unclaimed for ever.                                    *)
BacklogDrains ==
  \A id \in Ids : (row[id].status = "rewarded" /\ ~AboveCap(id)) ~>
    (row[id].status # "rewarded")

-----------------------------------------------------------------------------
(* The abstract specification this one implements when there is one process and   *)
(* neither a crash nor a lost answer separates a transfer from its hash.          *)

StageOf(id) ==
  IF row[id].status = "pass" THEN "settled"
  ELSE IF \E t \in TxsOf(id) : tx[t].state = "ok" THEN "arrived"
  ELSE IF TxsOf(id) # {} THEN "sent"
  ELSE IF Queued(id) THEN "owed"
  ELSE "none"

Abstract == INSTANCE PayoutOnce WITH
  stage <- [id \in Ids |-> StageOf(id)],
  transfers <- [id \in Ids |-> Cardinality(TxsOf(id))]

(* Refinement: the goroutines, claims and hashes of payout.go implement PayoutOnce. *)
ImplementsPayoutOnce == Abstract!Spec
=============================================================================
