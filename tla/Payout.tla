------------------------------- MODULE Payout -------------------------------
(***************************************************************************)
(* Paying withdraws on chain (biz/payout.go, pkg/payout/usdt.go).  A worker*)
(* is a goroutine inside ProcessWithdrawPayout or ConfirmWithdrawPayout:   *)
(* the one CreateWithdraw spawns, an admin request, or a tick of the payout*)
(* cron.  Workers of one process exclude each other with payoutMu; between *)
(* a worker's database and RPC calls every other goroutine may run.        *)
(* The chain is external: a transfer is pending until it is mined, with    *)
(* success or reverted, or it leaves the mempool.                          *)
(***************************************************************************)
EXTENDS WithdrawTable

CONSTANTS
  Workers,      \* payout goroutines
  CronWorkers,  \* those the payout cron runs: their context has no deadline
  NoWorker,     \* payoutMu is free
  QueueLimit    \* limit of RunPayoutQueue

ASSUME PayoutAssumption ==
  /\ CronWorkers \subseteq Workers
  /\ NoWorker \notin Workers
  /\ QueueLimit \in Nat
  /\ \A w \in Workers : Home[w] \in Instances

VARIABLES
  mutex,   \* payoutMu of each instance: its holder
  pc,      \* where each worker is
  op,      \* "process" or "confirm"
  cur,     \* the withdraw a worker is on (0: none)
  sent,    \* the transfer a worker has in hand (NoTx: none)
  todo,    \* the rest of a worker's queue snapshot
  tx       \* the chain: each transfer's withdraw and fate

payoutVars == <<mutex, pc, op, cur, sent, todo, tx>>

Inside == {"load", "claim", "reload", "send", "save", "wait", "mark"}
TxState == {"unsent", "pending", "ok", "reverted", "dropped"}

NoTransfer == [wid |-> 0, state |-> "unsent"]
Fresh(t)   == tx[t].state = "unsent"
TxsOf(id)  == {t \in TxIds : tx[t].wid = id}

Goto(w, label) == pc' = [pc EXCEPT ![w] = label]

-----------------------------------------------------------------------------
(* The calls *)

Call(w, o, id) ==
  /\ op' = [op EXCEPT ![w] = o]
  /\ cur' = [cur EXCEPT ![w] = id]
  /\ Goto(w, "lock")

Free(w) == pc[w] = "idle" /\ todo[w] = {}

(* withdraw_payout and withdraw_payout_confirm of the admin API. *)
AdminCall(w, o, id) ==
  /\ Free(w)
  /\ w \notin CronWorkers
  /\ Exists(id)
  /\ Call(w, o, id)
  /\ UNCHANGED <<mutex, sent, todo, tx, row>>

(* A cron tick, or withdraw_payout_run of the admin API: take a snapshot of the queue. *)
RunPayoutQueue(w) ==
  /\ Free(w)
  /\ todo' = [todo EXCEPT ![w] = ListPayoutQueue(QueueLimit)]
  /\ todo'[w] # {}
  /\ UNCHANGED <<mutex, pc, op, cur, sent, tx, row>>

(* The loop of RunPayoutQueue, in ascending id order. *)
TakeNext(w) ==
  /\ pc[w] = "idle"
  /\ \E id \in todo[w] :
       /\ \A j \in todo[w] : id <= j
       /\ Call(w, "process", id)
       /\ todo' = [todo EXCEPT ![w] = @ \ {id}]
  /\ UNCHANGED <<mutex, sent, tx, row>>

(* Mutation: no payoutMu. *)
MutexIgnored(w) == TRUE

MutexFree(w) == mutex[Home[w]] = NoWorker

Lock(w) ==
  /\ pc[w] = "lock"
  /\ MutexFree(w)
  /\ mutex' = [mutex EXCEPT ![Home[w]] = w]
  /\ Goto(w, "load")
  /\ UNCHANGED <<op, cur, sent, todo, tx, row>>

(* return, with the deferred Unlock *)
Return(w) ==
  /\ mutex' = [mutex EXCEPT ![Home[w]] = NoWorker]
  /\ cur' = [cur EXCEPT ![w] = 0]
  /\ sent' = [sent EXCEPT ![w] = NoTx]
  /\ op' = [op EXCEPT ![w] = "process"]
  /\ Goto(w, "idle")
  /\ UNCHANGED <<todo, tx>>

-----------------------------------------------------------------------------
(* What the row that was read tells a worker to do *)

(* Mutation: a doing row is sent again whether or not it has a hash. *)
UnsentIfDoing(id) == row[id].status = "doing"

Broadcast(id) == row[id].status = "doing" /\ row[id].hash # NoTx
Unsent(id)    == row[id].status = "doing" /\ row[id].hash = NoTx
AboveCap(id)  == row[id].credited > MaxUSDT

(* doing with a hash: only look for its receipt. *)
Resume(w) ==
  /\ pc[w] \in {"load", "reload"}
  /\ Broadcast(cur[w])
  /\ sent' = [sent EXCEPT ![w] = row[cur[w]].hash]
  /\ Goto(w, "wait")
  /\ UNCHANGED <<mutex, op, cur, todo, tx, row>>

GoClaim(w) ==
  /\ pc[w] = "load" /\ op[w] = "process"
  /\ Claimable(cur[w]) /\ ~AboveCap(cur[w])
  /\ Goto(w, "claim")
  /\ UNCHANGED <<mutex, op, cur, sent, todo, tx, row>>

(* doing without a hash: at the first read only below the cap, after the claim always. *)
GoSend(w) ==
  /\ \/ pc[w] = "load" /\ op[w] = "process" /\ ~AboveCap(cur[w])
     \/ pc[w] = "reload"
  /\ Unsent(cur[w])
  /\ Goto(w, "send")
  /\ UNCHANGED <<mutex, op, cur, sent, todo, tx, row>>

(* Nothing to do for this row: paid, above the cap, in another state, or a confirm *)
(* without a hash.                                                                 *)
Refuse(w) ==
  /\ pc[w] \in {"load", "reload"}
  /\ ~Broadcast(cur[w])
  /\ \/ /\ pc[w] = "load" /\ op[w] = "process"
        /\ AboveCap(cur[w]) \/ ~(Claimable(cur[w]) \/ Unsent(cur[w]))
     \/ pc[w] = "load" /\ op[w] = "confirm"
     \/ pc[w] = "reload" /\ ~Unsent(cur[w])
  /\ Return(w)
  /\ UNCHANGED row

-----------------------------------------------------------------------------
(* The steps that write *)

Claim(w) ==
  /\ pc[w] = "claim"
  /\ row' = Claimed(cur[w])
  /\ \/ /\ Claimable(cur[w])
        /\ Goto(w, "reload")
        /\ UNCHANGED <<mutex, op, cur, sent, todo, tx>>
     \/ ~Claimable(cur[w]) /\ Return(w)

Sends(w, t) ==
  /\ pc[w] = "send"
  /\ Fresh(t)
  /\ \A u \in 1..(t - 1) : ~Fresh(u)
  /\ tx' = [tx EXCEPT ![t] = [wid |-> cur[w], state |-> "pending"]]

(* TransferUSDT returned a hash. *)
Send(w) ==
  /\ \E t \in TxIds : Sends(w, t) /\ sent' = [sent EXCEPT ![w] = t]
  /\ Goto(w, "save")
  /\ UNCHANGED <<mutex, op, cur, todo, row>>

(* TransferUSDT failed although the node took the transaction. *)
SendUnheard(w) ==
  /\ "rpc" \in Faults
  /\ \E t \in TxIds : Sends(w, t)
  /\ mutex' = [mutex EXCEPT ![Home[w]] = NoWorker]
  /\ cur' = [cur EXCEPT ![w] = 0]
  /\ op' = [op EXCEPT ![w] = "process"]
  /\ Goto(w, "idle")
  /\ UNCHANGED <<sent, todo, row>>

(* The user could not be read, or nothing was sent (RPC down, no gas, no USDT). *)
SendFails(w) ==
  /\ "send" \in Faults
  /\ pc[w] = "send"
  /\ Return(w)
  /\ UNCHANGED row

SaveHash(w) ==
  /\ pc[w] = "save"
  /\ row' = HashSet(cur[w], sent[w])
  /\ Goto(w, "wait")
  /\ UNCHANGED <<mutex, op, cur, sent, todo, tx>>

(* Mutation: any receipt counts as success. *)
AnyReceipt(t) == tx[t].state \in {"ok", "reverted"}

ReceiptOK(t) == tx[t].state = "ok"

(* WaitReceipt found a receipt; a reverted one ends the attempt. *)
Receipt(w) ==
  /\ pc[w] = "wait"
  /\ \/ /\ ReceiptOK(sent[w])
        /\ Goto(w, "mark")
        /\ UNCHANGED <<mutex, op, cur, sent, todo, tx>>
     \/ /\ ~ReceiptOK(sent[w])
        /\ tx[sent[w]].state = "reverted"
        /\ Return(w)
  /\ UNCHANGED row

(* WaitReceipt did not reach the node, or its context is done: never that of a *)
(* cron tick (context.Background).                                             *)
GiveUp(w) ==
  /\ "send" \in Faults \/ ("timeout" \in Faults /\ w \notin CronWorkers)
  /\ pc[w] = "wait"
  /\ Return(w)
  /\ UNCHANGED row

Mark(w) ==
  /\ pc[w] = "mark"
  /\ row' = Passed(cur[w])
  /\ Return(w)

(* A repository call returned an error, without effect or with its answer lost: *)
(* the attempt ends there.                                                      *)
DbFails(w) ==
  /\ \/ /\ "sql" \in Faults
        /\ pc[w] \in {"load", "claim", "reload", "save", "mark"}
        /\ UNCHANGED row
     \/ /\ "answer" \in Faults
        /\ \/ pc[w] = "claim" /\ row' = Claimed(cur[w])
           \/ pc[w] = "save" /\ row' = HashSet(cur[w], sent[w])
           \/ pc[w] = "mark" /\ row' = Passed(cur[w])
  /\ Return(w)

-----------------------------------------------------------------------------
WorkerStep(w) ==
  \/ TakeNext(w) \/ Lock(w) \/ Resume(w) \/ GoClaim(w) \/ GoSend(w) \/ Refuse(w)
  \/ Claim(w) \/ Send(w) \/ SendUnheard(w) \/ SendFails(w) \/ SaveHash(w)
  \/ Receipt(w) \/ GiveUp(w) \/ Mark(w) \/ DbFails(w)

Fate(t, state) ==
  /\ tx[t].state = "pending"
  /\ tx' = [tx EXCEPT ![t].state = state]
  /\ UNCHANGED <<mutex, pc, op, cur, sent, todo, row>>

(* The chain mines a pending transfer, or drops it for good. *)
Mine(t) ==
  \/ Fate(t, "ok")
  \/ "revert" \in Faults /\ Fate(t, "reverted")
Drop(t) == "drop" \in Faults /\ Fate(t, "dropped")

(* A crash ends the workers of an instance and frees its mutex. *)
WorkersCrash(i) ==
  LET here(w) == Home[w] = i IN
  /\ mutex' = [mutex EXCEPT ![i] = NoWorker]
  /\ pc'    = [w \in Workers |-> IF here(w) THEN "idle" ELSE pc[w]]
  /\ op'    = [w \in Workers |-> IF here(w) THEN "process" ELSE op[w]]
  /\ cur'   = [w \in Workers |-> IF here(w) THEN 0 ELSE cur[w]]
  /\ sent'  = [w \in Workers |-> IF here(w) THEN NoTx ELSE sent[w]]
  /\ todo'  = [w \in Workers |-> IF here(w) THEN {} ELSE todo[w]]
  /\ UNCHANGED tx

PayoutOK ==
  /\ mutex \in [Instances -> Workers \cup {NoWorker}]
  /\ pc \in [Workers -> {"idle", "lock"} \cup Inside]
  /\ op \in [Workers -> {"process", "confirm"}]
  /\ cur \in [Workers -> Ids \cup {0}]
  /\ sent \in [Workers -> TxIds \cup {NoTx}]
  /\ todo \in [Workers -> SUBSET Ids]
  /\ tx \in [TxIds -> [wid : Ids \cup {0}, state : TxState]]
=============================================================================
