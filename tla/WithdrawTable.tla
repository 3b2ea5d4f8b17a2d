---------------------------- MODULE WithdrawTable ----------------------------
(***************************************************************************)
(* The withdraws table (data/withdraw.go): one row per extract request,    *)
(* and the statements the business layer runs on it.  Every operator below *)
(* is one SQL statement, hence one atomic step; the modules Withdraw and   *)
(* Payout interleave them.                                                 *)
(*                                                                         *)
(* Columns no control decision reads (payout_error, remark, timestamps,    *)
(* order_ids) are left out.  An on-chain transfer is named by the member   *)
(* of TxIds it is recorded under; NoTx is the empty tx_hash.               *)
(*                                                                         *)
(* The constants the two modules share are declared here: the processes,   *)
(* the goroutines' homes, the payout cap, and what can fail.  The kinds of *)
(* failure, each present in an environment or not:                         *)
(*   "crash"    a process ends between any two steps                       *)
(*   "sql"      a statement fails without effect                           *)
(*   "answer"   an update takes effect and its caller sees an error        *)
(*   "insert"   the same of an INSERT, or of the re-read of the new row    *)
(*   "send"     a node is not reached, for a transfer or for its receipt   *)
(*   "rpc"      a node takes a transfer and its sender sees an error       *)
(*   "timeout"  the deadline of a request's context passes                 *)
(*   "revert"   a transfer is mined as reverted                            *)
(*   "drop"     a transfer leaves the mempool without being mined          *)
(***************************************************************************)
EXTENDS Integers, FiniteSets

CONSTANTS
  Users,       \* registered users
  NoUser,      \* owner of a row that does not exist yet
  MaxId,       \* bound: rows the table can hold (AUTO_INCREMENT ids 1..MaxId)
  MaxTx,       \* bound: on-chain transfers of a behaviour
  MaxAmount,   \* bound: the largest amount of a row
  Instances,   \* processes of the backend
  Home,        \* the instance each goroutine runs in
  MaxUSDT,     \* JINNIU_PAYOUT_MAX_USDT: cap on a credited amount
  Faults       \* kinds of failure this environment can produce

ASSUME TableAssumption ==
  /\ MaxId \in Nat /\ MaxTx \in Nat /\ MaxAmount \in Nat
  /\ NoUser \notin Users
  /\ MaxUSDT \in Nat

VARIABLE row   \* the table

Ids   == 1..MaxId
TxIds == 1..MaxTx
NoTx  == 0

Status == {"none", "pending", "approved", "rewarded", "doing", "pass", "cancelled"}

Row == [status : Status, owner : Users \cup {NoUser},
        amount : 0..MaxAmount, credited : 0..MaxAmount, hash : TxIds \cup {NoTx}]

NoRow == [status |-> "none", owner |-> NoUser, amount |-> 0, credited |-> 0, hash |-> NoTx]

Exists(id) == row[id].status # "none"

(* Create: INSERT under the next AUTO_INCREMENT id. *)
NextId(id) == ~Exists(id) /\ \A j \in 1..(id - 1) : Exists(j)

Inserted(id, u, amount, credited) ==
  [row EXCEPT ![id] = [status |-> "rewarded", owner |-> u, amount |-> amount,
                       credited |-> credited, hash |-> NoTx]]

(* Mutations of the WHERE clauses below, for the runs that check they matter. *)
ClaimableUnguarded(id)   == Exists(id)
CancellableUnguarded(id) == Exists(id)
QueuedNotDoing(id)       == row[id].status \in {"rewarded", "approved"}

(* CasClaimPayout: rewarded | approved -> doing; its result is whether a row matched. *)
Claimable(id) == row[id].status \in {"rewarded", "approved"}
Claimed(id)   == IF Claimable(id) THEN [row EXCEPT ![id].status = "doing"] ELSE row

(* SetTxHash: unconditional on the row's status and on the hash it overwrites. *)
HashSet(id, t) == [row EXCEPT ![id].hash = t]

(* MarkPass: doing with a hash -> pass. *)
Passable(id) == row[id].status = "doing" /\ row[id].hash # NoTx
Passed(id)   == IF Passable(id) THEN [row EXCEPT ![id].status = "pass"] ELSE row

(* CasUpdateStatus(pending -> cancelled), the only use left of it. *)
Cancellable(id) == row[id].status = "pending"
Cancelled(id)   == IF Cancellable(id) THEN [row EXCEPT ![id].status = "cancelled"] ELSE row

(* ListPayoutQueue: the first `limit` payable rows by id. *)
Queued(id) == row[id].status \in {"rewarded", "approved", "doing"}
ListPayoutQueue(limit) ==
  {id \in Ids : Queued(id) /\ Cardinality({j \in 1..(id - 1) : Queued(j)}) < limit}

(* ListFiltered(pending): what CancelAllPendingWithdraws walks. *)
ListPending == {id \in Ids : row[id].status = "pending"}

TableOK == row \in [Ids -> Row]
=============================================================================
