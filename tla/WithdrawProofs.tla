--------------------------- MODULE WithdrawProofs ---------------------------
(***************************************************************************)
(* Theorems about WithdrawSystem, for every number of users, goroutines,   *)
(* instances, rows and transfers, and whatever fails: every variable keeps *)
(* its type, and a withdraw marked as paid was paid.  In one process, each *)
(* recorded hash is final and names the withdraw's own transfer; where     *)
(* nothing separates a transfer from its record, every withdraw is         *)
(* transferred at most once and the payout implements PayoutOnce.          *)
(***************************************************************************)
EXTENDS WithdrawSystem, FiniteSetTheorems, TLAPS

(* The fee of an amount is at most the amount: FeeBp is at most 100%. *)
LEMMA CreditedBound ==
  ASSUME NEW a \in Nat
  PROVE  Credited(a) \in 0..a
<1>1. FeeBp \in 0..10000
  BY WithdrawAssumption
<1>2. a * FeeBp \in 0..(a * 10000)
  BY <1>1, SMT
<1>3. (a * FeeBp + 5000) \div 10000 \in 0..a
  BY <1>2, SMT
<1> QED
  BY <1>3 DEF Credited

-----------------------------------------------------------------------------
(* Type correctness.  TypeOK alone is not inductive: what a goroutine writes under *)
(* the id it holds is typed only because it holds one by then.                     *)

WorkersHoldId  == \A w \in Workers : pc[w] # "idle" => cur[w] \in Ids
RequestsHoldId == \A r \in Requests : req[r].pc \in {"turn", "credit"} => req[r].id \in Ids

TypeInv == TypeOK /\ WorkersHoldId /\ RequestsHoldId

LEMMA IdBound == Ids \subseteq 0..MaxId
BY TableAssumption DEF Ids

LEMMA InitTypes == Init => TypeInv
BY TableAssumption, PayoutAssumption, SystemAssumption
   DEF Init, TypeInv, TypeOK, TableOK, WithdrawOK, PayoutOK, WorkersHoldId, RequestsHoldId,
       Row, NoRow, Status, Ids, TxIds, NoTx, LegacyRow, ReqState, IdleReq, Inside, TxState, NoTransfer

LEMMA StatementTypes ==
  ASSUME TableOK, NEW id \in Ids
  PROVE  /\ Claimed(id) \in [Ids -> Row]
         /\ Passed(id) \in [Ids -> Row]
         /\ Cancelled(id) \in [Ids -> Row]
         /\ \A t \in TxIds : HashSet(id, t) \in [Ids -> Row]
         /\ \A u \in Users \cup {NoUser}, a \in 0..MaxAmount :
              Inserted(id, u, a, Credited(a)) \in [Ids -> Row]
<1>1. \A a \in 0..MaxAmount : Credited(a) \in 0..MaxAmount
  BY CreditedBound, TableAssumption
<1>2. \A u \in Users \cup {NoUser}, a \in 0..MaxAmount : Inserted(id, u, a, Credited(a)) \in [Ids -> Row]
  BY <1>1 DEF Inserted, TableOK, Row, Status, NoTx
<1>3. row[id] \in Row
  BY DEF TableOK
<1>4. \A s \in Status : [row EXCEPT ![id].status = s] \in [Ids -> Row]
  BY <1>3 DEF TableOK, Row
<1>5. \A t \in TxIds : [row EXCEPT ![id].hash = t] \in [Ids -> Row]
  BY <1>3 DEF TableOK, Row
<1>6. /\ Claimed(id) \in [Ids -> Row]
      /\ Passed(id) \in [Ids -> Row]
      /\ Cancelled(id) \in [Ids -> Row]
  BY <1>4 DEF Claimed, Passed, Cancelled, TableOK, Status
<1> QED
  BY <1>2, <1>5, <1>6 DEF HashSet

(* A request keeps the types: each of its statements leaves typed rows and typed *)
(* requests, and the balance stays a natural because Debit is guarded by Covers. *)
LEMMA RequestTypes ==
  ASSUME TypeInv, NEW r \in Requests, RequestStep(r), UNCHANGED payoutVars
  PROVE  TypeInv'
<1> USE DEF TypeInv
<1>1. PayoutOK' /\ WorkersHoldId'
  BY DEF TypeOK, PayoutOK, WorkersHoldId, payoutVars
<1>2. /\ row \in [Ids -> Row] /\ withdrawable \in [Users -> Nat]
      /\ req \in [Requests -> ReqState] /\ jobs \in [Instances -> SUBSET Ids]
      /\ req[r] \in ReqState
  BY DEF TypeOK, TableOK, WithdrawOK
<1> SUFFICES TableOK' /\ WithdrawOK' /\ RequestsHoldId'
  BY <1>1 DEF TypeOK
<1>3. ASSUME NEW s \in ReqState, Step(r, s), s.pc \in {"turn", "credit"} => s.id \in Ids
      PROVE  req' \in [Requests -> ReqState] /\ RequestsHoldId'
  BY <1>2, <1>3 DEF Step, RequestsHoldId
<1>4. IdleReq \in ReqState /\ IdleReq.pc = "idle"
  BY TableAssumption DEF IdleReq, ReqState
<1>5. Done(r) => req' \in [Requests -> ReqState] /\ RequestsHoldId'
  BY <1>3, <1>4 DEF Done
<1>6. ASSUME NEW id \in Ids, InsertRow(r, id)
      PROVE  TableOK'
  <2>1. req[r].user \in Users \cup {NoUser} /\ req[r].amount \in 0..MaxAmount
    BY <1>2 DEF ReqState
  <2> QED
    BY <1>6, <2>1, StatementTypes DEF TypeOK, TableOK, InsertRow
<1>7. ASSUME NEW rest \in SUBSET Ids, NextCancel(r, rest)
      PROVE  req' \in [Requests -> ReqState] /\ RequestsHoldId'
  <2>1. [IdleReq EXCEPT !.pc = "cas", !.todo = rest] \in ReqState
    BY <1>4 DEF IdleReq, ReqState
  <2> QED
    BY <1>3, <1>5, <1>7, <2>1 DEF NextCancel, IdleReq
<1>8. req[r].amount \in Nat /\ req[r].todo \in SUBSET Ids
  BY <1>2, TableAssumption DEF ReqState
<1>9. ASSUME Covers(r), req[r].pc = "debit",
             withdrawable' = [withdrawable EXCEPT ![req[r].user] = @ - req[r].amount]
      PROVE  withdrawable' \in [Users -> Nat]
  <2> DEFINE v == req[r].user
             a == req[r].amount
  <2>1. v \in Users => withdrawable[v] - a \in Nat
    BY <1>2, <1>8, <1>9 DEF Covers
  <2>2. withdrawable' = [withdrawable EXCEPT ![v] = @ - a]
    BY <1>9
  <2> HIDE DEF v, a
  <2> QED
    BY <1>2, <2>1, <2>2
<1>10. ASSUME UNCHANGED <<row, withdrawable, jobs>>
       PROVE  TableOK' /\ withdrawable' \in [Users -> Nat] /\ jobs' \in [Instances -> SUBSET Ids]
  BY <1>2, <1>10 DEF TableOK
<1>11. CASE \E u \in Users, a \in Amounts : Submit(r, u, a)
  <2> PICK u \in Users, a \in Amounts : Submit(r, u, a)
    BY <1>11
  <2>1. a \in 0..MaxAmount
    BY WithdrawAssumption, TableAssumption
  <2>2. [IdleReq EXCEPT !.pc = "debit", !.user = u, !.amount = a] \in ReqState
    BY <1>4, <2>1 DEF IdleReq, ReqState
  <2> QED
    BY <1>3, <1>10, <2>2 DEF Submit, WithdrawOK, IdleReq
<1>12. CASE Debit(r)
  <2>1. [req[r] EXCEPT !.pc = "insert"] \in ReqState
    BY <1>2 DEF ReqState
  <2>2. req' \in [Requests -> ReqState] /\ RequestsHoldId'
    BY <1>3, <1>5, <1>12, <2>1, <1>2 DEF Debit, ReqState
  <2>3. withdrawable' \in [Users -> Nat]
    BY <1>2, <1>9, <1>12 DEF Debit
  <2> QED
    BY <1>2, <1>12, <2>2, <2>3 DEF Debit, WithdrawOK, TableOK
<1>13. CASE DebitFails(r)
  <2>1. withdrawable' \in [Users -> Nat]
    BY <1>2, <1>9, <1>13 DEF DebitFails
  <2> QED
    BY <1>2, <1>5, <1>13, <2>1 DEF DebitFails, WithdrawOK, TableOK
<1>14. CASE Insert(r)
  <2> PICK id \in Ids : InsertRow(r, id) /\ Step(r, [req[r] EXCEPT !.pc = "turn", !.id = id])
    BY <1>14 DEF Insert
  <2>1. [req[r] EXCEPT !.pc = "turn", !.id = id] \in ReqState
    BY <1>2, IdBound DEF ReqState
  <2>2. req' \in [Requests -> ReqState] /\ RequestsHoldId'
    BY <1>3, <2>1, <1>2 DEF ReqState
  <2> QED
    BY <1>2, <1>6, <1>14, <2>2 DEF Insert, WithdrawOK
<1>15. CASE InsertFails(r)
  <2>1. TableOK'
    BY <1>2, <1>6, <1>15 DEF InsertFails, TableOK
  <2>2. [req[r] EXCEPT !.pc = "refund"] \in ReqState
    BY <1>2 DEF ReqState
  <2>3. req' \in [Requests -> ReqState] /\ RequestsHoldId'
    BY <1>2, <1>3, <1>15, <2>2 DEF InsertFails, ReqState
  <2> QED
    BY <1>2, <1>15, <2>1, <2>3 DEF InsertFails, WithdrawOK
<1>16. CASE Refund(r)
  <2>1. withdrawable' \in [Users -> Nat]
    BY <1>2, <1>8, <1>16 DEF Refund
  <2> QED
    BY <1>2, <1>5, <1>16, <2>1 DEF Refund, WithdrawOK, TableOK
<1>17. CASE Turn(r)
  <2>1. req[r].id \in Ids
    BY <1>17 DEF Turn, RequestsHoldId
  <2>2. jobs' \in [Instances -> SUBSET Ids]
    BY <1>2, <1>17, <2>1 DEF Turn
  <2> QED
    BY <1>2, <1>5, <1>17, <2>2 DEF Turn, WithdrawOK, TableOK
<1>18. CASE TurnFails(r)
  BY <1>5, <1>10, <1>18 DEF TurnFails, WithdrawOK
<1>19. CASE CancelList(r)
  <2>1. [IdleReq EXCEPT !.pc = "cas", !.todo = ListPending] \in ReqState
    BY <1>4 DEF IdleReq, ReqState, ListPending
  <2> QED
    BY <1>3, <1>10, <1>19, <2>1 DEF CancelList, WithdrawOK, IdleReq
<1>20. CASE CancelCas(r)
  <2> PICK id \in Ids :
        /\ row' = Cancelled(id)
        /\ \/ Step(r, [req[r] EXCEPT !.pc = "credit", !.id = id])
           \/ NextCancel(r, req[r].todo \ {id})
    BY <1>20 DEF CancelCas
  <2>1. TableOK'
    BY StatementTypes DEF TypeOK, TableOK
  <2>2. [req[r] EXCEPT !.pc = "credit", !.id = id] \in ReqState
    BY <1>2, IdBound DEF ReqState
  <2>3. req[r].todo \ {id} \in SUBSET Ids
    BY <1>8
  <2>4. ASSUME Step(r, [req[r] EXCEPT !.pc = "credit", !.id = id])
        PROVE  req' \in [Requests -> ReqState] /\ RequestsHoldId'
    BY <1>2, <1>3, <2>2, <2>4 DEF ReqState
  <2>5. req' \in [Requests -> ReqState] /\ RequestsHoldId'
    BY <1>7, <2>3, <2>4
  <2> QED
    BY <1>2, <1>20, <2>1, <2>5 DEF CancelCas, WithdrawOK
<1>21. CASE CancelCredit(r)
  <2>1. row[req[r].id].amount \in Nat
    BY <1>2, <1>21, TableAssumption DEF CancelCredit, RequestsHoldId, Row
  <2>2. withdrawable' \in [Users -> Nat]
    <3> DEFINE v == row[req[r].id].owner
               a == row[req[r].id].amount
    <3>1. withdrawable' = [withdrawable EXCEPT ![v] = @ + a] /\ a \in Nat
      BY <1>21, <2>1 DEF CancelCredit, RefundOf
    <3> HIDE DEF v, a
    <3>2. v \in Users => withdrawable[v] + a \in Nat
      BY <1>2, <3>1
    <3> QED
      BY <1>2, <3>1, <3>2
  <2>3. req[r].todo \ {req[r].id} \in SUBSET Ids
    BY <1>8
  <2>4. req' \in [Requests -> ReqState] /\ RequestsHoldId'
    BY <1>5, <1>7, <1>21, <2>3 DEF CancelCredit
  <2> QED
    BY <1>2, <1>21, <2>2, <2>4 DEF CancelCredit, WithdrawOK, TableOK
<1>22. CASE CancelFails(r)
  <2>1. TableOK'
    BY <1>2, <1>22, StatementTypes DEF CancelFails, TypeOK, TableOK
  <2> QED
    BY <1>2, <1>5, <1>22, <2>1 DEF CancelFails, WithdrawOK
<1> QED
  BY <1>11, <1>12, <1>13, <1>14, <1>15, <1>16, <1>17, <1>18, <1>19, <1>20, <1>21, <1>22
     DEF RequestStep

(* What a worker writes under the id it holds is typed. *)
LEMMA WriteTypes ==
  ASSUME TypeInv, NEW w \in Workers, cur[w] \in Ids,
         \/ UNCHANGED row
         \/ row' = Claimed(cur[w])
         \/ row' = Passed(cur[w])
         \/ sent[w] \in TxIds /\ row' = HashSet(cur[w], sent[w])
         \/ sent[w] = NoTx /\ row' = HashSet(cur[w], sent[w])
  PROVE  TableOK'
<1>1. row \in [Ids -> Row]
  BY DEF TypeInv, TypeOK, TableOK
<1>2. HashSet(cur[w], NoTx) \in [Ids -> Row]
  BY <1>1 DEF HashSet, Row
<1> QED
  BY <1>1, <1>2, StatementTypes DEF TableOK

LEMMA ReturnTypes ==
  ASSUME TypeInv, NEW w \in Workers, Return(w), TableOK', UNCHANGED withdrawVars
  PROVE  TypeInv'
<1>1. PayoutOK'
  <2> USE DEF TypeInv, TypeOK, PayoutOK, Return, Goto
  <2>1. mutex' \in [Instances -> Workers \cup {NoWorker}]
    OBVIOUS
  <2>2. pc' \in [Workers -> {"idle", "lock"} \cup Inside] /\ op' \in [Workers -> {"process", "confirm"}]
    OBVIOUS
  <2>3. cur' \in [Workers -> Ids \cup {0}] /\ sent' \in [Workers -> TxIds \cup {NoTx}]
    OBVIOUS
  <2> QED
    BY <2>1, <2>2, <2>3
<1>2. WithdrawOK' /\ RequestsHoldId'
  BY DEF TypeInv, TypeOK, WithdrawOK, RequestsHoldId, withdrawVars
<1>3. WorkersHoldId'
  BY DEF TypeInv, TypeOK, PayoutOK, WorkersHoldId, Return, Goto
<1> QED
  BY <1>1, <1>2, <1>3 DEF TypeInv, TypeOK

(* A worker keeps the types. *)
LEMMA WorkerTypes ==
  ASSUME TypeInv, NEW w \in Workers, WorkerStep(w), UNCHANGED withdrawVars
  PROVE  TypeInv'
<1> USE DEF TypeInv
<1>1. WithdrawOK' /\ RequestsHoldId'
  BY DEF TypeOK, WithdrawOK, RequestsHoldId, withdrawVars
<1>2. /\ row \in [Ids -> Row] /\ mutex \in [Instances -> Workers \cup {NoWorker}]
      /\ pc \in [Workers -> {"idle", "lock"} \cup Inside]
      /\ op \in [Workers -> {"process", "confirm"}]
      /\ cur \in [Workers -> Ids \cup {0}] /\ sent \in [Workers -> TxIds \cup {NoTx}]
      /\ todo \in [Workers -> SUBSET Ids]
      /\ tx \in [TxIds -> [wid : Ids \cup {0}, state : TxState]]
  BY DEF TypeOK, TableOK, PayoutOK
<1>3. pc[w] \in Inside => cur[w] \in Ids
  BY DEF WorkersHoldId, Inside
<1> SUFFICES (TableOK' /\ PayoutOK' /\ WorkersHoldId') \/ TypeInv'
  BY <1>1 DEF TypeOK
<1>4. ASSUME NEW l \in {"lock"} \cup Inside, Goto(w, l), UNCHANGED cur, cur[w] \in Ids
      PROVE  pc' \in [Workers -> {"idle", "lock"} \cup Inside] /\ WorkersHoldId'
  BY <1>2, <1>4 DEF Goto, WorkersHoldId
<1>5. ASSUME NEW t \in TxIds, Sends(w, t)
      PROVE  tx' \in [TxIds -> [wid : Ids \cup {0}, state : TxState]]
  BY <1>2, <1>5 DEF Sends, TxState
<1>6. CASE TakeNext(w)
  <2> PICK id \in todo[w] : Call(w, "process", id) /\ todo' = [todo EXCEPT ![w] = @ \ {id}]
    BY <1>6 DEF TakeNext
  <2>1. id \in Ids
    BY <1>2
  <2>2. WorkersHoldId'
    BY <1>2, <2>1 DEF Call, Goto, WorkersHoldId
  <2>3. /\ op' \in [Workers -> {"process", "confirm"}] /\ cur' \in [Workers -> Ids \cup {0}]
        /\ pc' \in [Workers -> {"idle", "lock"} \cup Inside] /\ todo' \in [Workers -> SUBSET Ids]
    BY <1>2, <2>1 DEF Call, Goto
  <2> QED
    BY <1>2, <1>6, <2>2, <2>3 DEF TakeNext, PayoutOK, TableOK
<1>7. CASE Lock(w)
  <2>1. mutex' \in [Instances -> Workers \cup {NoWorker}]
    BY <1>2, <1>7 DEF Lock
  <2>2. cur[w] \in Ids
    BY <1>7 DEF Lock, WorkersHoldId
  <2> QED
    BY <1>2, <1>4, <1>7, <2>1, <2>2 DEF Lock, PayoutOK, TableOK, Inside
<1>8. CASE Resume(w)
  <2>1. cur[w] \in Ids /\ row[cur[w]].hash \in TxIds \cup {NoTx}
    BY <1>2, <1>3, <1>8 DEF Resume, Row, Inside
  <2>2. sent' \in [Workers -> TxIds \cup {NoTx}]
    BY <1>2, <1>8, <2>1 DEF Resume
  <2> QED
    BY <1>2, <1>4, <1>8, <2>1, <2>2 DEF Resume, PayoutOK, TableOK, Inside
<1>9. CASE GoClaim(w) \/ GoSend(w)
  <2>1. cur[w] \in Ids
    BY <1>3, <1>9 DEF GoClaim, GoSend, Inside
  <2> QED
    BY <1>2, <1>4, <1>9, <2>1 DEF GoClaim, GoSend, PayoutOK, TableOK, Inside
<1>10. CASE Refuse(w)
  BY <1>2, <1>10, ReturnTypes DEF Refuse, TableOK
<1>11. CASE Claim(w)
  <2>1. cur[w] \in Ids
    BY <1>3, <1>11 DEF Claim, Inside
  <2>2. TableOK'
    BY <1>11, <2>1, WriteTypes DEF Claim
  <2>3. CASE Return(w)
    BY <2>2, <2>3, ReturnTypes
  <2>4. CASE Goto(w, "reload") /\ UNCHANGED <<mutex, op, cur, sent, todo, tx>>
    BY <1>2, <1>4, <2>1, <2>2, <2>4 DEF PayoutOK, Inside
  <2> QED
    BY <1>11, <2>3, <2>4 DEF Claim
<1>12. CASE Send(w)
  <2> PICK t \in TxIds : Sends(w, t) /\ sent' = [sent EXCEPT ![w] = t]
    BY <1>12 DEF Send
  <2>1. cur[w] \in Ids
    BY <1>3, <1>12 DEF Sends, Inside
  <2>2. sent' \in [Workers -> TxIds \cup {NoTx}]
    BY <1>2
  <2> QED
    BY <1>2, <1>4, <1>5, <1>12, <2>1, <2>2 DEF Send, PayoutOK, TableOK, Inside
<1>13. CASE SendUnheard(w)
  <2> PICK t \in TxIds : Sends(w, t)
    BY <1>13 DEF SendUnheard
  <2>1. mutex' \in [Instances -> Workers \cup {NoWorker}]
    BY <1>2, <1>13 DEF SendUnheard
  <2>2. pc' \in [Workers -> {"idle", "lock"} \cup Inside] /\ WorkersHoldId'
    BY <1>2, <1>13 DEF SendUnheard, Goto, WorkersHoldId
  <2>3. op' \in [Workers -> {"process", "confirm"}] /\ cur' \in [Workers -> Ids \cup {0}]
    BY <1>2, <1>13 DEF SendUnheard
  <2> QED
    BY <1>2, <1>5, <1>13, <2>1, <2>2, <2>3 DEF SendUnheard, PayoutOK, TableOK
<1>14. CASE SendFails(w) \/ GiveUp(w)
  BY <1>2, <1>14, ReturnTypes DEF SendFails, GiveUp, TableOK
<1>15. CASE SaveHash(w)
  <2>1. cur[w] \in Ids /\ sent[w] \in TxIds \cup {NoTx}
    BY <1>2, <1>3, <1>15 DEF SaveHash, Inside
  <2>2. TableOK'
    BY <1>15, <2>1, WriteTypes DEF SaveHash
  <2> QED
    BY <1>2, <1>4, <1>15, <2>1, <2>2 DEF SaveHash, PayoutOK, Inside
<1>16. CASE Receipt(w)
  <2>1. TableOK' /\ cur[w] \in Ids
    BY <1>2, <1>3, <1>16 DEF Receipt, TableOK, Inside
  <2>2. CASE Return(w)
    BY <2>1, <2>2, ReturnTypes
  <2>3. CASE Goto(w, "mark") /\ UNCHANGED <<mutex, op, cur, sent, todo, tx>>
    BY <1>2, <1>4, <2>1, <2>3 DEF PayoutOK, Inside
  <2> QED
    BY <1>16, <2>2, <2>3 DEF Receipt
<1>17. CASE Mark(w)
  <2>1. TableOK'
    BY <1>3, <1>17, WriteTypes DEF Mark, Inside
  <2> QED
    BY <1>17, <2>1, ReturnTypes DEF Mark
<1>18. CASE DbFails(w)
  <2>1. cur[w] \in Ids /\ sent[w] \in TxIds \cup {NoTx}
    BY <1>2, <1>3, <1>18 DEF DbFails, Inside
  <2>2. TableOK'
    BY <1>18, <2>1, WriteTypes DEF DbFails
  <2> QED
    BY <1>18, <2>2, ReturnTypes DEF DbFails
<1> QED
  BY <1>6, <1>7, <1>8, <1>9, <1>10, <1>11, <1>12, <1>13, <1>14, <1>15, <1>16, <1>17, <1>18
     DEF WorkerStep

(* Every step keeps the types. *)
LEMMA NextTypes == TypeInv /\ [Next]_vars => TypeInv'
<1> SUFFICES ASSUME TypeInv, [Next]_vars
             PROVE  TypeInv'
  OBVIOUS
<1> USE DEF TypeInv
<1>1. /\ row \in [Ids -> Row] /\ mutex \in [Instances -> Workers \cup {NoWorker}]
      /\ pc \in [Workers -> {"idle", "lock"} \cup Inside]
      /\ op \in [Workers -> {"process", "confirm"}]
      /\ cur \in [Workers -> Ids \cup {0}] /\ sent \in [Workers -> TxIds \cup {NoTx}]
      /\ todo \in [Workers -> SUBSET Ids]
      /\ tx \in [TxIds -> [wid : Ids \cup {0}, state : TxState]]
      /\ withdrawable \in [Users -> Nat] /\ req \in [Requests -> ReqState]
      /\ jobs \in [Instances -> SUBSET Ids]
  BY DEF TypeOK, TableOK, PayoutOK, WithdrawOK
<1>2. ASSUME NEW w \in Workers, NEW o \in {"process", "confirm"}, NEW id \in Ids, Call(w, o, id)
      PROVE  /\ op' \in [Workers -> {"process", "confirm"}] /\ cur' \in [Workers -> Ids \cup {0}]
             /\ pc' \in [Workers -> {"idle", "lock"} \cup Inside] /\ WorkersHoldId'
  BY <1>1, <1>2 DEF Call, Goto, WorkersHoldId
<1>3. CASE \E r \in Requests : RequestStep(r) /\ UNCHANGED payoutVars
  BY <1>3, RequestTypes
<1>4. CASE \E w \in Workers : WorkerStep(w) /\ UNCHANGED withdrawVars
  BY <1>4, WorkerTypes
<1>5. CASE \E w \in Workers : RunPayoutQueue(w) /\ UNCHANGED withdrawVars
  <2> PICK w \in Workers : RunPayoutQueue(w) /\ UNCHANGED withdrawVars
    BY <1>5
  <2>1. todo' \in [Workers -> SUBSET Ids]
    BY <1>1 DEF RunPayoutQueue, ListPayoutQueue
  <2> QED
    BY <1>1, <2>1 DEF RunPayoutQueue, withdrawVars, TypeOK, TableOK, WithdrawOK, PayoutOK,
                      WorkersHoldId, RequestsHoldId
<1>6. CASE \E w \in Workers, o \in {"process", "confirm"}, id \in Ids :
             AdminCall(w, o, id) /\ UNCHANGED withdrawVars
  BY <1>1, <1>2, <1>6 DEF AdminCall, withdrawVars, TypeOK, TableOK, WithdrawOK, PayoutOK, RequestsHoldId
<1>7. CASE \E w \in Workers : AsyncPayout(w)
  <2> PICK w \in Workers : AsyncPayout(w)
    BY <1>7
  <2> PICK id \in jobs[Home[w]] :
        /\ jobs' = [jobs EXCEPT ![Home[w]] = @ \ {id}]
        /\ Call(w, "process", id)
        /\ UNCHANGED <<mutex, sent, todo, tx, row, withdrawable, req>>
    BY DEF AsyncPayout
  <2>1. id \in Ids /\ jobs' \in [Instances -> SUBSET Ids]
    BY <1>1, PayoutAssumption
  <2> QED
    BY <1>1, <1>2, <2>1 DEF TypeOK, TableOK, WithdrawOK, PayoutOK, RequestsHoldId
<1>8. CASE \E t \in TxIds : (Mine(t) \/ Drop(t)) /\ UNCHANGED withdrawVars
  <2> PICK t \in TxIds, s \in TxState : Fate(t, s) /\ UNCHANGED withdrawVars
    BY <1>8 DEF Mine, Drop, TxState
  <2>1. tx' \in [TxIds -> [wid : Ids \cup {0}, state : TxState]]
    BY <1>1 DEF Fate
  <2> QED
    BY <1>1, <2>1 DEF Fate, withdrawVars, TypeOK, TableOK, WithdrawOK, PayoutOK,
                      WorkersHoldId, RequestsHoldId
<1>9. CASE \E i \in Instances : Crash(i)
  <2> PICK i \in Instances : Crash(i)
    BY <1>9
  <2>1. IdleReq \in ReqState /\ IdleReq.pc = "idle"
    BY TableAssumption DEF IdleReq, ReqState
  <2>2. req' \in [Requests -> ReqState] /\ RequestsHoldId'
    BY <1>1, <2>1 DEF Crash, RequestsCrash, RequestsHoldId
  <2>3. TableOK' /\ WithdrawOK'
    BY <1>1, <2>2 DEF Crash, RequestsCrash, TableOK, WithdrawOK
  <2>4. PayoutOK'
    BY <1>1 DEF Crash, WorkersCrash, PayoutOK
  <2>5. WorkersHoldId'
    BY DEF Crash, WorkersCrash, WorkersHoldId
  <2> QED
    BY <2>2, <2>3, <2>4, <2>5 DEF TypeOK
<1>10. CASE UNCHANGED vars
  BY <1>10 DEF vars, withdrawVars, payoutVars, TypeOK, TableOK, WithdrawOK, PayoutOK,
               WorkersHoldId, RequestsHoldId
<1> QED
  BY <1>3, <1>4, <1>5, <1>6, <1>7, <1>8, <1>9, <1>10 DEF Next

LEMMA TypesHold == Spec => []TypeInv
<1>1. Init => TypeInv
  BY InitTypes
<1>2. TypeInv /\ [Next]_vars => TypeInv'
  BY NextTypes
<1> QED
  BY <1>1, <1>2, PTL DEF Spec

(* Every variable keeps its type, whatever fails: no balance goes below zero, no   *)
(* row leaves its columns' ranges, no goroutine reaches a state it has no code for.*)
THEOREM TypeCorrect == Spec => []TypeOK
<1>1. TypeInv => TypeOK
  BY DEF TypeInv
<1> QED
  BY <1>1, TypesHold, PTL

-----------------------------------------------------------------------------
(* What each kind of step does to the rows, to the chain and to the workers *)

(* A request inserts a row or cancels a pending one, and touches no other. *)
LEMMA RequestRows ==
  ASSUME TypeInv, NEW r \in Requests, RequestStep(r), NEW id \in Ids
  PROVE  \/ row'[id] = row[id]
         \/ /\ row[id].status = "none"
            /\ row'[id].status = "rewarded" /\ row'[id].hash = NoTx
         \/ /\ row[id].status = "pending"
            /\ row'[id].status = "cancelled" /\ row'[id].hash = row[id].hash
<1>1. row \in [Ids -> Row] /\ row[id] \in Row
  BY DEF TypeInv, TypeOK, TableOK
<1>2. ASSUME NEW j \in Ids, InsertRow(r, j)
      PROVE  \/ row'[id] = row[id]
             \/ /\ row[id].status = "none"
                /\ row'[id].status = "rewarded" /\ row'[id].hash = NoTx
  BY <1>1, <1>2 DEF InsertRow, Inserted, NextId, Exists
<1>3. ASSUME NEW j \in Ids, row' = Cancelled(j)
      PROVE  \/ row'[id] = row[id]
             \/ /\ row[id].status = "pending"
                /\ row'[id].status = "cancelled" /\ row'[id].hash = row[id].hash
  BY <1>1, <1>3 DEF Cancelled, Cancellable, Row
<1>4. CASE Insert(r) \/ InsertFails(r)
  BY <1>2, <1>4 DEF Insert, InsertFails
<1>5. CASE CancelCas(r) \/ CancelFails(r)
  BY <1>3, <1>5 DEF CancelCas, CancelFails
<1>6. CASE UNCHANGED row
  BY <1>6
<1> QED
  BY <1>4, <1>5, <1>6
     DEF RequestStep, Submit, Debit, DebitFails, Refund, Turn, TurnFails, CancelList, CancelCredit

LEMMA RequestRowsButInsert ==
  ASSUME TypeInv, NEW r \in Requests, RequestStep(r), ~\E j \in Ids : InsertRow(r, j), NEW id \in Ids
  PROVE  \/ row'[id] = row[id]
         \/ row[id].status = "pending" /\ row'[id].status = "cancelled"
<1>1. row \in [Ids -> Row] /\ row[id] \in Row
  BY DEF TypeInv, TypeOK, TableOK
<1>2. ASSUME NEW j \in Ids, row' = Cancelled(j)
      PROVE  \/ row'[id] = row[id]
             \/ row[id].status = "pending" /\ row'[id].status = "cancelled"
  BY <1>1, <1>2 DEF Cancelled, Cancellable, Row
<1>3. CASE CancelCas(r) \/ CancelFails(r)
  BY <1>2, <1>3 DEF CancelCas, CancelFails
<1>4. CASE UNCHANGED row
  BY <1>4
<1> QED
  BY <1>3, <1>4
     DEF RequestStep, Submit, Debit, DebitFails, Insert, InsertFails, Refund, Turn, TurnFails,
         CancelList, CancelCredit

(* A worker writes only the row it is on: its claim, its hash or its success. *)
LEMMA WorkerRows ==
  ASSUME TypeInv, NEW w \in Workers, WorkerStep(w), NEW id \in Ids
  PROVE  \/ row'[id] = row[id]
         \/ /\ id = cur[w] /\ pc[w] = "claim"
            /\ row[id].status \in {"rewarded", "approved"}
            /\ row'[id].status = "doing" /\ row'[id].hash = row[id].hash
         \/ /\ id = cur[w] /\ pc[w] = "save"
            /\ row'[id].status = row[id].status /\ row'[id].hash = sent[w]
         \/ /\ id = cur[w] /\ pc[w] = "mark"
            /\ row[id].status = "doing" /\ row[id].hash # NoTx
            /\ row'[id].status = "pass" /\ row'[id].hash = row[id].hash
<1>1. row \in [Ids -> Row] /\ row[id] \in Row
  BY DEF TypeInv, TypeOK, TableOK
<1>2. CASE pc[w] = "claim" /\ row' = Claimed(cur[w])
  BY <1>1, <1>2 DEF Claimed, Claimable, Row
<1>3. CASE pc[w] = "save" /\ row' = HashSet(cur[w], sent[w])
  BY <1>1, <1>3 DEF HashSet, Row
<1>4. CASE pc[w] = "mark" /\ row' = Passed(cur[w])
  BY <1>1, <1>4 DEF Passed, Passable, Row
<1>5. CASE UNCHANGED row
  BY <1>5
<1> QED
  BY <1>2, <1>3, <1>4, <1>5
     DEF WorkerStep, TakeNext, Lock, Resume, GoClaim, GoSend, Refuse, Claim, Send, SendUnheard,
         SendFails, SaveHash, Receipt, GiveUp, Mark, DbFails

(* A worker changes the chain only by sending for the withdraw it is on. *)
LEMMA WorkerTxs ==
  ASSUME TypeInv, NEW w \in Workers, WorkerStep(w), NEW t \in TxIds
  PROVE  \/ tx'[t] = tx[t]
         \/ /\ pc[w] = "send" /\ Fresh(t)
            /\ tx'[t] = [wid |-> cur[w], state |-> "pending"]
<1>1. tx \in [TxIds -> [wid : Ids \cup {0}, state : TxState]]
  BY DEF TypeInv, TypeOK, PayoutOK
<1>2. ASSUME NEW s \in TxIds, Sends(w, s)
      PROVE  \/ tx'[t] = tx[t]
             \/ /\ pc[w] = "send" /\ Fresh(t)
                /\ tx'[t] = [wid |-> cur[w], state |-> "pending"]
  BY <1>1, <1>2 DEF Sends
<1>3. CASE Send(w) \/ SendUnheard(w)
  BY <1>2, <1>3 DEF Send, SendUnheard
<1>4. CASE UNCHANGED tx
  BY <1>4
<1> QED
  BY <1>3, <1>4
     DEF WorkerStep, TakeNext, Lock, Resume, GoClaim, GoSend, Refuse, Claim, Return,
         SendFails, SaveHash, Receipt, GiveUp, Mark, DbFails

(* A worker moves no other worker. *)
LEMMA WorkerAlone ==
  ASSUME TypeInv, NEW w \in Workers, WorkerStep(w), NEW v \in Workers, v # w
  PROVE  pc'[v] = pc[v] /\ cur'[v] = cur[v] /\ sent'[v] = sent[v]
BY DEF TypeInv, TypeOK, PayoutOK, WorkerStep, TakeNext, Lock, Resume, GoClaim, GoSend, Refuse, Claim,
       Return, Goto, Call, Send, SendUnheard, SendFails, SaveHash, Receipt, GiveUp, Mark, DbFails

(* How a worker comes to hold a transfer: it sent one, it read one's hash, or it *)
(* held it already; it goes on to mark only after a receipt of success.          *)
LEMMA WorkerHolds ==
  ASSUME TypeInv, NEW w \in Workers, WorkerStep(w), pc'[w] \in {"send", "save", "wait", "mark"}
  PROVE  /\ cur'[w] = cur[w]
         /\ \/ /\ pc[w] \in {"load", "reload"} /\ pc'[w] = "send"
               /\ Unsent(cur[w]) /\ UNCHANGED <<row, tx, mutex>>
            \/ /\ pc[w] = "send" /\ pc'[w] = "save" /\ sent'[w] \in TxIds
               /\ UNCHANGED <<row, mutex>>
               /\ tx'[sent'[w]] = [wid |-> cur[w], state |-> "pending"]
            \/ /\ pc[w] \in {"load", "reload"} /\ pc'[w] = "wait"
               /\ Broadcast(cur[w]) /\ sent'[w] = row[cur[w]].hash /\ UNCHANGED <<row, tx, mutex>>
            \/ /\ pc[w] = "save" /\ pc'[w] = "wait" /\ sent'[w] = sent[w]
               /\ row' = HashSet(cur[w], sent[w]) /\ UNCHANGED <<tx, mutex>>
            \/ /\ pc[w] = "wait" /\ pc'[w] = "mark" /\ sent'[w] = sent[w]
               /\ ReceiptOK(sent[w]) /\ UNCHANGED <<row, tx, mutex>>
<1> USE DEF TypeInv, TypeOK, PayoutOK, Goto
<1>1. ASSUME Return(w)
      PROVE  FALSE
  BY <1>1 DEF Return
<1>2. ~TakeNext(w) /\ ~Lock(w) /\ ~GoClaim(w) /\ ~SendUnheard(w)
  BY DEF TakeNext, Lock, GoClaim, SendUnheard, Call
<1>3. ~Claim(w) /\ ~Refuse(w) /\ ~SendFails(w) /\ ~GiveUp(w) /\ ~Mark(w) /\ ~DbFails(w)
  BY <1>1 DEF Claim, Refuse, SendFails, GiveUp, Mark, DbFails
<1>4. CASE Resume(w)
  BY <1>4 DEF Resume
<1>5. CASE GoSend(w)
  BY <1>5 DEF GoSend
<1>6. CASE Send(w)
  BY <1>6 DEF Send, Sends
<1>7. CASE SaveHash(w)
  BY <1>7 DEF SaveHash
<1>8. CASE Receipt(w)
  BY <1>1, <1>8 DEF Receipt
<1> QED
  BY <1>2, <1>3, <1>4, <1>5, <1>6, <1>7, <1>8 DEF WorkerStep

(* Every other step leaves rows and workers that hold a transfer alone, or ends them. *)
LEMMA OtherSteps ==
  ASSUME TypeInv,
         \/ \E w \in Workers : RunPayoutQueue(w) /\ UNCHANGED withdrawVars
         \/ \E w \in Workers, o \in {"process", "confirm"}, id \in Ids :
              AdminCall(w, o, id) /\ UNCHANGED withdrawVars
         \/ \E w \in Workers : AsyncPayout(w)
         \/ \E t \in TxIds : (Mine(t) \/ Drop(t)) /\ UNCHANGED withdrawVars
         \/ \E i \in Instances : Crash(i)
         \/ UNCHANGED vars
  PROVE  /\ UNCHANGED row
         /\ \A v \in Workers : pc'[v] \in Inside =>
              /\ pc'[v] = pc[v] /\ cur'[v] = cur[v] /\ sent'[v] = sent[v]
              /\ mutex'[Home[v]] = mutex[Home[v]]
         /\ \A t \in TxIds : \/ tx'[t] = tx[t]
                             \/ /\ tx[t].state = "pending" /\ tx'[t].wid = tx[t].wid
                                /\ tx'[t].state # "unsent"
<1> USE DEF TypeInv, TypeOK, PayoutOK, Inside
<1>1. CASE \E w \in Workers : RunPayoutQueue(w) /\ UNCHANGED withdrawVars
  BY <1>1 DEF RunPayoutQueue
<1>2. CASE \E w \in Workers, o \in {"process", "confirm"}, id \in Ids :
              AdminCall(w, o, id) /\ UNCHANGED withdrawVars
  BY <1>2 DEF AdminCall, Call, Goto
<1>3. CASE \E w \in Workers : AsyncPayout(w)
  BY <1>3 DEF AsyncPayout, Call, Goto
<1>4. CASE \E t \in TxIds : (Mine(t) \/ Drop(t)) /\ UNCHANGED withdrawVars
  <2> PICK t \in TxIds, s \in {"ok", "reverted", "dropped"} : Fate(t, s)
    BY <1>4 DEF Mine, Drop
  <2> QED
    BY DEF Fate
<1>5. CASE \E i \in Instances : Crash(i)
  BY <1>5, PayoutAssumption DEF Crash, RequestsCrash, WorkersCrash
<1>6. CASE UNCHANGED vars
  BY <1>6 DEF vars, withdrawVars, payoutVars
<1> QED
  BY <1>1, <1>2, <1>3, <1>4, <1>5, <1>6

-----------------------------------------------------------------------------
(* Paid means paid, for any number of instances and whatever fails.  What carries *)
(* it is that a hash, in a row or in a worker's hands, always belongs to a        *)
(* transfer of that very withdraw, although SetTxHash overwrites whatever is      *)
(* there; and that no transfer is ever made under a name that is taken.           *)

UnsentIsBlank == \A t \in TxIds : Fresh(t) => tx[t].wid = 0
HashKnown     == \A id \in Ids : row[id].hash # NoTx => tx[row[id].hash].wid = id
InHand        == \A w \in Workers : pc[w] \in {"save", "wait", "mark"} =>
                   sent[w] \in TxIds /\ tx[sent[w]].wid = cur[w]
Marking       == \A w \in Workers : pc[w] = "mark" => tx[sent[w]].state = "ok"

PaidInv == /\ TypeInv /\ UnsentIsBlank /\ HashKnown /\ InHand /\ Marking /\ PassMeansPaid

LEMMA InitPaid == Init => PaidInv
<1> SUFFICES ASSUME Init PROVE PaidInv
  OBVIOUS
<1>1. \A id \in Ids : row[id].hash = NoTx /\ row[id].status # "pass"
  BY SystemAssumption DEF Init, LegacyRow, NoRow
<1>2. \A w \in Workers : pc[w] = "idle"
  BY DEF Init
<1>3. UnsentIsBlank
  BY DEF Init, UnsentIsBlank, NoTransfer
<1> QED
  BY <1>1, <1>2, <1>3, InitTypes DEF PaidInv, HashKnown, InHand, Marking, PassMeansPaid

(* A transfer keeps its withdraw once it has one, and its success once it has it. *)
LEMMA TransfersKeep ==
  ASSUME PaidInv, Next \/ UNCHANGED vars, NEW t \in TxIds
  PROVE  /\ tx[t].wid # 0 => tx'[t].wid = tx[t].wid
         /\ tx[t].state = "ok" => tx'[t].state = "ok"
<1>1. CASE \E r \in Requests : RequestStep(r) /\ UNCHANGED payoutVars
  BY <1>1 DEF payoutVars
<1>2. CASE \E w \in Workers : WorkerStep(w) /\ UNCHANGED withdrawVars
  BY <1>2, WorkerTxs DEF PaidInv, UnsentIsBlank, Fresh
<1> QED
  BY <1>1, <1>2, OtherSteps DEF Next, PaidInv

LEMMA NextPaid == PaidInv /\ [Next]_vars => PaidInv'
<1> SUFFICES ASSUME PaidInv, Next \/ UNCHANGED vars
             PROVE  PaidInv'
  OBVIOUS
<1> USE DEF PaidInv
<1>1. TypeInv'
  BY NextTypes
<1>2. \A id \in Ids : row[id] \in Row
  BY DEF TypeInv, TypeOK, TableOK
<1>3. \A w \in Workers : pc[w] \in Inside => cur[w] \in Ids
  BY DEF TypeInv, WorkersHoldId, Inside
<1>4. /\ 0 \notin Ids /\ NoTx \notin TxIds
      /\ \A id \in Ids : row[id].hash # NoTx => row[id].hash \in TxIds
  BY <1>2 DEF Ids, TxIds, NoTx, Row
<1>5. CASE \E r \in Requests : RequestStep(r) /\ UNCHANGED payoutVars
  <2> PICK r \in Requests : RequestStep(r) /\ UNCHANGED payoutVars
    BY <1>5
  <2>1. \A id \in Ids : \/ row'[id] = row[id]
                        \/ row'[id].status # "pass" /\ row'[id].hash \in {row[id].hash, NoTx}
    BY RequestRows
  <2>2. UNCHANGED <<pc, cur, sent, tx>>
    BY DEF payoutVars
  <2>3. HashKnown' /\ PassMeansPaid'
    BY <2>1, <2>2 DEF HashKnown, PassMeansPaid
  <2>4. UnsentIsBlank' /\ InHand' /\ Marking'
    BY <2>2 DEF UnsentIsBlank, InHand, Marking, Fresh
  <2> QED
    BY <1>1, <2>3, <2>4
<1>6. CASE \E w \in Workers : WorkerStep(w) /\ UNCHANGED withdrawVars
  <2> PICK w \in Workers : WorkerStep(w) /\ UNCHANGED withdrawVars
    BY <1>6
  <2>1. UnsentIsBlank'
    <3> SUFFICES ASSUME NEW t \in TxIds, tx'[t].state = "unsent"
                 PROVE  tx'[t].wid = 0
      BY DEF UnsentIsBlank, Fresh
    <3>1. tx'[t] # [wid |-> cur[w], state |-> "pending"]
      OBVIOUS
    <3>2. tx'[t] = tx[t]
      BY <3>1, WorkerTxs
    <3> QED
      BY <3>2 DEF UnsentIsBlank, Fresh
  <2>2. HashKnown'
    <3> SUFFICES ASSUME NEW id \in Ids, row'[id].hash # NoTx
                 PROVE  tx'[row'[id].hash].wid = id
      BY DEF HashKnown
    <3>1. CASE row'[id].hash = row[id].hash
      BY <1>4, <3>1, TransfersKeep DEF HashKnown
    <3>2. CASE pc[w] = "save" /\ id = cur[w] /\ row'[id].hash = sent[w]
      BY <1>4, <3>2, TransfersKeep DEF InHand
    <3> QED
      BY <3>1, <3>2, WorkerRows
  <2>3. InHand'
    <3> SUFFICES ASSUME NEW v \in Workers, pc'[v] \in {"save", "wait", "mark"}
                 PROVE  sent'[v] \in TxIds /\ tx'[sent'[v]].wid = cur'[v]
      BY DEF InHand
    <3>1. CASE v # w
      <4>1. pc'[v] = pc[v] /\ cur'[v] = cur[v] /\ sent'[v] = sent[v]
        BY <3>1, WorkerAlone
      <4>2. sent[v] \in TxIds /\ tx[sent[v]].wid = cur[v] /\ cur[v] # 0
        BY <1>3, <1>4, <4>1 DEF InHand, Inside
      <4> QED
        BY <4>1, <4>2, TransfersKeep
    <3>2. CASE v = w
      <4>1. CASE pc[w] \in {"save", "wait"} /\ sent'[w] = sent[w] /\ cur'[w] = cur[w]
        <5>1. sent[w] \in TxIds /\ tx[sent[w]].wid = cur[w] /\ cur[w] # 0
          BY <1>3, <1>4, <4>1 DEF InHand, Inside
        <5> QED
          BY <3>2, <4>1, <5>1, TransfersKeep
      <4>2. CASE pc[w] \in {"load", "reload"} /\ pc'[w] = "wait"
        <5>1. cur'[w] = cur[w] /\ Broadcast(cur[w]) /\ sent'[w] = row[cur[w]].hash
          BY <4>2, WorkerHolds
        <5>2. sent'[w] \in TxIds /\ tx[sent'[w]].wid = cur[w] /\ cur[w] # 0
          BY <1>3, <1>4, <4>2, <5>1 DEF HashKnown, Inside, Broadcast
        <5> QED
          BY <3>2, <5>1, <5>2, TransfersKeep
      <4>3. pc'[w] \in {"save", "wait", "mark"}
        BY <3>2
      <4>4. CASE pc[w] = "send"
        <5>1. /\ cur'[w] = cur[w] /\ sent'[w] \in TxIds
              /\ tx'[sent'[w]] = [wid |-> cur[w], state |-> "pending"]
          BY <4>4, <4>3, WorkerHolds
        <5> QED
          BY <3>2, <5>1
      <4>5. \/ pc[w] \in {"save", "wait"} /\ sent'[w] = sent[w] /\ cur'[w] = cur[w]
            \/ pc[w] \in {"load", "reload"} /\ pc'[w] = "wait"
            \/ pc[w] = "send"
        BY <4>3, WorkerHolds
      <4> QED
        BY <4>1, <4>2, <4>4, <4>5
    <3> QED
      BY <3>1, <3>2
  <2>4. Marking'
    <3> SUFFICES ASSUME NEW v \in Workers, pc'[v] = "mark"
                 PROVE  tx'[sent'[v]].state = "ok"
      BY DEF Marking
    <3>1. CASE v # w
      BY <3>1, WorkerAlone, TransfersKeep DEF InHand, Marking
    <3>2. CASE v = w
      BY <3>2, WorkerHolds, TransfersKeep DEF InHand, ReceiptOK
    <3> QED
      BY <3>1, <3>2
  <2>5. PassMeansPaid'
    <3> SUFFICES ASSUME NEW id \in Ids, row'[id].status = "pass"
                 PROVE  \E t \in TxIds : tx'[t].wid = id /\ tx'[t].state = "ok"
      BY DEF PassMeansPaid
    <3>1. CASE row[id].status = "pass"
      BY <1>4, <3>1, TransfersKeep DEF PassMeansPaid
    <3>2. CASE pc[w] = "mark" /\ id = cur[w]
      BY <1>4, <3>2, TransfersKeep DEF InHand, Marking
    <3> QED
      BY <3>1, <3>2, WorkerRows
  <2> QED
    BY <1>1, <2>1, <2>2, <2>3, <2>4, <2>5
<1>7. CASE ~(\E r \in Requests : RequestStep(r) /\ UNCHANGED payoutVars)
           /\ ~(\E w \in Workers : WorkerStep(w) /\ UNCHANGED withdrawVars)
  <2>1. /\ UNCHANGED row
        /\ \A v \in Workers : pc'[v] \in Inside =>
             pc'[v] = pc[v] /\ cur'[v] = cur[v] /\ sent'[v] = sent[v]
        /\ \A t \in TxIds : tx'[t] = tx[t] \/ (tx[t].state = "pending" /\ tx'[t].wid = tx[t].wid
                                               /\ tx'[t].state # "unsent")
    BY <1>7, OtherSteps DEF Next
  <2>2. UnsentIsBlank'
    BY <2>1 DEF UnsentIsBlank, Fresh
  <2>3. HashKnown' /\ PassMeansPaid'
    BY <1>4, <2>1, TransfersKeep DEF HashKnown, PassMeansPaid
  <2>4. InHand' /\ Marking'
    BY <1>3, <1>4, <2>1, TransfersKeep DEF InHand, Marking, Inside
  <2> QED
    BY <1>1, <2>2, <2>3, <2>4
<1> QED
  BY <1>5, <1>6, <1>7

LEMMA PaidHolds == Spec => []PaidInv
<1>1. Init => PaidInv
  BY InitPaid
<1>2. PaidInv /\ [Next]_vars => PaidInv'
  BY NextPaid
<1> QED
  BY <1>1, <1>2, PTL DEF Spec

(* However many instances run, and through crashes, failing statements and lost   *)
(* answers, confirmPayout marks a withdraw paid only when a transfer of that      *)
(* withdraw was mined with success.                                               *)
THEOREM PaidWasPaid == Spec => []PassMeansPaid
<1>1. PaidInv => PassMeansPaid
  BY DEF PaidInv
<1> QED
  BY <1>1, PaidHolds, PTL
-----------------------------------------------------------------------------
(* One process, as CONTEXT.md asks for ("avoid several instances paying the same   *)
(* withdraw"): payoutMu makes the claim, the send and the record of the hash one   *)
(* worker's at a time, so that no withdraw is sent again once its hash is          *)
(* recorded, and, where nothing fails between the send and the record, none twice: *)
(* the goroutines, claims and hashes of payout.go implement PayoutOnce.            *)

SingleInstance == \A i, j \in Instances : i = j

(* payoutMu is held by the worker inside. *)
Exclusive == \A w \in Workers : pc[w] \in Inside => mutex[Home[w]] = w

(* Only a claimed row has a hash. *)
HashAfterClaim == \A id \in Ids : row[id].hash # NoTx => row[id].status \in {"doing", "pass"}

(* What a worker read before it sends, waits and marks is still so. *)
AtSend == \A w \in Workers : pc[w] \in {"send", "save"} => Unsent(cur[w])
AtWait == \A w \in Workers : pc[w] \in {"wait", "mark"} => row[cur[w]].hash = sent[w]

OneInv == PaidInv /\ Exclusive /\ HashAfterClaim /\ AtSend /\ AtWait /\ PassHashPaid

(* What a worker's step does to payoutMu. *)
LEMMA WorkerMutex ==
  ASSUME TypeInv, NEW w \in Workers, WorkerStep(w)
  PROVE  \/ pc[w] = "idle" /\ pc'[w] = "lock" /\ UNCHANGED mutex
         \/ /\ pc[w] = "lock" /\ MutexFree(w) /\ pc'[w] = "load"
            /\ mutex' = [mutex EXCEPT ![Home[w]] = w]
         \/ pc[w] \in Inside /\ pc'[w] \in Inside /\ UNCHANGED mutex
         \/ pc[w] \in Inside /\ pc'[w] = "idle"
<1> USE DEF TypeInv, TypeOK, PayoutOK, Goto, Inside
<1>1. CASE TakeNext(w) \/ Lock(w)
  BY <1>1 DEF TakeNext, Lock, Call
<1>2. CASE Resume(w) \/ GoClaim(w) \/ GoSend(w) \/ Send(w) \/ SaveHash(w)
  BY <1>2 DEF Resume, GoClaim, GoSend, Send, Sends, SaveHash
<1>3. CASE Refuse(w) \/ SendUnheard(w) \/ SendFails(w) \/ GiveUp(w) \/ Mark(w) \/ DbFails(w)
  BY <1>3 DEF Refuse, SendUnheard, Sends, SendFails, GiveUp, Mark, DbFails, Return
<1>4. CASE Claim(w) \/ Receipt(w)
  BY <1>4 DEF Claim, Receipt, Return
<1> QED
  BY <1>1, <1>2, <1>3, <1>4 DEF WorkerStep

(* Two workers are never inside at once. *)
LEMMA AloneInside ==
  ASSUME SingleInstance, Exclusive,
         NEW v \in Workers, NEW w \in Workers, pc[v] \in Inside, pc[w] \in Inside
  PROVE  v = w
BY PayoutAssumption DEF SingleInstance, Exclusive

LEMMA InitOne == Init => OneInv
<1> SUFFICES ASSUME Init PROVE OneInv
  OBVIOUS
<1>1. \A id \in Ids : row[id].hash = NoTx /\ row[id].status # "pass"
  BY SystemAssumption DEF Init, LegacyRow, NoRow
<1>2. \A w \in Workers : pc[w] = "idle"
  BY DEF Init
<1> QED
  BY <1>1, <1>2, InitPaid
     DEF OneInv, Exclusive, Inside, HashAfterClaim, AtSend, AtWait, PassHashPaid

LEMMA NextOne ==
  ASSUME SingleInstance, OneInv, Next \/ UNCHANGED vars
  PROVE  OneInv'
<1> USE DEF OneInv
<1>1. PaidInv'
  BY NextPaid
<1>2. TypeInv /\ PaidInv /\ \A id \in Ids : row[id] \in Row
  BY DEF PaidInv, TypeInv, TypeOK, TableOK
<1>3. \A w \in Workers : pc[w] \in Inside => cur[w] \in Ids
  BY <1>2 DEF TypeInv, WorkersHoldId, Inside
<1>4. /\ 0 \notin Ids /\ NoTx \notin TxIds
      /\ \A id \in Ids : row[id].hash # NoTx => row[id].hash \in TxIds
  BY <1>2 DEF Ids, TxIds, NoTx, Row
<1>5. \A w \in Workers : pc[w] \in {"save", "wait", "mark"} => sent[w] \in TxIds /\ sent[w] # NoTx
  BY <1>4 DEF PaidInv, InHand
<1>6. CASE \E r \in Requests : RequestStep(r) /\ UNCHANGED payoutVars
  <2> PICK r \in Requests : RequestStep(r) /\ UNCHANGED payoutVars
    BY <1>6
  <2>1. UNCHANGED <<mutex, pc, cur, sent, tx>>
    BY DEF payoutVars
  <2>2. \A id \in Ids : row[id].status \in {"doing", "pass"} => row'[id] = row[id]
    BY <1>2, RequestRows
  <2>3. \A id \in Ids : row'[id] # row[id] => row'[id].hash = NoTx /\ row'[id].status # "pass"
    BY <1>2, RequestRows DEF HashAfterClaim
  <2>4. Exclusive'
    BY <2>1 DEF Exclusive
  <2>5. HashAfterClaim' /\ PassHashPaid'
    BY <2>1, <2>3 DEF HashAfterClaim, PassHashPaid
  <2>6. AtSend'
    BY <1>3, <2>1, <2>2 DEF AtSend, Unsent, Inside
  <2>7. AtWait'
    BY <1>3, <1>5, <2>1, <2>2 DEF AtWait, HashAfterClaim, Inside
  <2> QED
    BY <1>1, <2>4, <2>5, <2>6, <2>7
<1>7. CASE \E w \in Workers : WorkerStep(w) /\ UNCHANGED withdrawVars
  <2> PICK w \in Workers : WorkerStep(w) /\ UNCHANGED withdrawVars
    BY <1>7
  <2>1. Exclusive'
    <3> SUFFICES ASSUME NEW v \in Workers, pc'[v] \in Inside
                 PROVE  mutex'[Home[v]] = v
      BY DEF Exclusive
    <3>1. mutex \in [Instances -> Workers \cup {NoWorker}] /\ Home[v] \in Instances /\ Home[w] \in Instances
      BY <1>2, PayoutAssumption DEF TypeInv, TypeOK, PayoutOK
    <3>2. CASE v = w
      BY <1>2, <3>1, <3>2, WorkerMutex DEF Exclusive, Inside
    <3>3. CASE v # w
      <4>1. pc[v] \in Inside /\ mutex[Home[v]] = v
        BY <1>2, <3>3, WorkerAlone DEF Exclusive
      <4>2. pc[w] \notin Inside
        BY <3>3, <4>1, AloneInside
      <4>3. ~MutexFree(w)
        BY <3>1, <4>1, PayoutAssumption DEF MutexFree, SingleInstance
      <4> QED
        BY <1>2, <4>1, <4>2, <4>3, WorkerMutex
    <3> QED
      BY <3>2, <3>3
  <2>2. ASSUME NEW v \in Workers, v # w, pc'[v] \in {"send", "save", "wait", "mark"}
        PROVE  UNCHANGED row /\ pc'[v] = pc[v] /\ cur'[v] = cur[v] /\ sent'[v] = sent[v]
    <3>1. pc'[v] = pc[v] /\ cur'[v] = cur[v] /\ sent'[v] = sent[v]
      BY <1>2, <2>2, WorkerAlone
    <3>2. pc[w] \notin Inside
      BY <2>2, <3>1, AloneInside DEF Inside
    <3>3. UNCHANGED row
      BY <3>2 DEF WorkerStep, TakeNext, Lock, Resume, GoClaim, GoSend, Refuse, Claim, Send, Sends,
                  SendUnheard, SendFails, SaveHash, Receipt, GiveUp, Mark, DbFails, Inside
    <3> QED
      BY <3>1, <3>3
  <2>3. HashAfterClaim'
    <3> SUFFICES ASSUME NEW id \in Ids, row'[id].hash # NoTx
                 PROVE  row'[id].status \in {"doing", "pass"}
      BY DEF HashAfterClaim
    <3> QED
      BY <1>2, WorkerRows DEF HashAfterClaim, AtSend, Unsent
  <2>4. AtSend'
    <3> SUFFICES ASSUME NEW v \in Workers, pc'[v] \in {"send", "save"}
                 PROVE  Unsent(cur[v])' /\ cur'[v] = cur[v]
      BY DEF AtSend, Unsent
    <3>1. CASE v # w
      BY <2>2, <3>1 DEF AtSend, Unsent
    <3>2. CASE v = w
      BY <1>2, <3>2, WorkerHolds DEF AtSend, Unsent
    <3> QED
      BY <3>1, <3>2
  <2>5. AtWait'
    <3> SUFFICES ASSUME NEW v \in Workers, pc'[v] \in {"wait", "mark"}
                 PROVE  row'[cur'[v]].hash = sent'[v]
      BY DEF AtWait
    <3>1. CASE v # w
      BY <2>2, <3>1 DEF AtWait
    <3>2. CASE v = w
      <4>1. /\ cur'[w] = cur[w]
            /\ \/ /\ pc[w] \in {"load", "reload"} /\ sent'[w] = row[cur[w]].hash /\ UNCHANGED row
               \/ pc[w] = "save" /\ sent'[w] = sent[w] /\ row' = HashSet(cur[w], sent[w])
               \/ pc[w] = "wait" /\ sent'[w] = sent[w] /\ UNCHANGED row
        BY <1>2, <3>2, WorkerHolds
      <4>2. pc[w] = "save" => cur[w] \in Ids
        BY <1>3 DEF Inside
      <4>3. row \in [Ids -> Row]
        BY <1>2 DEF TypeInv, TypeOK, TableOK
      <4> QED
        BY <3>2, <4>1, <4>2, <4>3 DEF AtWait, HashSet, Row
    <3> QED
      BY <3>1, <3>2
  <2>6. PassHashPaid'
    <3> SUFFICES ASSUME NEW id \in Ids, row'[id].status = "pass"
                 PROVE  row'[id].hash # NoTx /\ tx'[row'[id].hash] = [wid |-> id, state |-> "ok"]
      BY DEF PassHashPaid
    <3>1. row'[id].hash = row[id].hash /\ row[id].hash # NoTx
      <4>1. CASE row'[id] = row[id]
        BY <4>1 DEF PassHashPaid
      <4>2. CASE row'[id] # row[id]
        <5>1. ~(id = cur[w] /\ pc[w] = "save" /\ row'[id].status = row[id].status)
          BY DEF AtSend, Unsent
        <5> QED
          BY <1>2, <4>2, <5>1, WorkerRows
      <4> QED
        BY <4>1, <4>2
    <3>2. row[id].hash \in TxIds
      BY <1>4, <3>1
    <3>3. tx[row[id].hash] = [wid |-> id, state |-> "ok"]
      <4>1. CASE row[id].status = "pass"
        BY <4>1 DEF PassHashPaid
      <4>2. CASE id = cur[w] /\ pc[w] = "mark"
        <5>1. row[id].hash = sent[w] /\ tx[sent[w]].wid = id /\ tx[sent[w]].state = "ok"
          BY <4>2 DEF AtWait, PaidInv, InHand, Marking
        <5>2. tx[sent[w]] \in [wid : Ids \cup {0}, state : TxState]
          BY <1>2, <3>2, <5>1 DEF TypeInv, TypeOK, PayoutOK
        <5> QED
          BY <5>1, <5>2
      <4> QED
        BY <1>2, <4>1, <4>2, WorkerRows DEF AtSend, Unsent
    <3>4. tx'[row[id].hash] = tx[row[id].hash]
      <4>1. ~Fresh(row[id].hash)
        BY <3>3 DEF Fresh
      <4> QED
        BY <1>2, <3>2, <4>1, WorkerTxs
    <3> QED
      BY <3>1, <3>3, <3>4
  <2> QED
    BY <1>1, <2>1, <2>3, <2>4, <2>5, <2>6
<1>8. CASE ~(\E r \in Requests : RequestStep(r) /\ UNCHANGED payoutVars)
           /\ ~(\E w \in Workers : WorkerStep(w) /\ UNCHANGED withdrawVars)
  <2>1. /\ UNCHANGED row
        /\ \A v \in Workers : pc'[v] \in Inside =>
             /\ pc'[v] = pc[v] /\ cur'[v] = cur[v] /\ sent'[v] = sent[v]
             /\ mutex'[Home[v]] = mutex[Home[v]]
        /\ \A t \in TxIds : tx'[t] = tx[t] \/ tx[t].state = "pending"
    BY <1>2, <1>8, OtherSteps DEF Next
  <2>2. Exclusive'
    BY <2>1 DEF Exclusive
  <2>3. HashAfterClaim' /\ AtSend' /\ AtWait'
    BY <2>1 DEF HashAfterClaim, AtSend, AtWait, Unsent, Inside
  <2>4. PassHashPaid'
    BY <1>4, <2>1 DEF PassHashPaid
  <2> QED
    BY <1>1, <2>2, <2>3, <2>4
<1> QED
  BY <1>6, <1>7, <1>8

LEMMA OneHolds == ASSUME SingleInstance PROVE Spec => []OneInv
<1>1. Init => OneInv
  BY InitOne
<1>2. OneInv /\ [Next]_vars => OneInv'
  BY NextOne
<1> QED
  BY <1>1, <1>2, PTL DEF Spec

(* In one process, whatever fails, the hash a paid withdraw shows is that of its *)
(* own successful transfer.                                                      *)
THEOREM PaidHashIsItsOwn == ASSUME SingleInstance PROVE Spec => []PassHashPaid
<1>1. OneInv => PassHashPaid
  BY DEF OneInv
<1> QED
  BY <1>1, OneHolds, PTL

-----------------------------------------------------------------------------
(* In one process, through crashes, failing statements and lost answers: once the *)
(* hash of a withdraw is recorded, no retry sends it again.                       *)
THEOREM RecordedNeverSentAgain == ASSUME SingleInstance PROVE Spec => NoSendOnceRecorded
<1> DEFINE P == \A t \in TxIds : Fresh(t) /\ ~Fresh(t)' => row[tx'[t].wid].hash = NoTx
<1>1. ASSUME OneInv, Next \/ UNCHANGED vars
      PROVE  P
  <2> SUFFICES ASSUME NEW t \in TxIds, Fresh(t), ~Fresh(t)'
               PROVE  row[tx'[t].wid].hash = NoTx
    OBVIOUS
  <2>1. TypeInv /\ tx'[t] # tx[t] /\ tx[t].state # "pending"
    BY <1>1 DEF OneInv, PaidInv, Fresh
  <2>2. CASE \E r \in Requests : RequestStep(r) /\ UNCHANGED payoutVars
    BY <2>1, <2>2 DEF payoutVars
  <2>3. CASE \E w \in Workers : WorkerStep(w) /\ UNCHANGED withdrawVars
    <3> PICK w \in Workers : WorkerStep(w)
      BY <2>3
    <3>1. pc[w] = "send" /\ tx'[t] = [wid |-> cur[w], state |-> "pending"]
      BY <2>1, WorkerTxs
    <3> QED
      BY <1>1, <3>1 DEF OneInv, AtSend, Unsent
  <2> QED
    BY <1>1, <2>1, <2>2, <2>3, OtherSteps DEF Next
<1>2. OneInv /\ [Next]_vars => [P]_vars
  BY <1>1
<1> QED
  BY <1>2, OneHolds, PTL DEF Spec, NoSendOnceRecorded

(* In one process, whatever fails, nothing touches a paid or a cancelled withdraw, *)
(* nor one whose transfer was reverted: confirmPayout reads the same receipt at     *)
(* each retry.  Its row stays as it is and no transfer is made for it.              *)
THEOREM SettledStaysFinal == ASSUME SingleInstance PROVE Spec => SettledIsFinal
<1> DEFINE P == \A id \in Ids : row[id].status \in {"pass", "cancelled"} \/ Reverted(id) =>
                  row'[id] = row[id] /\ TxsOf(id)' = TxsOf(id)
<1>1. ASSUME OneInv, Next \/ UNCHANGED vars
      PROVE  P
  <2> SUFFICES ASSUME NEW id \in Ids, row[id].status \in {"pass", "cancelled"} \/ Reverted(id)
               PROVE  row'[id] = row[id] /\ TxsOf(id)' = TxsOf(id)
    OBVIOUS
  <2>1. TypeInv /\ PaidInv
    BY <1>1 DEF OneInv, PaidInv
  <2>2. /\ row[id].status \in {"pass", "cancelled", "doing"}
        /\ row[id].status = "doing" => Reverted(id) /\ row[id].hash # NoTx
    <3>1. CASE row[id].status \in {"pass", "cancelled"}
      BY <3>1
    <3>2. CASE Reverted(id)
      BY <1>1, <3>2 DEF OneInv, HashAfterClaim, Reverted
    <3> QED
      BY <3>1, <3>2
  <2>3. CASE \E r \in Requests : RequestStep(r) /\ UNCHANGED payoutVars
    BY <2>1, <2>2, <2>3, RequestRows DEF payoutVars, TxsOf
  <2>4. CASE \E w \in Workers : WorkerStep(w) /\ UNCHANGED withdrawVars
    <3> PICK w \in Workers : WorkerStep(w)
      BY <2>4
    <3>1. ~(id = cur[w] /\ pc[w] \in {"send", "save"})
      BY <1>1, <2>2 DEF OneInv, AtSend, Unsent
    <3>2. ~(id = cur[w] /\ pc[w] = "mark" /\ row[id].status = "doing")
      BY <1>1, <2>2 DEF OneInv, PaidInv, AtWait, Marking, Reverted
    <3>3. row'[id] = row[id]
      BY <2>1, <2>2, <3>1, <3>2, WorkerRows
    <3>4. ASSUME NEW t \in TxIds
          PROVE  tx'[t].wid = id <=> tx[t].wid = id
      <4>1. CASE tx'[t] = tx[t]
        BY <4>1
      <4>2. CASE pc[w] = "send" /\ Fresh(t) /\ tx'[t] = [wid |-> cur[w], state |-> "pending"]
        <5>1. tx'[t].wid # id
          BY <3>1, <4>2
        <5>2. tx[t].wid # id
          BY <2>1, <4>2 DEF PaidInv, UnsentIsBlank, Ids
        <5> QED
          BY <5>1, <5>2
      <4> QED
        BY <2>1, <4>1, <4>2, WorkerTxs
    <3> QED
      BY <3>3, <3>4 DEF TxsOf
  <2>5. CASE ~(\E r \in Requests : RequestStep(r) /\ UNCHANGED payoutVars)
             /\ ~(\E w \in Workers : WorkerStep(w) /\ UNCHANGED withdrawVars)
    <3>1. UNCHANGED row /\ \A t \in TxIds : tx'[t].wid = tx[t].wid
      BY <1>1, <2>1, <2>5, OtherSteps DEF Next
    <3> QED
      BY <3>1 DEF TxsOf
  <2> QED
    BY <2>3, <2>4, <2>5
<1>2. OneInv /\ [Next]_vars => [P]_vars
  BY <1>1
<1> QED
  BY <1>2, OneHolds, PTL DEF Spec, SettledIsFinal

-----------------------------------------------------------------------------
(* At most one transfer.  Between TransferUSDT and SetTxHash a transfer is known  *)
(* only to its worker, so this needs that none of the three failures that can     *)
(* separate the two happens; sends that fail outright, deadlines, reverts, drops  *)
(* and statements whose answer is lost may.                                       *)

NoGap == "crash" \notin Faults /\ "sql" \notin Faults /\ "rpc" \notin Faults

Recorded(t)   == row[tx[t].wid].hash = t
HeldBy(w, t)  == pc[w] = "save" /\ cur[w] = tx[t].wid /\ sent[w] = t
Remembered    == \A t \in TxIds :
                   tx[t].wid # 0 => Recorded(t) \/ \E w \in Workers : HeldBy(w, t)

OnceInv == OneInv /\ Remembered

(* A transfer that is recorded or held accounts for its withdraw alone. *)
LEMMA OnceIsOnce == ASSUME SingleInstance PROVE OnceInv => AtMostOneTransfer
<1> SUFFICES ASSUME OnceInv, NEW s \in TxIds, NEW t \in TxIds,
                    tx[s].wid = tx[t].wid, tx[s].wid # 0
             PROVE  s = t
  BY DEF AtMostOneTransfer
<1>1. s # NoTx /\ t # NoTx
  BY DEF TxIds, NoTx
<1>2. ASSUME NEW w \in Workers, NEW a \in TxIds, NEW b \in TxIds, HeldBy(w, a), Recorded(b),
             a # NoTx, b # NoTx, tx[a].wid = tx[b].wid
      PROVE  FALSE
  BY <1>2 DEF OnceInv, OneInv, AtSend, Unsent, HeldBy, Recorded
<1>3. CASE Recorded(s) /\ Recorded(t)
  BY <1>3 DEF Recorded
<1>4. CASE \E w, v \in Workers : HeldBy(w, s) /\ HeldBy(v, t)
  BY <1>4, AloneInside DEF OnceInv, OneInv, HeldBy, Inside
<1> QED
  BY <1>1, <1>2, <1>3, <1>4 DEF OnceInv, Remembered

LEMMA NextRemembered ==
  ASSUME SingleInstance, NoGap, OnceInv, Next \/ UNCHANGED vars
  PROVE  Remembered'
<1>1. TypeInv /\ PaidInv /\ OneInv /\ Remembered
  BY DEF OnceInv, OneInv, PaidInv
<1>2. row \in [Ids -> Row] /\ tx \in [TxIds -> [wid : Ids \cup {0}, state : TxState]]
  BY <1>1 DEF TypeInv, TypeOK, TableOK, PayoutOK
<1> SUFFICES ASSUME NEW t \in TxIds, tx'[t].wid # 0
             PROVE  Recorded(t)' \/ \E w \in Workers : HeldBy(w, t)'
  BY DEF Remembered
<1>3. t # NoTx
  BY DEF TxIds, NoTx
<1>4. CASE \E r \in Requests : RequestStep(r) /\ UNCHANGED payoutVars
  <2>1. UNCHANGED <<pc, cur, sent, tx>> /\ tx[t].wid \in Ids
    BY <1>2, <1>4 DEF payoutVars
  <2>2. CASE Recorded(t)
    BY <1>1, <1>3, <1>4, <2>1, <2>2, RequestRows DEF Recorded, OneInv, HashAfterClaim
  <2>3. CASE \E w \in Workers : HeldBy(w, t)
    BY <2>1, <2>3 DEF HeldBy
  <2> QED
    BY <1>1, <2>1, <2>2, <2>3 DEF Remembered
<1>5. CASE \E w \in Workers : WorkerStep(w) /\ UNCHANGED withdrawVars
  <2> PICK w \in Workers : WorkerStep(w) /\ UNCHANGED withdrawVars
    BY <1>5
  <2>1. CASE tx'[t] # tx[t]
    <3>1. pc[w] = "send" /\ Fresh(t) /\ tx'[t] = [wid |-> cur[w], state |-> "pending"]
      BY <1>1, <2>1, WorkerTxs
    <3>2. CASE Send(w)
      <4> PICK s \in TxIds : Sends(w, s) /\ sent' = [sent EXCEPT ![w] = s]
        BY <3>2 DEF Send
      <4>1. s = t
        BY <1>2, <2>1 DEF Sends
      <4> QED
        BY <1>1, <3>1, <3>2, <4>1 DEF Send, Goto, HeldBy, TypeInv, TypeOK, PayoutOK
    <3>3. CASE ~Send(w)
      BY <2>1, <3>1, <3>3
         DEF NoGap, WorkerStep, TakeNext, Lock, Resume, GoClaim, GoSend, Refuse, Claim, Return,
             SendUnheard, SendFails, SaveHash, Receipt, GiveUp, Mark, DbFails
    <3> QED
      BY <3>2, <3>3
  <2>2. CASE tx'[t] = tx[t]
    <3>1. tx[t].wid \in Ids
      BY <1>2, <2>2
    <3>2. CASE Recorded(t)
      BY <1>1, <1>3, <2>2, <3>1, <3>2, WorkerRows DEF Recorded, OneInv, AtSend, Unsent
    <3>3. ASSUME NEW v \in Workers, HeldBy(v, t), v # w
          PROVE  HeldBy(v, t)'
      BY <1>1, <2>2, <3>3, WorkerAlone DEF HeldBy
    <3>4. CASE HeldBy(w, t)
      <4>1. row' = HashSet(cur[w], sent[w])
        BY <3>4 DEF HeldBy, NoGap, WorkerStep, TakeNext, Lock, Resume, GoClaim, GoSend, Refuse, Claim,
                    Send, Sends, SendUnheard, SendFails, SaveHash, Receipt, GiveUp, Mark, DbFails
      <4> QED
        BY <1>2, <2>2, <3>1, <3>4, <4>1 DEF HeldBy, Recorded, HashSet, Row
    <3> QED
      BY <1>1, <2>2, <3>2, <3>3, <3>4 DEF Remembered
  <2> QED
    BY <2>1, <2>2
<1>6. CASE ~(\E r \in Requests : RequestStep(r) /\ UNCHANGED payoutVars)
           /\ ~(\E w \in Workers : WorkerStep(w) /\ UNCHANGED withdrawVars)
  <2>1. UNCHANGED row /\ tx'[t].wid = tx[t].wid
    BY <1>1, <1>6, OtherSteps DEF Next
  <2>2. ASSUME NEW v \in Workers, pc[v] = "save"
        PROVE  pc'[v] = pc[v] /\ cur'[v] = cur[v] /\ sent'[v] = sent[v]
    <3>1. ~\E i \in Instances : Crash(i)
      BY DEF NoGap, Crash
    <3>2. CASE \E u \in Workers : RunPayoutQueue(u)
      BY <3>2 DEF RunPayoutQueue
    <3>3. CASE \E u \in Workers, o \in {"process", "confirm"}, id \in Ids : AdminCall(u, o, id)
      BY <2>2, <3>3, <1>1 DEF AdminCall, Free, Call, Goto, TypeInv, TypeOK, PayoutOK
    <3>4. CASE \E u \in Workers : AsyncPayout(u)
      BY <2>2, <3>4, <1>1 DEF AsyncPayout, Free, Call, Goto, TypeInv, TypeOK, PayoutOK
    <3>5. CASE \E s \in TxIds : Mine(s) \/ Drop(s)
      BY <3>5 DEF Mine, Drop, Fate
    <3>6. CASE UNCHANGED vars
      BY <3>6 DEF vars, payoutVars
    <3> QED
      BY <1>6, <3>1, <3>2, <3>3, <3>4, <3>5, <3>6 DEF Next
  <2> QED
    BY <1>1, <2>1, <2>2 DEF Remembered, Recorded, HeldBy
<1> QED
  BY <1>4, <1>5, <1>6

LEMMA OnceHolds == ASSUME SingleInstance, NoGap PROVE Spec => []OnceInv
<1>1. Init => OnceInv
  <2>1. Init => Remembered
    BY DEF Init, Remembered, NoTransfer
  <2> QED
    BY <2>1, InitOne DEF OnceInv
<1>2. OnceInv /\ [Next]_vars => OnceInv'
  BY NextOne, NextRemembered DEF OnceInv
<1> QED
  BY <1>1, <1>2, PTL DEF Spec

(* In one process in which no crash, failed statement or lost RPC answer separates *)
(* a send from the record of its hash, a withdraw is transferred at most once, for *)
(* any number of withdraws, payout goroutines and admin calls.                     *)
THEOREM TransferredOnce ==
  ASSUME SingleInstance, NoGap
  PROVE  Spec => []AtMostOneTransfer
<1>1. OnceInv => AtMostOneTransfer
  BY OnceIsOnce
<1> QED
  BY <1>1, OnceHolds, PTL

-----------------------------------------------------------------------------
(* The refinement of PayoutOnce *)

(* A withdraw with a transfer has been claimed. *)
LEMMA TransferredIsClaimed ==
  ASSUME OnceInv, NEW id \in Ids, TxsOf(id) # {}
  PROVE  row[id].status \in {"doing", "pass"}
<1> PICK t \in TxIds : tx[t].wid = id
  BY DEF TxsOf
<1>1. id # 0 /\ t # NoTx
  BY DEF Ids, TxIds, NoTx
<1> QED
  BY <1>1 DEF OnceInv, OneInv, Remembered, Recorded, HeldBy, HashAfterClaim, AtSend, Unsent

(* Nothing has been transferred for a withdraw a worker is about to send. *)
LEMMA UntransferredAtSend ==
  ASSUME SingleInstance, OnceInv, NEW w \in Workers, pc[w] = "send", cur[w] \in Ids
  PROVE  TxsOf(cur[w]) = {}
<1> SUFFICES ASSUME NEW t \in TxIds, tx[t].wid = cur[w]
             PROVE  FALSE
  BY DEF TxsOf
<1>1. cur[w] # 0 /\ t # NoTx
  BY DEF Ids, TxIds, NoTx
<1>2. ~Recorded(t)
  BY <1>1 DEF OnceInv, OneInv, AtSend, Unsent, Recorded
<1>3. ~\E v \in Workers : HeldBy(v, t)
  BY AloneInside DEF OnceInv, OneInv, HeldBy, Inside
<1> QED
  BY <1>1, <1>2, <1>3 DEF OnceInv, Remembered

LEMMA InitRefines == Init => Abstract!Init
<1> SUFFICES ASSUME Init PROVE Abstract!Init
  OBVIOUS
<1>1. \A id \in Ids : row[id].status # "pass"
  BY SystemAssumption DEF Init, LegacyRow, NoRow
<1>2. \A id \in Ids, t \in TxIds : tx[t].wid # id
  BY DEF Init, NoTransfer, Ids
<1>3. \A id \in Ids : TxsOf(id) = {}
  BY <1>2 DEF TxsOf
<1>4. \A id \in Ids : StageOf(id) \in {"none", "owed"} /\ Cardinality(TxsOf(id)) = 0
  BY <1>1, <1>3, FS_EmptySet DEF StageOf
<1> QED
  BY <1>4 DEF Abstract!Init

-----------------------------------------------------------------------------
(* A withdraw whose row keeps its queue membership and whose transfers stay as  *)
(* they are keeps its stage.                                                    *)
LEMMA StageKept ==
  ASSUME NEW id \in Ids,
         row'[id].status = "pass" <=> row[id].status = "pass",
         TxsOf(id)' = TxsOf(id),
         \A t \in TxsOf(id) : tx'[t].state = "ok" <=> tx[t].state = "ok",
         TxsOf(id) = {} => (Queued(id)' <=> Queued(id))
  PROVE  StageOf(id)' = StageOf(id) /\ Cardinality(TxsOf(id))' = Cardinality(TxsOf(id))
<1>1. (\E t \in TxsOf(id)' : tx'[t].state = "ok") <=> \E t \in TxsOf(id) : tx[t].state = "ok"
  OBVIOUS
<1>2. Cardinality(TxsOf(id))' = Cardinality(TxsOf(id))
  OBVIOUS
<1> QED
  BY <1>1, <1>2 DEF StageOf

(* The abstract step a concrete one takes: one withdraw moves, the others stay. *)
LEMMA OneMoves ==
  ASSUME NEW id \in Ids,
         \A j \in Ids \ {id} :
           StageOf(j)' = StageOf(j) /\ Cardinality(TxsOf(j))' = Cardinality(TxsOf(j)),
         \/ /\ Cardinality(TxsOf(id))' = Cardinality(TxsOf(id))
            /\ \/ StageOf(id) = "none" /\ StageOf(id)' = "owed"
               \/ StageOf(id) = "sent" /\ StageOf(id)' = "arrived"
               \/ StageOf(id) = "arrived" /\ StageOf(id)' = "settled"
         \/ /\ Cardinality(TxsOf(id))' = Cardinality(TxsOf(id)) + 1
            /\ StageOf(id) = "owed" /\ StageOf(id)' = "sent"
         \/ StageOf(id)' = StageOf(id) /\ Cardinality(TxsOf(id))' = Cardinality(TxsOf(id))
  PROVE  [Abstract!Next]_<<[j \in Ids |-> StageOf(j)], [j \in Ids |-> Cardinality(TxsOf(j))]>>
<1> DEFINE stage == [j \in Ids |-> StageOf(j)]
           transfers == [j \in Ids |-> Cardinality(TxsOf(j))]
<1>1. CASE StageOf(id)' = StageOf(id) /\ Cardinality(TxsOf(id))' = Cardinality(TxsOf(id))
  BY <1>1
<1>2. CASE /\ Cardinality(TxsOf(id))' = Cardinality(TxsOf(id)) + 1
           /\ StageOf(id) = "owed" /\ StageOf(id)' = "sent"
  <2>1. transfers' = [transfers EXCEPT ![id] = @ + 1]
    BY <1>2
  <2>2. stage' = [stage EXCEPT ![id] = "sent"] /\ stage[id] = "owed"
    BY <1>2
  <2> QED
    BY <2>1, <2>2 DEF Abstract!Next, Abstract!Send, Abstract!Moves
<1>3. CASE Cardinality(TxsOf(id))' = Cardinality(TxsOf(id))
  <2>1. transfers' = transfers
    BY <1>3
  <2>2. ASSUME NEW a, StageOf(id)' = a
        PROVE  stage' = [stage EXCEPT ![id] = a]
    BY <2>2
  <2>3. CASE StageOf(id) = "none" /\ StageOf(id)' = "owed"
    <3>1. stage[id] = "none" /\ stage' = [stage EXCEPT ![id] = "owed"]
      BY <2>2, <2>3
    <3> QED
      BY <2>1, <3>1 DEF Abstract!Next, Abstract!Owe, Abstract!Moves
  <2>4. CASE StageOf(id) = "sent" /\ StageOf(id)' = "arrived"
    <3>1. stage[id] = "sent" /\ stage' = [stage EXCEPT ![id] = "arrived"]
      BY <2>2, <2>4
    <3> QED
      BY <2>1, <3>1 DEF Abstract!Next, Abstract!Arrive, Abstract!Moves
  <2>5. CASE StageOf(id) = "arrived" /\ StageOf(id)' = "settled"
    <3>1. stage[id] = "arrived" /\ stage' = [stage EXCEPT ![id] = "settled"]
      BY <2>2, <2>5
    <3> QED
      BY <2>1, <3>1 DEF Abstract!Next, Abstract!Settle, Abstract!Moves
  <2> QED
    BY <1>1, <1>2, <2>3, <2>4, <2>5
<1> QED
  BY <1>1, <1>2, <1>3

-----------------------------------------------------------------------------
(* Requests owe a withdraw or leave all stages alone. *)
LEMMA RequestRefines ==
  ASSUME OnceInv, NEW r \in Requests, RequestStep(r), UNCHANGED payoutVars
  PROVE  [Abstract!Next]_<<[j \in Ids |-> StageOf(j)], [j \in Ids |-> Cardinality(TxsOf(j))]>>
<1>1. TypeInv
  BY DEF OnceInv, OneInv, PaidInv
<1>2. \A j \in Ids : TxsOf(j)' = TxsOf(j) /\ \A t \in TxsOf(j) : tx'[t] = tx[t]
  BY DEF payoutVars, TxsOf
<1>3. ASSUME NEW j \in Ids, row'[j].status = row[j].status
      PROVE  StageOf(j)' = StageOf(j) /\ Cardinality(TxsOf(j))' = Cardinality(TxsOf(j))
  BY <1>2, <1>3, StageKept DEF Queued
<1>4. ASSUME NEW j \in Ids, row[j].status = "pending", row'[j].status = "cancelled"
      PROVE  StageOf(j)' = StageOf(j) /\ Cardinality(TxsOf(j))' = Cardinality(TxsOf(j))
  BY <1>2, <1>4, StageKept DEF Queued
<1>5. CASE \E id \in Ids : InsertRow(r, id)
  <2> PICK id \in Ids : InsertRow(r, id)
    BY <1>5
  <2>1. row[id].status = "none" /\ row'[id].status = "rewarded"
    BY <1>1 DEF InsertRow, Inserted, NextId, Exists, TypeInv, TypeOK, TableOK
  <2>2. \A j \in Ids \ {id} : row'[j] = row[j]
    BY <1>1 DEF InsertRow, Inserted, TypeInv, TypeOK, TableOK
  <2>3. TxsOf(id) = {} /\ TxsOf(id)' = {}
    BY <1>2, <2>1, TransferredIsClaimed
  <2>4. StageOf(id) = "none" /\ StageOf(id)' = "owed"
    BY <2>1, <2>3 DEF StageOf, Queued
  <2>5. Cardinality(TxsOf(id))' = Cardinality(TxsOf(id))
    BY <1>2
  <2> QED
    BY <1>3, <2>2, <2>4, <2>5, OneMoves
<1>6. CASE ~\E id \in Ids : InsertRow(r, id)
  <2>1. \A j \in Ids : \/ row'[j] = row[j]
                       \/ row[j].status = "pending" /\ row'[j].status = "cancelled"
    BY <1>1, <1>6, RequestRowsButInsert
  <2>2. \A j \in Ids : StageOf(j)' = StageOf(j) /\ Cardinality(TxsOf(j))' = Cardinality(TxsOf(j))
    BY <1>3, <1>4, <2>1
  <2> QED
    BY <2>2
<1> QED
  BY <1>5, <1>6

(* A worker sends for a withdraw that is owed, settles one whose transfer has      *)
(* arrived, or leaves all stages alone.                                            *)
LEMMA WorkerRefines ==
  ASSUME SingleInstance, NoGap, OnceInv, NEW w \in Workers, WorkerStep(w)
  PROVE  [Abstract!Next]_<<[j \in Ids |-> StageOf(j)], [j \in Ids |-> Cardinality(TxsOf(j))]>>
<1>1. TypeInv /\ PaidInv /\ OneInv
  BY DEF OnceInv, OneInv, PaidInv
<1>2. \A j \in Ids : row[j] \in Row
  BY <1>1 DEF TypeInv, TypeOK, TableOK
<1>3. ASSUME NEW j \in Ids, row'[j] = row[j], UNCHANGED tx
      PROVE  StageOf(j)' = StageOf(j) /\ Cardinality(TxsOf(j))' = Cardinality(TxsOf(j))
  BY <1>3, StageKept DEF Queued, TxsOf
<1>4. CASE Send(w)
  <2> PICK t \in TxIds : Sends(w, t)
    BY <1>4 DEF Send
  <2> PICK id \in Ids : id = cur[w]
    BY <1>1 DEF Sends, TypeInv, WorkersHoldId
  <2>1. pc[w] = "send" /\ Unsent(id) /\ UNCHANGED row
    BY <1>1, <1>4 DEF Send, Sends, OneInv, AtSend
  <2>2. /\ tx'[t] = [wid |-> id, state |-> "pending"]
        /\ \A s \in TxIds \ {t} : tx'[s] = tx[s]
    BY <1>1 DEF Sends, TypeInv, TypeOK, PayoutOK
  <2>3. TxsOf(id) = {}
    BY <2>1, UntransferredAtSend
  <2>4. TxsOf(id)' = {t}
    BY <2>2, <2>3 DEF TxsOf
  <2>5. Cardinality(TxsOf(id)) = 0 /\ Cardinality(TxsOf(id))' = 1
    BY <2>3, <2>4, FS_EmptySet, FS_Singleton
  <2>6. StageOf(id) = "owed" /\ StageOf(id)' = "sent"
    BY <2>1, <2>2, <2>3, <2>4 DEF StageOf, Queued, Unsent
  <2>7. tx[t].wid = 0
    BY <1>1 DEF Sends, PaidInv, UnsentIsBlank
  <2>8. ASSUME NEW j \in Ids \ {id}
        PROVE  StageOf(j)' = StageOf(j) /\ Cardinality(TxsOf(j))' = Cardinality(TxsOf(j))
    <3>1. t \notin TxsOf(j) /\ t \notin TxsOf(j)'
      BY <2>2, <2>7 DEF TxsOf, Ids
    <3>2. TxsOf(j)' = TxsOf(j) /\ \A s \in TxsOf(j) : tx'[s] = tx[s]
      BY <2>2, <3>1 DEF TxsOf
    <3> QED
      BY <2>1, <3>2, StageKept DEF Queued
  <2> QED
    BY <2>1, <2>5, <2>6, <2>8, OneMoves
<1>5. CASE ~Send(w)
  <2>1. UNCHANGED tx
    BY <1>5 DEF NoGap, WorkerStep, TakeNext, Lock, Resume, GoClaim, GoSend, Refuse, Claim, Return,
                SendUnheard, SendFails, SaveHash, Receipt, GiveUp, Mark, DbFails
  <2>2. CASE pc[w] = "mark"
    <3> PICK id \in Ids : id = cur[w]
      BY <1>1, <2>2 DEF TypeInv, WorkersHoldId
    <3>1. sent[w] \in TxsOf(id) /\ tx[sent[w]].state = "ok"
      BY <1>1, <2>2 DEF PaidInv, InHand, Marking, TxsOf
    <3>2. \A j \in Ids \ {id} : row'[j] = row[j]
      BY <1>1, WorkerRows
    <3>3. \/ row'[id] = row[id]
          \/ row[id].status = "doing" /\ row'[id].status = "pass"
      BY <1>1, <2>2, <3>1, WorkerRows
    <3>4. \A j \in Ids \ {id} :
            StageOf(j)' = StageOf(j) /\ Cardinality(TxsOf(j))' = Cardinality(TxsOf(j))
      BY <1>3, <2>1, <3>2
    <3>5. Cardinality(TxsOf(id))' = Cardinality(TxsOf(id))
      BY <2>1 DEF TxsOf
    <3>6. CASE row[id].status = "doing" /\ row'[id].status = "pass"
      <4>1. StageOf(id) = "arrived" /\ StageOf(id)' = "settled"
        BY <3>1, <3>6 DEF StageOf
      <4> QED
        BY <3>1, <3>4, <3>5, <4>1, OneMoves
    <3>7. CASE row'[id] = row[id]
      BY <1>3, <2>1, <3>1, <3>4, <3>7, OneMoves
    <3> QED
      BY <3>3, <3>6, <3>7
  <2>3. CASE pc[w] # "mark"
    <3> SUFFICES \A j \in Ids :
                   StageOf(j)' = StageOf(j) /\ Cardinality(TxsOf(j))' = Cardinality(TxsOf(j))
      OBVIOUS
    <3> TAKE j \in Ids
    <3>1. \/ row'[j].status = row[j].status
          \/ row[j].status \in {"rewarded", "approved"} /\ row'[j].status = "doing"
      BY <1>1, <2>3, WorkerRows
    <3>2. TxsOf(j)' = TxsOf(j)
      BY <2>1 DEF TxsOf
    <3> QED
      BY <2>1, <3>1, <3>2, StageKept DEF Queued
  <2> QED
    BY <2>2, <2>3
<1> QED
  BY <1>4, <1>5

(* The other steps: a transfer arrives, or all stages stay. *)
LEMMA OtherRefines ==
  ASSUME SingleInstance, NoGap, OnceInv,
         \/ \E w \in Workers : RunPayoutQueue(w) /\ UNCHANGED withdrawVars
         \/ \E w \in Workers, o \in {"process", "confirm"}, id \in Ids :
              AdminCall(w, o, id) /\ UNCHANGED withdrawVars
         \/ \E w \in Workers : AsyncPayout(w)
         \/ \E t \in TxIds : (Mine(t) \/ Drop(t)) /\ UNCHANGED withdrawVars
         \/ \E i \in Instances : Crash(i)
         \/ UNCHANGED vars
  PROVE  [Abstract!Next]_<<[j \in Ids |-> StageOf(j)], [j \in Ids |-> Cardinality(TxsOf(j))]>>
<1>1. TypeInv /\ PaidInv /\ OneInv /\ AtMostOneTransfer
  BY OnceIsOnce DEF OnceInv, OneInv, PaidInv
<1>2. UNCHANGED row
  BY <1>1, OtherSteps
<1>3. ASSUME NEW j \in Ids, \A t \in TxIds : tx'[t].wid = tx[t].wid,
             \A t \in TxsOf(j) : tx'[t].state = "ok" <=> tx[t].state = "ok"
      PROVE  StageOf(j)' = StageOf(j) /\ Cardinality(TxsOf(j))' = Cardinality(TxsOf(j))
  <2>1. TxsOf(j)' = TxsOf(j)
    BY <1>3 DEF TxsOf
  <2> QED
    BY <1>2, <1>3, <2>1, StageKept DEF Queued
<1>4. CASE UNCHANGED tx
  BY <1>3, <1>4
<1>5. CASE \E t \in TxIds : Mine(t) \/ Drop(t)
  <2> PICK t \in TxIds, s \in {"ok", "reverted", "dropped"} : Fate(t, s)
    BY <1>5 DEF Mine, Drop
  <2>1. /\ tx[t].state = "pending" /\ tx'[t].state = s /\ tx'[t].wid = tx[t].wid
        /\ \A u \in TxIds \ {t} : tx'[u] = tx[u]
    BY <1>1 DEF Fate, TypeInv, TypeOK, PayoutOK
  <2>2. \A u \in TxIds : tx'[u].wid = tx[u].wid
    BY <2>1
  <2>3. ASSUME NEW j \in Ids, t \notin TxsOf(j) \/ s # "ok"
        PROVE  StageOf(j)' = StageOf(j) /\ Cardinality(TxsOf(j))' = Cardinality(TxsOf(j))
    <3>1. \A u \in TxsOf(j) : tx'[u].state = "ok" <=> tx[u].state = "ok"
      BY <2>1, <2>3 DEF TxsOf
    <3> QED
      BY <1>3, <2>2, <3>1
  <2>4. CASE s = "ok" /\ tx[t].wid \in Ids
    <3> PICK id \in Ids : id = tx[t].wid
      BY <2>4
    <3>1. TxsOf(id) = {t}
      BY <1>1, <2>4 DEF AtMostOneTransfer, TxsOf, Ids
    <3>2. TxsOf(id)' = TxsOf(id)
      BY <2>2 DEF TxsOf
    <3>3. row[id].status # "pass"
      BY <2>1, <2>4, <3>1, <1>1 DEF PaidInv, PassMeansPaid, TxsOf
    <3>4. StageOf(id) = "sent" /\ StageOf(id)' = "arrived"
      BY <1>2, <2>1, <2>4, <3>1, <3>2, <3>3 DEF StageOf
    <3>5. \A j \in Ids \ {id} : t \notin TxsOf(j)
      BY DEF TxsOf
    <3>6. \A j \in Ids \ {id} :
            StageOf(j)' = StageOf(j) /\ Cardinality(TxsOf(j))' = Cardinality(TxsOf(j))
      BY <2>3, <3>5
    <3>7. Cardinality(TxsOf(id))' = Cardinality(TxsOf(id))
      BY <3>2
    <3> QED
      BY <3>4, <3>6, <3>7, OneMoves
  <2>5. CASE s # "ok" \/ tx[t].wid \notin Ids
    <3>1. \A j \in Ids : t \notin TxsOf(j) \/ s # "ok"
      BY <2>5 DEF TxsOf
    <3> QED
      BY <2>3, <3>1
  <2> QED
    BY <2>4, <2>5
<1> QED
  BY <1>4, <1>5
     DEF RunPayoutQueue, AdminCall, Call, AsyncPayout, Crash, WorkersCrash, vars, payoutVars

(* In one process where nothing separates a send from the record of its hash,      *)
(* whatever else fails: each withdraw goes through owed, sent, arrived and settled *)
(* as PayoutOnce promises, transferred at most once and settled only after that.   *)
THEOREM PayoutIsOnce ==
  ASSUME SingleInstance, NoGap
  PROVE  Spec => ImplementsPayoutOnce
<1>1. OnceInv /\ [Next]_vars =>
        [Abstract!Next]_<<[id \in Ids |-> StageOf(id)], [id \in Ids |-> Cardinality(TxsOf(id))]>>
  BY RequestRefines, WorkerRefines, OtherRefines DEF Next
<1>2. Init => Abstract!Init
  BY InitRefines
<1> QED
  BY <1>1, <1>2, OnceHolds, PTL DEF Spec, ImplementsPayoutOnce, Abstract!Spec
=============================================================================
