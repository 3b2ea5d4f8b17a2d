---------------------------- MODULE MoneyProofs ----------------------------
(***************************************************************************)
(* What is proved about the money of extracts, for any number of users,    *)
(* requests, rows and transfers: no failure lets a unit appear twice,      *)
(* nothing is lost where nothing fails, and what one process transfers     *)
(* stays within what was debited.                                          *)
(***************************************************************************)
EXTENDS WithdrawProofs, SumTheorems

LiveSum(u) == SumFunctionOnSet([id \in Ids |-> Live(id, u)], Ids)
HeldSum(u) == SumFunctionOnSet([r \in Requests |-> Held(r, u)], Requests)

(* Who is about to give a row's amount back has cancelled the row. *)
CreditCancelled == \A r \in Requests : req[r].pc = "credit" => row[req[r].id].status = "cancelled"

(* A row that was not inserted yet is nobody's. *)
BlankRows == \A id \in Ids : row[id].status = "none" => row[id].owner = NoUser

FundsInv == TypeInv /\ CreditCancelled /\ BlankRows

LEMMA IdsFinite == IsFiniteSet(Ids) /\ IsFiniteSet(TxIds)
BY FS_Interval, TableAssumption DEF Ids, TxIds

-----------------------------------------------------------------------------
(* The two sums *)

LEMMA LiveNat ==
  ASSUME TypeInv, NEW u \in Users, NEW id \in Ids
  PROVE  Live(id, u) \in Nat
BY TableAssumption DEF TypeInv, TypeOK, TableOK, Row, Live

LEMMA HeldNat ==
  ASSUME TypeInv, NEW u \in Users, NEW r \in Requests
  PROVE  Held(r, u) \in Nat
<1>1. req[r] \in ReqState /\ row \in [Ids -> Row]
  BY DEF TypeInv, TypeOK, TableOK, WithdrawOK
<1>2. req[r].pc = "credit" => row[req[r].id].amount \in Nat
  BY <1>1, TableAssumption DEF TypeInv, RequestsHoldId, Row
<1>3. req[r].amount \in Nat
  BY <1>1, TableAssumption DEF ReqState
<1> QED
  BY <1>2, <1>3 DEF Held

LEMMA SumsNat ==
  ASSUME TypeInv, NEW u \in Users
  PROVE  LiveSum(u) \in Nat /\ HeldSum(u) \in Nat /\ withdrawable[u] \in Nat
<1>1. \A id \in Ids : Live(id, u) \in Nat
  BY LiveNat
<1>2. \A r \in Requests : Held(r, u) \in Nat
  BY HeldNat
<1>3. LiveSum(u) \in Nat
  <2> DEFINE f == [id \in Ids |-> Live(id, u)]
  <2>1. \A id \in Ids : f[id] \in Nat
    BY <1>1
  <2> HIDE DEF f
  <2>2. SumFunctionOnSet(f, Ids) \in Nat
    BY <2>1, IdsFinite, SumNat
  <2>3. QED
    BY <2>2 DEF f, LiveSum
<1>4. HeldSum(u) \in Nat
  <2> DEFINE f == [r \in Requests |-> Held(r, u)]
  <2>1. \A r \in Requests : f[r] \in Nat
    BY <1>2
  <2> HIDE DEF f
  <2>2. SumFunctionOnSet(f, Requests) \in Nat
    BY <2>1, WithdrawAssumption, SumNat
  <2>3. QED
    BY <2>2 DEF f, HeldSum
<1>5. withdrawable[u] \in Nat
  BY DEF TypeInv, TypeOK, WithdrawOK
<1> QED
  BY <1>3, <1>4, <1>5

LEMMA LiveKept ==
  ASSUME TypeInv, NEW u \in Users, \A id \in Ids : Live(id, u)' = Live(id, u)
  PROVE  LiveSum(u)' = LiveSum(u)
<1> DEFINE f == [id \in Ids |-> Live(id, u)]
           g == [id \in Ids |-> Live(id, u)']
<1>1. \A id \in Ids : f[id] \in Int /\ g[id] = f[id]
  BY LiveNat
<1>2. SumFunctionOnSet(g, Ids) = SumFunctionOnSet(f, Ids)
  <2> HIDE DEF f, g
  <2>1. QED
    BY <1>1, IdsFinite, SumExt
<1> QED
  BY <1>2 DEF LiveSum

LEMMA LiveChange ==
  ASSUME TypeInv, TypeInv', NEW u \in Users, NEW id \in Ids,
         \A j \in Ids : j # id => Live(j, u)' = Live(j, u)
  PROVE  LiveSum(u)' = LiveSum(u) - Live(id, u) + Live(id, u)'
<1> DEFINE f == [j \in Ids |-> Live(j, u)]
           g == [j \in Ids |-> Live(j, u)']
<1>1. f[id] \in Int /\ \A j \in Ids : j # id => f[j] \in Int /\ g[j] = f[j]
  BY LiveNat
<1>2. Live(id, u)' \in Nat
  BY TableAssumption DEF TypeInv, TypeOK, TableOK, Row, Live
<1>3. g[id] \in Int
  BY <1>2
<1>4. SumFunctionOnSet(g, Ids) = SumFunctionOnSet(f, Ids) - f[id] + g[id]
  <2> HIDE DEF f, g
  <2>1. QED
    BY <1>1, <1>3, IdsFinite, SumChange
<1> QED
  BY <1>4 DEF LiveSum

LEMMA HeldKept ==
  ASSUME TypeInv, NEW u \in Users, \A r \in Requests : Held(r, u)' = Held(r, u)
  PROVE  HeldSum(u)' = HeldSum(u)
<1> DEFINE f == [r \in Requests |-> Held(r, u)]
           g == [r \in Requests |-> Held(r, u)']
<1>1. \A r \in Requests : f[r] \in Int /\ g[r] = f[r]
  BY HeldNat
<1>2. SumFunctionOnSet(g, Requests) = SumFunctionOnSet(f, Requests)
  <2> HIDE DEF f, g
  <2>1. QED
    BY <1>1, WithdrawAssumption, SumExt
<1> QED
  BY <1>2 DEF HeldSum

(* The prime of HeldNat. *)
LEMMA HeldNatNext ==
  ASSUME TypeInv', NEW u \in Users, NEW r \in Requests
  PROVE  Held(r, u)' \in Nat
<1>1. req'[r] \in ReqState /\ row' \in [Ids -> Row]
  BY DEF TypeInv, TypeOK, TableOK, WithdrawOK
<1>2. req'[r].pc = "credit" => row'[req'[r].id].amount \in Nat
  BY <1>1, TableAssumption DEF TypeInv, RequestsHoldId, Row
<1>3. req'[r].amount \in Nat
  BY <1>1, TableAssumption DEF ReqState
<1> QED
  BY <1>2, <1>3 DEF Held

(* The prime of SumsNat. *)
LEMMA SumsNatNext ==
  ASSUME TypeInv', NEW u \in Users
  PROVE  LiveSum(u)' \in Nat /\ HeldSum(u)' \in Nat /\ withdrawable'[u] \in Nat
<1> DEFINE f == [id \in Ids |-> Live(id, u)']
           g == [r \in Requests |-> Held(r, u)']
<1>1. \A id \in Ids : f[id] \in Nat
  BY TableAssumption DEF TypeInv, TypeOK, TableOK, Row, Live
<1>2. \A r \in Requests : g[r] \in Nat
  BY HeldNatNext
<1>3. SumFunctionOnSet(f, Ids) \in Nat
  <2> HIDE DEF f
  <2>1. QED
    BY <1>1, IdsFinite, SumNat
<1>4. SumFunctionOnSet(g, Requests) \in Nat
  <2> HIDE DEF g
  <2>1. QED
    BY <1>2, WithdrawAssumption, SumNat
<1>5. withdrawable'[u] \in Nat
  BY DEF TypeInv, TypeOK, WithdrawOK
<1> QED
  BY <1>3, <1>4, <1>5 DEF LiveSum, HeldSum

LEMMA HeldChange ==
  ASSUME TypeInv, TypeInv', NEW u \in Users, NEW r \in Requests,
         \A q \in Requests : q # r => Held(q, u)' = Held(q, u)
  PROVE  HeldSum(u)' = HeldSum(u) - Held(r, u) + Held(r, u)'
<1> DEFINE f == [q \in Requests |-> Held(q, u)]
           g == [q \in Requests |-> Held(q, u)']
<1>1. f[r] \in Int /\ \A q \in Requests : q # r => f[q] \in Int /\ g[q] = f[q]
  BY HeldNat
<1>2. Held(r, u)' \in Nat
  BY HeldNatNext
<1>3. g[r] \in Int
  BY <1>2
<1>4. SumFunctionOnSet(g, Requests) = SumFunctionOnSet(f, Requests) - f[r] + g[r]
  <2> HIDE DEF f, g
  <2>1. QED
    BY <1>1, <1>3, WithdrawAssumption, SumChange
<1> QED
  BY <1>4 DEF HeldSum

(* Requests that end take what they held with them. *)
LEMMA HeldFalls ==
  ASSUME TypeInv, TypeInv', NEW u \in Users, \A r \in Requests : Held(r, u)' <= Held(r, u)
  PROVE  HeldSum(u)' <= HeldSum(u)
<1> DEFINE f == [r \in Requests |-> Held(r, u)]
           g == [r \in Requests |-> Held(r, u)']
<1>1. \A r \in Requests : Held(r, u)' \in Nat
  BY HeldNatNext
<1>2. \A r \in Requests : g[r] \in Int /\ f[r] \in Int /\ g[r] <= f[r]
  BY <1>1, HeldNat
<1>3. SumFunctionOnSet(g, Requests) <= SumFunctionOnSet(f, Requests)
  <2> HIDE DEF f, g
  <2>1. QED
    BY <1>2, WithdrawAssumption, SumMonotonic
<1> QED
  BY <1>3 DEF HeldSum

-----------------------------------------------------------------------------
(* What steps leave alone *)

(* A worker never changes whose a row is, what it is worth, or whether it is cancelled. *)
LEMMA WorkerKeeps ==
  ASSUME TypeInv, NEW w \in Workers, WorkerStep(w), NEW id \in Ids
  PROVE  /\ row'[id].owner = row[id].owner /\ row'[id].amount = row[id].amount
         /\ row'[id].credited = row[id].credited
         /\ row'[id].status = "cancelled" <=> row[id].status = "cancelled"
         /\ row'[id].status = "none" <=> row[id].status = "none"
<1>1. row \in [Ids -> Row] /\ row[id] \in Row
  BY DEF TypeInv, TypeOK, TableOK
<1>2. CASE row' = Claimed(cur[w])
  BY <1>1, <1>2 DEF Claimed, Claimable, Row
<1>3. CASE pc[w] = "save" /\ row' = HashSet(cur[w], sent[w])
  BY <1>1, <1>3 DEF HashSet, Row
<1>4. CASE row' = Passed(cur[w])
  BY <1>1, <1>4 DEF Passed, Passable, Row
<1>5. CASE UNCHANGED row
  BY <1>5
<1> QED
  BY <1>2, <1>3, <1>4, <1>5
     DEF WorkerStep, TakeNext, Lock, Resume, GoClaim, GoSend, Refuse, Claim, Send, SendUnheard,
         SendFails, SaveHash, Receipt, GiveUp, Mark, DbFails

(* A request inserts one row, in its user's name, or cancels one pending row. *)
LEMMA RequestKeeps ==
  ASSUME TypeInv, NEW r \in Requests, RequestStep(r), NEW id \in Ids
  PROVE  \/ row'[id] = row[id]
         \/ row[id].status = "none" /\ row'[id].status = "rewarded"
         \/ /\ row[id].status = "pending" /\ row'[id].status = "cancelled"
            /\ row'[id].owner = row[id].owner /\ row'[id].amount = row[id].amount
            /\ row'[id].credited = row[id].credited
<1>1. row \in [Ids -> Row] /\ row[id] \in Row
  BY DEF TypeInv, TypeOK, TableOK
<1>2. ASSUME NEW j \in Ids, InsertRow(r, j)
      PROVE  row'[id] = row[id] \/ (row[id].status = "none" /\ row'[id].status = "rewarded")
  BY <1>1, <1>2 DEF InsertRow, Inserted, NextId, Exists
<1>3. ASSUME NEW j \in Ids, row' = Cancelled(j)
      PROVE  \/ row'[id] = row[id]
             \/ /\ row[id].status = "pending" /\ row'[id].status = "cancelled"
                /\ row'[id].owner = row[id].owner /\ row'[id].amount = row[id].amount
                /\ row'[id].credited = row[id].credited
  BY <1>1, <1>3 DEF Cancelled, Cancellable, Row
<1>4. CASE Insert(r) \/ InsertFails(r)
  BY <1>2, <1>4 DEF Insert, InsertFails
<1>5. CASE CancelCas(r) \/ CancelFails(r)
  BY <1>3, <1>5 DEF CancelCas, CancelFails
<1>6. CASE UNCHANGED row
  BY <1>6
<1> QED
  BY <1>4, <1>5, <1>6
     DEF RequestStep, Submit, Debit, DebitFails, Refund, Turn, TurnFails, CancelList, CancelCredit

(* A request moves no other request. *)
LEMMA RequestAlone ==
  ASSUME TypeInv, NEW r \in Requests, RequestStep(r), NEW q \in Requests, q # r
  PROVE  req'[q] = req[q]
<1>1. req \in [Requests -> ReqState]
  BY DEF TypeInv, TypeOK, WithdrawOK
<1>2. \A s : Step(r, s) => req'[q] = req[q]
  BY <1>1 DEF Step
<1>3. Done(r) => req'[q] = req[q]
  BY <1>2 DEF Done
<1>4. \A s : NextCancel(r, s) => req'[q] = req[q]
  BY <1>2, <1>3 DEF NextCancel
<1>5. \E s : Step(r, s) \/ NextCancel(r, s) \/ Done(r)
  <2>1. CASE \E u \in Users, a \in Amounts : Submit(r, u, a)
    BY <2>1 DEF Submit
  <2>2. CASE Debit(r) \/ DebitFails(r) \/ Insert(r) \/ InsertFails(r) \/ Refund(r)
    BY <2>2 DEF Debit, DebitFails, Insert, InsertFails, Refund
  <2>3. CASE Turn(r) \/ TurnFails(r) \/ CancelList(r) \/ CancelFails(r)
    BY <2>3 DEF Turn, TurnFails, CancelList, CancelFails
  <2>4. CASE CancelCas(r) \/ CancelCredit(r)
    BY <2>4 DEF CancelCas, CancelCredit
  <2> QED
    BY <2>1, <2>2, <2>3, <2>4 DEF RequestStep
<1> QED
  BY <1>2, <1>3, <1>4, <1>5

(* Only a request that has just cancelled a row is about to give its amount back. *)
LEMMA CreditFollowsCancel ==
  ASSUME TypeInv, NEW r \in Requests, RequestStep(r), req'[r].pc = "credit"
  PROVE  req'[r].id \in Ids /\ row'[req'[r].id].status = "cancelled"
<1>1. req \in [Requests -> ReqState] /\ req[r] \in ReqState /\ row \in [Ids -> Row]
  BY DEF TypeInv, TypeOK, TableOK, WithdrawOK
<1>2. ASSUME NEW s, Step(r, s) PROVE req'[r] = s
  BY <1>1, <1>2 DEF Step
<1>3. ~Done(r) /\ \A s : ~NextCancel(r, s)
  <2>1. ~Done(r)
    BY <1>2 DEF Done, IdleReq
  <2>2. ASSUME NEW s, NextCancel(r, s) PROVE FALSE
    <3>1. Step(r, [IdleReq EXCEPT !.pc = "cas", !.todo = s])
      BY <2>1, <2>2 DEF NextCancel
    <3> QED
      BY <1>2, <3>1 DEF IdleReq
  <2> QED
    BY <2>1, <2>2
<1>4. ASSUME NEW p \in {"insert", "refund"}, Step(r, [req[r] EXCEPT !.pc = p]) PROVE FALSE
  BY <1>1, <1>2, <1>4 DEF ReqState
<1>5. ASSUME NEW u \in Users, NEW a \in Amounts, Submit(r, u, a) PROVE FALSE
  BY <1>2, <1>5 DEF Submit, IdleReq
<1>6. ASSUME NEW id \in Ids, Step(r, [req[r] EXCEPT !.pc = "turn", !.id = id]) PROVE FALSE
  BY <1>1, <1>2, <1>6 DEF ReqState
<1>7. ~CancelList(r)
  BY <1>2 DEF CancelList, IdleReq
<1>8. CancelCas(r)
  BY <1>3, <1>4, <1>5, <1>6, <1>7
     DEF RequestStep, Debit, DebitFails, Insert, InsertFails, Refund, Turn, TurnFails, CancelCredit,
         CancelFails
<1>9. PICK id \in Ids : /\ row' = Cancelled(id)
                        /\ Cancellable(id) /\ Step(r, [req[r] EXCEPT !.pc = "credit", !.id = id])
  BY <1>3, <1>8 DEF CancelCas
<1>10. req'[r].id = id
  BY <1>1, <1>2, <1>9 DEF ReqState
<1> QED
  BY <1>1, <1>9, <1>10 DEF Cancelled, Row

-----------------------------------------------------------------------------
(* The invariant *)

LEMMA InitFunds == Init => FundsInv
<1> SUFFICES ASSUME Init PROVE FundsInv
  OBVIOUS
<1>1. \A id \in Ids : row[id].status = "none" => row[id].owner = NoUser
  BY SystemAssumption DEF Init, LegacyRow, NoRow
<1>2. \A r \in Requests : req[r].pc = "idle"
  BY DEF Init, IdleReq
<1> QED
  BY <1>1, <1>2, InitTypes DEF FundsInv, CreditCancelled, BlankRows

(* Steps of workers, of the chain and of nobody leave the requests as they are. *)
LEMMA OtherKeeps ==
  ASSUME TypeInv, [Next]_vars, ~\E r \in Requests : RequestStep(r) /\ UNCHANGED payoutVars
  PROVE  /\ UNCHANGED withdrawable
         /\ \A r \in Requests : req'[r] \in {req[r], IdleReq}
         /\ "crash" \notin Faults => UNCHANGED req
         /\ \A id \in Ids :
              /\ row'[id].owner = row[id].owner /\ row'[id].amount = row[id].amount
              /\ row'[id].credited = row[id].credited
              /\ row'[id].status = "cancelled" <=> row[id].status = "cancelled"
              /\ row'[id].status = "none" <=> row[id].status = "none"
<1>1. req \in [Requests -> ReqState] /\ row \in [Ids -> Row]
  BY DEF TypeInv, TypeOK, TableOK, WithdrawOK
<1>2. CASE \E w \in Workers : WorkerStep(w) /\ UNCHANGED withdrawVars
  BY <1>1, <1>2, WorkerKeeps DEF withdrawVars
<1>3. CASE \E i \in Instances : Crash(i)
  BY <1>1, <1>3 DEF Crash, RequestsCrash
<1>4. CASE UNCHANGED row /\ UNCHANGED <<withdrawable, req>>
  BY <1>1, <1>4
<1>5. CASE \E w \in Workers : RunPayoutQueue(w) /\ UNCHANGED withdrawVars
  BY <1>4, <1>5 DEF RunPayoutQueue, withdrawVars
<1>6. CASE \E w \in Workers, o \in {"process", "confirm"}, id \in Ids :
              AdminCall(w, o, id) /\ UNCHANGED withdrawVars
  BY <1>4, <1>6 DEF AdminCall, withdrawVars
<1>7. CASE \E w \in Workers : AsyncPayout(w)
  BY <1>4, <1>7 DEF AsyncPayout
<1>8. CASE \E t \in TxIds : (Mine(t) \/ Drop(t)) /\ UNCHANGED withdrawVars
  BY <1>4, <1>8 DEF Mine, Drop, Fate, withdrawVars
<1>9. CASE UNCHANGED vars
  BY <1>4, <1>9 DEF vars, withdrawVars
<1> QED
  BY <1>2, <1>3, <1>5, <1>6, <1>7, <1>8, <1>9 DEF Next

LEMMA NextFunds == FundsInv /\ [Next]_vars => FundsInv'
<1> SUFFICES ASSUME FundsInv, [Next]_vars PROVE FundsInv'
  OBVIOUS
<1>1. TypeInv /\ TypeInv'
  BY NextTypes DEF FundsInv
<1>2. ASSUME NEW r \in Requests, RequestStep(r)
      PROVE  CreditCancelled' /\ BlankRows'
  <2>1. ASSUME NEW q \in Requests, req'[q].pc = "credit"
        PROVE  row'[req'[q].id].status = "cancelled"
    <3>1. CASE q = r
      BY <1>1, <1>2, <2>1, <3>1, CreditFollowsCancel
    <3>2. CASE q # r
      <4>1. req'[q] = req[q]
        BY <1>1, <1>2, <3>2, RequestAlone
      <4>2. req[q].id \in Ids /\ row[req[q].id].status = "cancelled"
        BY <1>1, <2>1, <4>1 DEF FundsInv, CreditCancelled, TypeInv, RequestsHoldId
      <4> QED
        BY <1>1, <1>2, <4>1, <4>2, RequestKeeps
    <3> QED
      BY <3>1, <3>2
  <2>2. \A id \in Ids : row'[id].status = "none" => row'[id].owner = NoUser
    BY <1>1, <1>2, RequestKeeps DEF FundsInv, BlankRows
  <2> QED
    BY <2>1, <2>2 DEF CreditCancelled, BlankRows
<1>3. CASE ~\E r \in Requests : RequestStep(r) /\ UNCHANGED payoutVars
  <2>1. \A r \in Requests : req'[r].pc = "credit" => req'[r] = req[r]
    BY <1>1, <1>3, OtherKeeps DEF IdleReq
  <2>2. \A id \in Ids : /\ row'[id].owner = row[id].owner
                        /\ row'[id].status = "cancelled" <=> row[id].status = "cancelled"
                        /\ row'[id].status = "none" <=> row[id].status = "none"
    BY <1>1, <1>3, OtherKeeps
  <2>3. \A r \in Requests : req'[r].pc = "credit" => req'[r].id \in Ids
    BY <1>1 DEF TypeInv, RequestsHoldId
  <2> QED
    BY <1>1, <2>1, <2>2, <2>3 DEF FundsInv, CreditCancelled, BlankRows
<1> QED
  BY <1>1, <1>2, <1>3 DEF FundsInv

LEMMA FundsHold == Spec => []FundsInv
<1> QED
  BY InitFunds, NextFunds, PTL DEF Spec

-----------------------------------------------------------------------------
(* What a step does to what a user is owed *)

Quiet == {"crash", "sql", "answer", "insert"} \cap Faults = {}

LEMMA HeldIf ==
  ASSUME NEW r \in Requests, NEW u \in Users
  PROVE  Held(r, u) = IF req[r].pc \in {"insert", "refund"} /\ req[r].user = u THEN req[r].amount
                      ELSE IF req[r].pc = "credit" /\ row[req[r].id].owner = u THEN row[req[r].id].amount
                      ELSE 0
BY Zenon DEF Held

(* The prime of HeldIf. *)
LEMMA HeldIfNext ==
  ASSUME NEW r \in Requests, NEW u \in Users
  PROVE  Held(r, u)' = IF req'[r].pc \in {"insert", "refund"} /\ req'[r].user = u THEN req'[r].amount
                       ELSE IF req'[r].pc = "credit" /\ row'[req'[r].id].owner = u THEN row'[req'[r].id].amount
                       ELSE 0
BY Zenon DEF Held

(* A request leaves what the others hold alone: nobody writes a cancelled row. *)
LEMMA OthersHold ==
  ASSUME FundsInv, NEW r \in Requests, RequestStep(r), NEW u \in Users, NEW q \in Requests, q # r
  PROVE  Held(q, u)' = Held(q, u)
<1>1. TypeInv
  BY DEF FundsInv
<1>2. req'[q] = req[q]
  BY <1>1, RequestAlone
<1>3. req[q].pc = "credit" => row'[req[q].id] = row[req[q].id]
  <2> SUFFICES ASSUME req[q].pc = "credit" PROVE row'[req[q].id] = row[req[q].id]
    OBVIOUS
  <2>1. req[q].id \in Ids /\ row[req[q].id].status = "cancelled"
    BY DEF FundsInv, CreditCancelled, TypeInv, RequestsHoldId
  <2> QED
    BY <1>1, <2>1, RequestKeeps
<1> QED
  BY <1>2, <1>3, HeldIf, HeldIfNext

(* A request that leaves the table alone moves an amount between the balance and  *)
(* its own hands, or loses it to a failure.                                       *)
LEMMA StillBalance ==
  ASSUME FundsInv, FundsInv', NEW r \in Requests, RequestStep(r), NEW u \in Users, UNCHANGED row,
         ~Insert(r), ~CancelCas(r)
  PROVE  /\ withdrawable'[u] + Held(r, u)' <= withdrawable[u] + Held(r, u)
         /\ Quiet => withdrawable'[u] + Held(r, u)' = withdrawable[u] + Held(r, u)
<1> DEFINE Goal == /\ withdrawable'[u] + Held(r, u)' <= withdrawable[u] + Held(r, u)
                   /\ Quiet => withdrawable'[u] + Held(r, u)' = withdrawable[u] + Held(r, u)
<1>1. TypeInv /\ TypeInv'
  BY DEF FundsInv
<1>2. /\ req \in [Requests -> ReqState] /\ req[r] \in ReqState
      /\ withdrawable \in [Users -> Nat] /\ withdrawable' \in [Users -> Nat]
      /\ req[r].amount \in Nat /\ row \in [Ids -> Row]
  BY <1>1, TableAssumption DEF TypeInv, TypeOK, TableOK, WithdrawOK, ReqState
<1>3. Held(r, u) \in Nat /\ Held(r, u)' \in Nat
  BY <1>1, HeldNat, HeldNatNext
<1>4. ASSUME NEW s, Step(r, s) PROVE req'[r] = s
  BY <1>2, <1>4 DEF Step
<1>5. ASSUME Done(r) PROVE Held(r, u)' = 0
  BY <1>4, <1>5, HeldIfNext DEF Done, IdleReq
<1>6. ASSUME NEW s, NextCancel(r, s) PROVE Held(r, u)' = 0
  <2>1. CASE s = {}
    BY <1>5, <1>6, <2>1 DEF NextCancel
  <2>2. CASE s # {}
    BY <1>4, <1>6, <2>2, HeldIfNext DEF NextCancel, IdleReq
  <2> QED
    BY <2>1, <2>2
<1>7. req[r].pc \in {"idle", "debit", "turn", "cas"} => Held(r, u) = 0
  BY HeldIf
<1>8. ASSUME NEW v \in Users, NEW a \in Amounts, Submit(r, v, a) PROVE Goal
  <2>1. Held(r, u)' = 0
    BY <1>4, <1>8, HeldIfNext DEF Submit, IdleReq
  <2> QED
    BY <1>2, <1>7, <1>8, <2>1 DEF Submit
<1>9. CASE Debit(r)
  <2>1. CASE /\ withdrawable' = [withdrawable EXCEPT ![req[r].user] = @ - req[r].amount]
             /\ Step(r, [req[r] EXCEPT !.pc = "insert"])
    <3>1. req'[r].pc = "insert" /\ req'[r].user = req[r].user /\ req'[r].amount = req[r].amount
      BY <1>2, <1>4, <2>1 DEF ReqState
    <3>2. Held(r, u) = 0 /\ req[r].pc = "debit"
      BY <1>7, <1>9 DEF Debit
    <3>3. CASE req[r].user = u
      BY <1>2, <2>1, <3>1, <3>2, <3>3, HeldIfNext
    <3>4. CASE req[r].user # u
      BY <1>2, <2>1, <3>1, <3>2, <3>4, HeldIfNext
    <3> QED
      BY <3>3, <3>4
  <2>2. CASE Done(r) /\ UNCHANGED withdrawable
    BY <1>2, <1>5, <1>7, <1>9, <2>2 DEF Debit
  <2> QED
    BY <1>9, <2>1, <2>2 DEF Debit
<1>10. CASE DebitFails(r)
  <2>1. Held(r, u)' = 0 /\ Held(r, u) = 0
    BY <1>5, <1>7, <1>10 DEF DebitFails
  <2>2. withdrawable'[u] <= withdrawable[u] /\ ~Quiet
    BY <1>2, <1>10 DEF DebitFails, Quiet
  <2> QED
    BY <1>2, <2>1, <2>2
<1>11. CASE InsertFails(r)
  <2>1. req'[r].pc = "refund" /\ req'[r].user = req[r].user /\ req'[r].amount = req[r].amount
    BY <1>2, <1>4, <1>11 DEF ReqState, InsertFails
  <2> QED
    BY <1>2, <1>11, <2>1, HeldIf, HeldIfNext DEF InsertFails
<1>12. CASE Refund(r)
  <2>1. Held(r, u)' = 0
    BY <1>5, <1>12 DEF Refund
  <2>2. CASE withdrawable' = [withdrawable EXCEPT ![req[r].user] = @ + req[r].amount]
    <3>1. CASE req[r].user = u
      BY <1>2, <1>12, <2>1, <2>2, <3>1, HeldIf DEF Refund
    <3>2. CASE req[r].user # u
      BY <1>2, <1>12, <2>1, <2>2, <3>2, HeldIf DEF Refund
    <3> QED
      BY <3>1, <3>2
  <2>3. CASE "sql" \in Faults /\ UNCHANGED withdrawable
    <3>1. ~Quiet
      BY <2>3 DEF Quiet
    <3> QED
      BY <1>2, <1>3, <2>1, <2>3, <3>1
  <2> QED
    BY <1>12, <2>2, <2>3 DEF Refund
<1>13. CASE Turn(r) \/ TurnFails(r)
  BY <1>2, <1>5, <1>7, <1>13 DEF Turn, TurnFails
<1>14. CASE CancelList(r)
  <2>1. Held(r, u)' = 0
    BY <1>4, <1>14, HeldIfNext DEF CancelList, IdleReq
  <2> QED
    BY <1>2, <1>7, <1>14, <2>1 DEF CancelList
<1>15. CASE CancelCredit(r)
  <2>1. Held(r, u)' = 0
    BY <1>5, <1>6, <1>15 DEF CancelCredit
  <2> DEFINE w == row[req[r].id]
  <2>2. withdrawable' = [withdrawable EXCEPT ![w.owner] = @ + w.amount] /\ req[r].pc = "credit"
    BY <1>15 DEF CancelCredit, RefundOf
  <2>3. w.amount \in Nat
    BY <1>1, <1>2, <2>2, TableAssumption DEF TypeInv, RequestsHoldId, Row
  <2>4. Held(r, u) = IF w.owner = u THEN w.amount ELSE 0
    BY <2>2, HeldIf
  <2> HIDE DEF w
  <2>5. CASE w.owner = u
    BY <1>2, <2>1, <2>2, <2>3, <2>4, <2>5
  <2>6. CASE w.owner # u
    BY <1>2, <2>1, <2>2, <2>4, <2>6
  <2> QED
    BY <2>5, <2>6
<1>16. CASE CancelFails(r)
  <2>1. Held(r, u)' = 0 /\ UNCHANGED withdrawable /\ ~Quiet
    BY <1>5, <1>16 DEF CancelFails, Quiet
  <2> QED
    BY <1>2, <1>3, <2>1
<1> QED
  BY <1>8, <1>9, <1>10, <1>11, <1>12, <1>13, <1>14, <1>15, <1>16 DEF RequestStep

(* A request that writes a row moves the row's amount between its own hands and   *)
(* the row, or loses it to a failure.                                             *)
LEMMA MovedBalance ==
  ASSUME FundsInv, FundsInv', NEW r \in Requests, RequestStep(r), "insert" \notin Faults, NEW u \in Users,
         Insert(r) \/ CancelCas(r) \/ ~UNCHANGED row
  PROVE  /\ UNCHANGED withdrawable
         /\ \E id \in Ids :
              /\ \A j \in Ids : j # id => row'[j] = row[j]
              /\ Live(id, u)' + Held(r, u)' <= Live(id, u) + Held(r, u)
              /\ Quiet => Live(id, u)' + Held(r, u)' = Live(id, u) + Held(r, u)
<1> DEFINE Local(id) == /\ \A j \in Ids : j # id => row'[j] = row[j]
                        /\ Live(id, u)' + Held(r, u)' <= Live(id, u) + Held(r, u)
                        /\ Quiet => Live(id, u)' + Held(r, u)' = Live(id, u) + Held(r, u)
<1>1. TypeInv /\ TypeInv'
  BY DEF FundsInv
<1>2. /\ req \in [Requests -> ReqState] /\ req[r] \in ReqState
      /\ req[r].amount \in 0..MaxAmount /\ req[r].amount \in Nat /\ row \in [Ids -> Row] /\ row' \in [Ids -> Row]
  BY <1>1, TableAssumption DEF TypeInv, TypeOK, TableOK, WithdrawOK, ReqState
<1>3. Held(r, u) \in Nat /\ Held(r, u)' \in Nat
  BY <1>1, HeldNat, HeldNatNext
<1>4. ASSUME NEW s, Step(r, s) PROVE req'[r] = s
  BY <1>2, <1>4 DEF Step
<1>5. ASSUME Done(r) PROVE Held(r, u)' = 0
  BY <1>4, <1>5, HeldIfNext DEF Done, IdleReq
<1>6. ASSUME NEW s, NextCancel(r, s) PROVE Held(r, u)' = 0
  <2>1. CASE s = {}
    BY <1>5, <1>6, <2>1 DEF NextCancel
  <2>2. CASE s # {}
    BY <1>4, <1>6, <2>2, HeldIfNext DEF NextCancel, IdleReq
  <2> QED
    BY <2>1, <2>2
<1>7. CASE Insert(r)
  <2>1. PICK id \in Ids : /\ InsertRow(r, id)
                          /\ Step(r, [req[r] EXCEPT !.pc = "turn", !.id = id])
    BY <1>7 DEF Insert
  <2>2. req'[r].pc = "turn"
    BY <1>2, <1>4, <2>1 DEF ReqState
  <2>3. Held(r, u)' = 0
    BY <2>2, HeldIfNext
  <2>4. /\ row[id].status = "none" /\ row'[id].owner = req[r].user
        /\ row'[id].amount = req[r].amount /\ row'[id].status = "rewarded"
        /\ \A j \in Ids : j # id => row'[j] = row[j]
    BY <1>2, <2>1 DEF InsertRow, NextId, Exists, Inserted
  <2>5. row[id].owner # u
    BY <2>4, TableAssumption DEF FundsInv, BlankRows
  <2>6. Live(id, u) = 0 /\ Live(id, u)' = IF req[r].user = u THEN req[r].amount ELSE 0
    BY <2>4, <2>5 DEF Live
  <2>7. Held(r, u) = IF req[r].user = u THEN req[r].amount ELSE 0
    BY <1>7, HeldIf DEF Insert
  <2>8. Live(id, u)' + Held(r, u)' = Live(id, u) + Held(r, u)
    BY <1>2, <2>3, <2>6, <2>7
  <2>9. Live(id, u)' + Held(r, u)' \in Int
    BY <1>2, <2>3, <2>6
  <2>10. Local(id)
    BY <2>4, <2>8, <2>9
  <2> QED
    BY <1>7, <2>10 DEF Insert
<1>8. ASSUME NEW id \in Ids, row' = Cancelled(id), req[r].pc = "cas",
             \/ Cancellable(id) /\ Step(r, [req[r] EXCEPT !.pc = "credit", !.id = id])
             \/ ~Cancellable(id) /\ NextCancel(r, req[r].todo \ {id})
             \/ Done(r) /\ ~Quiet
      PROVE  Local(id)
  <2>1. Held(r, u) = 0
    BY <1>8, HeldIf
  <2>2. \A j \in Ids : j # id => row'[j] = row[j]
    BY <1>2, <1>8 DEF Cancelled
  <2>3. Live(id, u) \in Nat /\ Live(id, u)' \in Nat
    <3>1. Live(id, u) \in Nat
      BY <1>1, LiveNat
    <3>2. Live(id, u)' \in Nat
      BY <1>2, TableAssumption DEF Row, Live
    <3> QED
      BY <3>1, <3>2
  <2>4. CASE ~Cancellable(id)
    <3>1. row' = row
      BY <1>8, <2>4 DEF Cancelled
    <3>2. Live(id, u)' = Live(id, u)
      BY <3>1 DEF Live
    <3>3. Held(r, u)' = 0
      BY <1>5, <1>6, <1>8, <2>4
    <3> QED
      BY <2>1, <2>2, <2>3, <3>2, <3>3
  <2>5. CASE Cancellable(id)
    <3>1. /\ row'[id].status = "cancelled" /\ row'[id].owner = row[id].owner
          /\ row'[id].amount = row[id].amount /\ row[id].status = "pending"
      BY <1>2, <1>8, <2>5 DEF Cancelled, Cancellable, Row
    <3>2. Live(id, u)' = 0 /\ Live(id, u) = IF row[id].owner = u THEN row[id].amount ELSE 0
      BY <3>1 DEF Live
    <3>3. CASE Step(r, [req[r] EXCEPT !.pc = "credit", !.id = id])
      <4>1. req'[r].pc = "credit" /\ req'[r].id = id
        BY <1>2, <1>4, <3>3 DEF ReqState
      <4>2. Held(r, u)' = IF row[id].owner = u THEN row[id].amount ELSE 0
        BY <3>1, <4>1, HeldIfNext
      <4>3. Live(id, u)' + Held(r, u)' = Live(id, u) + Held(r, u)
        BY <1>3, <2>1, <2>3, <3>2, <4>2
      <4> QED
        BY <1>3, <2>2, <2>3, <4>3
    <3>4. CASE Done(r) /\ ~Quiet
      BY <1>5, <2>1, <2>2, <2>3, <3>2, <3>4
    <3> QED
      BY <1>8, <2>5, <3>3, <3>4
  <2> QED
    BY <2>4, <2>5
<1>9. CASE CancelCas(r)
  <2>1. PICK id \in Ids : /\ row' = Cancelled(id)
                          /\ \/ Cancellable(id) /\ Step(r, [req[r] EXCEPT !.pc = "credit", !.id = id])
                             \/ ~Cancellable(id) /\ NextCancel(r, req[r].todo \ {id})
    BY <1>9 DEF CancelCas
  <2>2. Local(id)
    BY <1>8, <1>9, <2>1 DEF CancelCas
  <2> QED
    BY <1>9, <2>2 DEF CancelCas
<1>10. CASE CancelFails(r) /\ ~UNCHANGED row
  <2>1. PICK id \in Ids : row' = Cancelled(id) /\ "answer" \in Faults /\ req[r].pc = "cas"
    BY <1>10 DEF CancelFails
  <2>2. Local(id)
    BY <1>8, <1>10, <2>1 DEF CancelFails, Quiet
  <2> QED
    BY <1>10, <2>2 DEF CancelFails
<1> QED
  BY <1>7, <1>9, <1>10
     DEF RequestStep, Submit, Debit, DebitFails, InsertFails, Refund, Turn, TurnFails, CancelList, CancelCredit

LEMMA RequestAccounts ==
  ASSUME FundsInv, FundsInv', NEW r \in Requests, RequestStep(r), "insert" \notin Faults, NEW u \in Users
  PROVE  /\ Accounted(u)' <= Accounted(u)
         /\ Quiet => Accounted(u)' = Accounted(u)
<1>1. TypeInv /\ TypeInv'
  BY DEF FundsInv
<1>2. Accounted(u) = withdrawable[u] + LiveSum(u) + HeldSum(u)
  BY DEF Accounted, LiveSum, HeldSum
<1>3. Accounted(u)' = withdrawable'[u] + LiveSum(u)' + HeldSum(u)'
  BY DEF Accounted, LiveSum, HeldSum
<1>4. /\ LiveSum(u) \in Nat /\ HeldSum(u) \in Nat /\ withdrawable[u] \in Nat /\ withdrawable'[u] \in Nat
      /\ Held(r, u) \in Nat /\ Held(r, u)' \in Nat
  BY <1>1, SumsNat, HeldNat, HeldNatNext DEF TypeInv, TypeOK, WithdrawOK
<1>5. HeldSum(u)' = HeldSum(u) - Held(r, u) + Held(r, u)'
  BY <1>1, OthersHold, HeldChange
<1>6. CASE UNCHANGED row /\ ~Insert(r) /\ ~CancelCas(r)
  <2>1. LiveSum(u)' = LiveSum(u)
    <3>1. \A id \in Ids : Live(id, u)' = Live(id, u)
      BY <1>6 DEF Live
    <3> QED
      BY <1>1, <3>1, LiveKept
  <2>2. /\ withdrawable'[u] + Held(r, u)' <= withdrawable[u] + Held(r, u)
        /\ Quiet => withdrawable'[u] + Held(r, u)' = withdrawable[u] + Held(r, u)
    BY <1>6, StillBalance
  <2>3. withdrawable'[u] + LiveSum(u)' + HeldSum(u)' <= withdrawable[u] + LiveSum(u) + HeldSum(u)
    BY <1>4, <1>5, <2>1, <2>2
  <2>4. Quiet => withdrawable'[u] + LiveSum(u)' + HeldSum(u)' = withdrawable[u] + LiveSum(u) + HeldSum(u)
    BY <1>4, <1>5, <2>1, <2>2
  <2> QED
    BY <1>2, <1>3, <2>3, <2>4
<1>7. CASE Insert(r) \/ CancelCas(r) \/ ~UNCHANGED row
  <2>1. /\ UNCHANGED withdrawable
        /\ \E id \in Ids :
             /\ \A j \in Ids : j # id => row'[j] = row[j]
             /\ Live(id, u)' + Held(r, u)' <= Live(id, u) + Held(r, u)
             /\ Quiet => Live(id, u)' + Held(r, u)' = Live(id, u) + Held(r, u)
    BY <1>7, MovedBalance
  <2>2. PICK id \in Ids : /\ \A j \in Ids : j # id => row'[j] = row[j]
                          /\ Live(id, u)' + Held(r, u)' <= Live(id, u) + Held(r, u)
                          /\ Quiet => Live(id, u)' + Held(r, u)' = Live(id, u) + Held(r, u)
    BY <2>1
  <2>3. Live(id, u) \in Nat /\ Live(id, u)' \in Nat
    <3>1. Live(id, u) \in Nat
      BY <1>1, LiveNat
    <3>2. Live(id, u)' \in Nat
      BY <1>1, TableAssumption DEF TypeInv, TypeOK, TableOK, Row, Live
    <3> QED
      BY <3>1, <3>2
  <2>4. \A j \in Ids : j # id => Live(j, u)' = Live(j, u)
    BY <2>2 DEF Live
  <2>5. LiveSum(u)' = LiveSum(u) - Live(id, u) + Live(id, u)'
    BY <1>1, <2>4, LiveChange
  <2> QED
    BY <1>2, <1>3, <1>4, <1>5, <2>1, <2>2, <2>3, <2>5
<1> QED
  BY <1>6, <1>7

LEMMA OtherAccounts ==
  ASSUME FundsInv, FundsInv', [Next]_vars, ~\E r \in Requests : RequestStep(r) /\ UNCHANGED payoutVars,
         NEW u \in Users
  PROVE  /\ Accounted(u)' <= Accounted(u)
         /\ Quiet => Accounted(u)' = Accounted(u)
<1>1. TypeInv /\ TypeInv'
  BY DEF FundsInv
<1>2. Accounted(u) = withdrawable[u] + LiveSum(u) + HeldSum(u)
  BY DEF Accounted, LiveSum, HeldSum
<1>3. Accounted(u)' = withdrawable'[u] + LiveSum(u)' + HeldSum(u)'
  BY DEF Accounted, LiveSum, HeldSum
<1>4. /\ LiveSum(u) \in Nat /\ HeldSum(u) \in Nat /\ withdrawable[u] \in Nat /\ HeldSum(u)' \in Nat
  BY <1>1, SumsNat, SumsNatNext
<1>5. /\ UNCHANGED withdrawable
      /\ \A r \in Requests : req'[r] \in {req[r], IdleReq}
      /\ "crash" \notin Faults => UNCHANGED req
  BY <1>1, OtherKeeps
<1>6. \A id \in Ids : /\ row'[id].owner = row[id].owner /\ row'[id].amount = row[id].amount
                      /\ row'[id].status = "cancelled" <=> row[id].status = "cancelled"
  BY <1>1, OtherKeeps
<1>7. LiveSum(u)' = LiveSum(u)
  <2>1. \A id \in Ids : Live(id, u)' = Live(id, u)
    BY <1>6 DEF Live
  <2> QED
    BY <1>1, <2>1, LiveKept
<1>8. ASSUME NEW r \in Requests, req'[r] = req[r] PROVE Held(r, u)' = Held(r, u)
  <2>1. req[r].pc = "credit" => req[r].id \in Ids
    BY <1>1 DEF TypeInv, RequestsHoldId
  <2> QED
    BY <1>6, <1>8, <2>1, HeldIf, HeldIfNext
<1>9. ASSUME NEW r \in Requests PROVE Held(r, u)' <= Held(r, u)
  <2>1. Held(r, u) \in Nat
    BY <1>1, HeldNat
  <2>2. CASE req'[r] = req[r]
    BY <1>8, <2>1, <2>2
  <2>3. CASE req'[r] = IdleReq
    <3>1. Held(r, u)' = 0
      BY <2>3, HeldIfNext DEF IdleReq
    <3> QED
      BY <2>1, <3>1
  <2> QED
    BY <1>5, <2>2, <2>3
<1>10. HeldSum(u)' <= HeldSum(u)
  BY <1>1, <1>9, HeldFalls
<1>11. Quiet => HeldSum(u)' = HeldSum(u)
  <2>1. Quiet => \A r \in Requests : req'[r] = req[r]
    BY <1>5 DEF Quiet
  <2> QED
    BY <1>1, <1>8, <2>1, HeldKept
<1> QED
  BY <1>2, <1>3, <1>4, <1>5, <1>7, <1>10, <1>11

(* What a user can extract at the start is what he is entitled to. *)
LEMMA InitAccounts ==
  ASSUME Init, NEW u \in Users
  PROVE  Accounted(u) = Entitled(u)
<1> DEFINE e == [id \in DOMAIN Legacy |-> Opening(id, u)]
           m == [id \in Ids |-> IF id \in DOMAIN Legacy THEN e[id] ELSE 0]
           f == [id \in Ids |-> Live(id, u)]
           h == [r \in Requests |-> Held(r, u)]
<1>1. \A id \in DOMAIN Legacy : e[id] \in Int
  BY SystemAssumption DEF Opening, LegacyRow
<1>2. \A id \in Ids : f[id] = m[id] /\ m[id] \in Int
  <2> SUFFICES ASSUME NEW id \in Ids PROVE f[id] = m[id] /\ m[id] \in Int
    OBVIOUS
  <2>1. CASE id \in DOMAIN Legacy
    <3>1. row[id] = Legacy[id] /\ Legacy[id].status # "cancelled"
      BY <2>1, SystemAssumption DEF Init, LegacyRow
    <3> QED
      BY <1>1, <2>1, <3>1 DEF Live, Opening
  <2>2. CASE id \notin DOMAIN Legacy
    <3>1. row[id].owner # u
      BY <2>2, TableAssumption DEF Init, NoRow
    <3> QED
      BY <2>2, <3>1 DEF Live
  <2> QED
    BY <2>1, <2>2
<1>3. SumFunctionOnSet(f, Ids) = SumFunctionOnSet(e, DOMAIN Legacy)
  <2>1. SumFunctionOnSet(f, Ids) = SumFunctionOnSet(m, Ids)
    <3> HIDE DEF f, m
    <3>1. QED
      BY <1>2, IdsFinite, SumExt
  <2>2. SumFunctionOnSet(e, DOMAIN Legacy) = SumFunctionOnSet(m, Ids)
    <3>1. DOMAIN Legacy \in SUBSET Ids
      BY SystemAssumption
    <3> HIDE DEF e
    <3>2. QED
      BY <1>1, <3>1, IdsFinite, SumPart
  <2> QED
    BY <2>1, <2>2
<1>4. SumFunctionOnSet(h, Requests) = 0
  <2>1. \A r \in Requests : h[r] = 0
    BY HeldIf DEF Init, IdleReq
  <2> HIDE DEF h
  <2>2. QED
    BY <2>1, WithdrawAssumption, SumZero
<1>5. SumFunctionOnSet(e, DOMAIN Legacy) \in Int
  <2>1. IsFiniteSet(DOMAIN Legacy)
    BY SystemAssumption, IdsFinite, FS_Subset
  <2> HIDE DEF e
  <2>2. QED
    BY <1>1, <2>1, SumInt
<1>6. Funds[u] \in Nat /\ withdrawable[u] = Funds[u]
  BY SystemAssumption DEF Init
<1>7. Accounted(u) = Funds[u] + SumFunctionOnSet(e, DOMAIN Legacy) + 0
  BY <1>3, <1>4, <1>6 DEF Accounted
<1>8. Entitled(u) = Funds[u] + SumFunctionOnSet(e, DOMAIN Legacy)
  BY DEF Entitled
<1> HIDE DEF e
<1> QED
  BY <1>5, <1>6, <1>7, <1>8

-----------------------------------------------------------------------------
(* The theorems *)

EntitledInt == \A u \in Users : Entitled(u) \in Int /\ Accounted(u) \in Int

LEMMA MoneyInt == FundsInv => EntitledInt
<1> SUFFICES ASSUME FundsInv, NEW u \in Users PROVE Entitled(u) \in Int /\ Accounted(u) \in Int
  BY DEF EntitledInt
<1>1. LiveSum(u) \in Nat /\ HeldSum(u) \in Nat /\ withdrawable[u] \in Nat
  BY SumsNat DEF FundsInv
<1>2. Accounted(u) = withdrawable[u] + LiveSum(u) + HeldSum(u)
  BY DEF Accounted, LiveSum, HeldSum
<1> DEFINE e == [id \in DOMAIN Legacy |-> Opening(id, u)]
<1>3. SumFunctionOnSet(e, DOMAIN Legacy) \in Int
  <2>1. \A id \in DOMAIN Legacy : e[id] \in Int
    BY SystemAssumption DEF Opening, LegacyRow
  <2>2. IsFiniteSet(DOMAIN Legacy)
    BY SystemAssumption, IdsFinite, FS_Subset
  <2> HIDE DEF e
  <2>3. QED
    BY <2>1, <2>2, SumInt
<1>4. Funds[u] \in Nat
  BY SystemAssumption
<1>5. Entitled(u) = Funds[u] + SumFunctionOnSet(e, DOMAIN Legacy)
  BY DEF Entitled
<1> HIDE DEF e
<1> QED
  BY <1>1, <1>2, <1>3, <1>4, <1>5

LEMMA NextAccounts ==
  ASSUME FundsInv, [Next]_vars, "insert" \notin Faults, NEW u \in Users
  PROVE  /\ Accounted(u)' <= Accounted(u)
         /\ Quiet => Accounted(u)' = Accounted(u)
<1>1. FundsInv'
  BY NextFunds
<1>2. CASE \E r \in Requests : RequestStep(r) /\ UNCHANGED payoutVars
  BY <1>1, <1>2, RequestAccounts
<1>3. CASE ~\E r \in Requests : RequestStep(r) /\ UNCHANGED payoutVars
  BY <1>1, <1>3, OtherAccounts
<1> QED
  BY <1>2, <1>3

(* Entitled(u) does not change: it is fixed by the constants. *)
LEMMA EntitledFixed == \A u \in Users : Entitled(u)' = Entitled(u)
BY DEF Entitled, Opening

(* Whatever else fails - crashes, failing statements, updates whose answer is     *)
(* lost - as long as an INSERT tells what it did, concurrent submissions, refunds *)
(* and payouts never let a unit of money appear twice.                            *)
THEOREM NothingFromNothing ==
  ASSUME "insert" \notin Faults
  PROVE  Spec => []NoMoneyFromNothing
<1>1. Init => FundsInv /\ NoMoneyFromNothing
  <2> SUFFICES ASSUME Init PROVE FundsInv /\ NoMoneyFromNothing
    OBVIOUS
  <2>1. FundsInv /\ EntitledInt
    BY InitFunds, MoneyInt
  <2>2. \A u \in Users : withdrawable[u] >= 0
    BY <2>1 DEF FundsInv, TypeInv, TypeOK, WithdrawOK
  <2> QED
    BY <2>1, <2>2, InitAccounts DEF NoMoneyFromNothing, EntitledInt
<1>2. FundsInv /\ NoMoneyFromNothing /\ [Next]_vars => FundsInv' /\ NoMoneyFromNothing'
  <2> SUFFICES ASSUME FundsInv, NoMoneyFromNothing, [Next]_vars PROVE FundsInv' /\ NoMoneyFromNothing'
    OBVIOUS
  <2>1. FundsInv'
    BY NextFunds
  <2>2. \A u \in Users : withdrawable'[u] >= 0
    BY <2>1 DEF FundsInv, TypeInv, TypeOK, WithdrawOK
  <2>3. ASSUME NEW u \in Users PROVE Accounted(u)' <= Entitled(u)'
    <3>1. Accounted(u)' <= Accounted(u) /\ Accounted(u) <= Entitled(u)
      BY NextAccounts DEF NoMoneyFromNothing
    <3>2. Accounted(u) \in Int /\ Entitled(u) \in Int
      BY MoneyInt DEF EntitledInt
    <3>3. Accounted(u)' \in Int
      <4>1. LiveSum(u)' \in Nat /\ HeldSum(u)' \in Nat /\ withdrawable'[u] \in Nat
        BY <2>1, SumsNatNext DEF FundsInv
      <4>2. Accounted(u)' = withdrawable'[u] + LiveSum(u)' + HeldSum(u)'
        BY DEF Accounted, LiveSum, HeldSum
      <4> QED
        BY <4>1, <4>2
    <3> QED
      BY <3>1, <3>2, <3>3, EntitledFixed
  <2> QED
    BY <2>1, <2>2, <2>3 DEF NoMoneyFromNothing
<1> QED
  BY <1>1, <1>2, PTL DEF Spec

(* Where nothing fails, every unit a user could extract is at every moment in his *)
(* balance, in a live row of his, or in the hands of one request.                 *)
THEOREM NothingLost ==
  ASSUME Quiet
  PROVE  Spec => []FundsConserved
<1>1. "insert" \notin Faults
  BY DEF Quiet
<1>2. Init => FundsInv /\ FundsConserved
  <2> SUFFICES ASSUME Init PROVE FundsInv /\ FundsConserved
    OBVIOUS
  <2>1. FundsInv
    BY InitFunds
  <2>2. \A u \in Users : withdrawable[u] >= 0
    BY <2>1 DEF FundsInv, TypeInv, TypeOK, WithdrawOK
  <2> QED
    BY <2>1, <2>2, InitAccounts DEF FundsConserved
<1>3. FundsInv /\ FundsConserved /\ [Next]_vars => FundsInv' /\ FundsConserved'
  <2> SUFFICES ASSUME FundsInv, FundsConserved, [Next]_vars PROVE FundsInv' /\ FundsConserved'
    OBVIOUS
  <2>1. FundsInv'
    BY NextFunds
  <2>2. \A u \in Users : withdrawable'[u] >= 0
    BY <2>1 DEF FundsInv, TypeInv, TypeOK, WithdrawOK
  <2>3. \A u \in Users : Accounted(u)' = Accounted(u) /\ Entitled(u)' = Entitled(u)
    BY <1>1, NextAccounts, EntitledFixed
  <2> QED
    BY <2>1, <2>2, <2>3 DEF FundsConserved
<1> QED
  BY <1>2, <1>3, PTL DEF Spec

-----------------------------------------------------------------------------
(* Transfers stay within what was debited: in one process every transfer has a    *)
(* claimed row of its own, and takes no more from it than its amount.             *)

(* An earlier version of the program kept credited = amount - fee as well. *)
LegacyNet == \A id \in DOMAIN Legacy : Legacy[id].credited <= Legacy[id].amount

CreditedWithin == \A id \in Ids : row[id].credited <= row[id].amount
SentHasRow     == \A t \in TxIds : ~Fresh(t) => tx[t].wid \in Ids

PaidOutInv == OnceInv /\ FundsInv /\ CreditedWithin /\ SentHasRow /\ NoMoneyFromNothing

LEMMA NextCredited ==
  ASSUME TypeInv, CreditedWithin, [Next]_vars
  PROVE  CreditedWithin'
<1> SUFFICES ASSUME NEW id \in Ids PROVE row'[id].credited <= row'[id].amount
  BY DEF CreditedWithin
<1>1. row[id].credited <= row[id].amount /\ row \in [Ids -> Row]
  BY DEF CreditedWithin, TypeInv, TypeOK, TableOK
<1>2. CASE \E r \in Requests : RequestStep(r) /\ UNCHANGED payoutVars
  <2> PICK r \in Requests : RequestStep(r)
    BY <1>2
  <2>1. CASE \E j \in Ids : InsertRow(r, j)
    <3> PICK j \in Ids : InsertRow(r, j)
      BY <2>1
    <3>1. req[r].amount \in Nat
      BY TableAssumption DEF TypeInv, TypeOK, WithdrawOK, ReqState
    <3>2. Credited(req[r].amount) <= req[r].amount
      BY <3>1, CreditedBound
    <3> QED
      BY <1>1, <3>2 DEF InsertRow, Inserted
  <2>2. CASE ~\E j \in Ids : InsertRow(r, j)
    <3>1. row'[id] = row[id] \/ (row[id].status = "pending" /\ row'[id].status = "cancelled")
      BY <2>2, RequestRowsButInsert
    <3> QED
      BY <1>1, <3>1, RequestKeeps
  <2> QED
    BY <2>1, <2>2
<1>3. CASE ~\E r \in Requests : RequestStep(r) /\ UNCHANGED payoutVars
  BY <1>1, <1>3, OtherKeeps
<1> QED
  BY <1>2, <1>3

LEMMA NextSent ==
  ASSUME PaidInv, SentHasRow, Next \/ UNCHANGED vars
  PROVE  SentHasRow'
<1> SUFFICES ASSUME NEW t \in TxIds, ~Fresh(t)' PROVE tx'[t].wid \in Ids
  BY DEF SentHasRow
<1>1. TypeInv /\ (~Fresh(t) => tx[t].wid \in Ids)
  BY DEF PaidInv, SentHasRow
<1>2. CASE \E r \in Requests : RequestStep(r) /\ UNCHANGED payoutVars
  BY <1>1, <1>2 DEF payoutVars, Fresh
<1>3. CASE \E w \in Workers : WorkerStep(w) /\ UNCHANGED withdrawVars
  <2> PICK w \in Workers : WorkerStep(w)
    BY <1>3
  <2>1. pc[w] = "send" => cur[w] \in Ids
    BY <1>1 DEF TypeInv, WorkersHoldId, Inside
  <2>2. tx'[t] = tx[t] \/ (pc[w] = "send" /\ tx'[t] = [wid |-> cur[w], state |-> "pending"])
    BY <1>1, WorkerTxs
  <2>3. tx'[t] = tx[t] => tx'[t].wid \in Ids
    BY <1>1 DEF Fresh
  <2>4. tx'[t] = [wid |-> cur[w], state |-> "pending"] => tx'[t].wid = cur[w]
    OBVIOUS
  <2> QED
    BY <2>1, <2>2, <2>3, <2>4
<1> QED
  BY <1>1, <1>2, <1>3, OtherSteps DEF Next, Fresh

(* The rows that transfers of a user were made for: what each is worth to him. *)
Claims(id, u) == IF TxsOf(id) # {} /\ row[id].owner = u THEN row[id].amount ELSE 0

LEMMA TransfersClaim ==
  ASSUME SingleInstance, PaidOutInv, NEW u \in Users
  PROVE  SumFunctionOnSet([t \in TxIds |-> Transferred(t, u)], TxIds)
           <= SumFunctionOnSet([id \in Ids |-> Claims(id, u)], Ids)
<1> DEFINE f == [t \in TxIds |-> Transferred(t, u)]
           S == {t \in TxIds : ~Fresh(t)}
           h == [t \in S |-> tx[t].wid]
           g == [id \in Ids |-> Claims(id, u)]
           m == [t \in TxIds |-> IF t \in S THEN f[t] ELSE 0]
<1>1. TypeInv /\ row \in [Ids -> Row] /\ SentHasRow /\ CreditedWithin /\ AtMostOneTransfer
  BY OnceIsOnce DEF PaidOutInv, FundsInv, TypeInv, TypeOK, TableOK
<1>2. \A t \in S : tx[t].wid \in Ids /\ tx[t].wid # 0
  BY <1>1 DEF SentHasRow, Ids
<1>3. h \in [S -> Ids]
  BY <1>2
<1>4. \A s, t \in S : h[s] = h[t] => s = t
  BY <1>1, <1>2 DEF AtMostOneTransfer
<1>5. \A id \in Ids : row[id].amount \in Nat /\ row[id].credited \in Nat
  BY <1>1, TableAssumption DEF Row
<1>6. \A id \in Ids : g[id] \in Nat
  BY <1>5 DEF Claims
<1>7. \A t \in S : f[t] \in Int /\ f[t] <= g[h[t]]
  <2> SUFFICES ASSUME NEW t \in S PROVE f[t] \in Int /\ f[t] <= g[h[t]]
    OBVIOUS
  <2>1. t \in TxsOf(tx[t].wid) /\ tx[t].wid \in Ids
    BY <1>2 DEF TxsOf
  <2>2. g[h[t]] = IF row[tx[t].wid].owner = u THEN row[tx[t].wid].amount ELSE 0
    BY <2>1 DEF Claims
  <2>3. f[t] = Transferred(t, u)
    OBVIOUS
  <2>4. row[tx[t].wid].credited <= row[tx[t].wid].amount
    BY <1>1, <2>1 DEF CreditedWithin
  <2> HIDE DEF f, g, h, S
  <2> QED
    BY <1>5, <2>1, <2>2, <2>3, <2>4 DEF Transferred
<1>8. \A t \in TxIds : f[t] = m[t] /\ m[t] \in Int
  <2>1. \A t \in TxIds : t \notin S => f[t] = 0
    BY DEF Transferred, Fresh
  <2>2. \A t \in S : f[t] \in Int
    BY <1>7
  <2>3. \A t \in TxIds : m[t] = IF t \in S THEN f[t] ELSE 0
    OBVIOUS
  <2> HIDE DEF f, m, S
  <2> QED
    BY <2>1, <2>2, <2>3
<1>9. IsFiniteSet(S) /\ S \in SUBSET TxIds
  BY IdsFinite, FS_Subset
<1>10. SumFunctionOnSet(f, TxIds) = SumFunctionOnSet(m, TxIds)
  <2> HIDE DEF f, m
  <2>1. QED
    BY <1>8, IdsFinite, SumExt
<1>11. SumFunctionOnSet(f, S) = SumFunctionOnSet(m, TxIds)
  <2>1. \A t \in S : f[t] \in Int
    BY <1>7
  <2> HIDE DEF f, S
  <2>2. QED
    BY <1>9, <2>1, IdsFinite, SumPart
<1>12. SumFunctionOnSet(f, S) <= SumFunctionOnSet(g, Ids)
  <2> HIDE DEF f, g, h, S
  <2>1. QED
    BY <1>3, <1>4, <1>6, <1>7, <1>9, IdsFinite, SumPaired
<1> HIDE DEF m
<1> QED
  BY <1>10, <1>11, <1>12

LEMMA ClaimsAreLive ==
  ASSUME PaidOutInv, NEW u \in Users, NEW id \in Ids
  PROVE  /\ Claims(id, u) \in Nat /\ Owed(id, u) \in Nat /\ Live(id, u) \in Nat
         /\ Claims(id, u) + Owed(id, u) <= Live(id, u)
<1>1. row[id].amount \in Nat
  BY TableAssumption DEF PaidOutInv, FundsInv, TypeInv, TypeOK, TableOK, Row
<1>2. TxsOf(id) # {} => row[id].status \in {"doing", "pass"}
  BY TransferredIsClaimed DEF PaidOutInv
<1> QED
  BY <1>1, <1>2 DEF Claims, Owed, Live, Queued

LEMMA PaidOutIsWithin ==
  ASSUME SingleInstance, PaidOutInv
  PROVE  PaidWithinDebited
<1> SUFFICES ASSUME NEW u \in Users
             PROVE  withdrawable[u] + SumFunctionOnSet([t \in TxIds |-> Transferred(t, u)], TxIds)
                      + SumFunctionOnSet([id \in Ids |-> Owed(id, u)], Ids) <= Entitled(u)
  BY DEF PaidWithinDebited
<1> DEFINE T == SumFunctionOnSet([t \in TxIds |-> Transferred(t, u)], TxIds)
           c == [id \in Ids |-> Claims(id, u)]
           o == [id \in Ids |-> Owed(id, u)]
           b == [id \in Ids |-> c[id] + o[id]]
           l == [id \in Ids |-> Live(id, u)]
<1>1. \A id \in Ids : /\ c[id] \in Nat /\ o[id] \in Nat /\ l[id] \in Nat /\ b[id] \in Nat
                      /\ b[id] <= l[id]
  BY ClaimsAreLive
<1>2. SumFunctionOnSet(b, Ids) = SumFunctionOnSet(c, Ids) + SumFunctionOnSet(o, Ids)
  <2>1. \A id \in Ids : c[id] \in Int /\ o[id] \in Int
    BY <1>1
  <2> HIDE DEF c, o
  <2>2. QED
    BY <2>1, IdsFinite, SumPlus
<1>3. SumFunctionOnSet(b, Ids) <= SumFunctionOnSet(l, Ids)
  <2>1. \A id \in Ids : b[id] \in Int /\ l[id] \in Int /\ b[id] <= l[id]
    BY <1>1
  <2> HIDE DEF b, l
  <2>2. QED
    BY <2>1, IdsFinite, SumMonotonic
<1>4. SumFunctionOnSet(c, Ids) \in Nat /\ SumFunctionOnSet(o, Ids) \in Nat
  <2> HIDE DEF c, o
  <2>1. QED
    BY <1>1, IdsFinite, SumNat
<1>5. T <= SumFunctionOnSet(c, Ids)
  BY TransfersClaim
<1>6. T \in Nat
  <2> DEFINE f == [t \in TxIds |-> Transferred(t, u)]
  <2>1. \A t \in TxIds : f[t] \in Nat
    <3> SUFFICES ASSUME NEW t \in TxIds PROVE Transferred(t, u) \in Nat
      OBVIOUS
    <3>1. tx[t].state \in {"pending", "ok"} => tx[t].wid \in Ids
      BY DEF PaidOutInv, SentHasRow, Fresh
    <3> QED
      BY <3>1, TableAssumption DEF PaidOutInv, FundsInv, TypeInv, TypeOK, TableOK, Row, Transferred
  <2> HIDE DEF f
  <2>2. SumFunctionOnSet(f, TxIds) \in Nat
    BY <2>1, IdsFinite, SumNat
  <2> QED
    BY <2>2 DEF f
<1>7. /\ LiveSum(u) \in Nat /\ HeldSum(u) \in Nat /\ withdrawable[u] \in Nat
      /\ Entitled(u) \in Int
      /\ withdrawable[u] + LiveSum(u) + HeldSum(u) <= Entitled(u)
  <2>1. FundsInv /\ NoMoneyFromNothing
    BY DEF PaidOutInv
  <2>2. Accounted(u) = withdrawable[u] + LiveSum(u) + HeldSum(u)
    BY DEF Accounted, LiveSum, HeldSum
  <2> QED
    BY <2>1, <2>2, SumsNat, MoneyInt DEF NoMoneyFromNothing, FundsInv, EntitledInt
<1>8. LiveSum(u) = SumFunctionOnSet(l, Ids)
  BY DEF LiveSum
<1>9. withdrawable[u] + T + SumFunctionOnSet(o, Ids) <= Entitled(u)
  <2> HIDE DEF T, c, o, b, l
  <2>1. QED
    BY <1>2, <1>3, <1>4, <1>5, <1>6, <1>7, <1>8
<1> QED
  BY <1>9

(* In one process where nothing separates a send from its record, what the chain  *)
(* has paid a user or may still pay, what is owed to him and what is left in his  *)
(* balance never exceed what he had.                                              *)
THEOREM NeverPaysMoreThanDebited ==
  ASSUME SingleInstance, NoGap, LegacyNet, "insert" \notin Faults
  PROVE  Spec => []PaidWithinDebited
<1>1. Init => CreditedWithin /\ SentHasRow
  <2> SUFFICES ASSUME Init PROVE CreditedWithin /\ SentHasRow
    OBVIOUS
  <2>1. \A t \in TxIds : Fresh(t)
    BY DEF Init, NoTransfer, Fresh
  <2>2. ASSUME NEW id \in Ids PROVE row[id].credited <= row[id].amount
    <3>1. CASE id \in DOMAIN Legacy
      BY <3>1 DEF Init, LegacyNet
    <3>2. CASE id \notin DOMAIN Legacy
      BY <3>2 DEF Init, NoRow
    <3> QED
      BY <3>1, <3>2
  <2> QED
    BY <2>1, <2>2 DEF CreditedWithin, SentHasRow
<1>2. OnceInv /\ FundsInv /\ CreditedWithin /\ SentHasRow /\ [Next]_vars => CreditedWithin' /\ SentHasRow'
  BY NextCredited, NextSent DEF OnceInv, OneInv, FundsInv
<1>3. Spec => []OnceInv
  BY OnceHolds
<1>4. Spec => []NoMoneyFromNothing
  BY NothingFromNothing
<1>5. OnceInv /\ FundsInv /\ CreditedWithin /\ SentHasRow /\ NoMoneyFromNothing => PaidWithinDebited
  BY PaidOutIsWithin DEF PaidOutInv
<1> QED
  BY <1>1, <1>2, <1>3, <1>4, <1>5, FundsHold, PTL DEF Spec
=============================================================================
