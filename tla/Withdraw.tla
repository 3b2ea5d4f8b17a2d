------------------------------ MODULE Withdraw ------------------------------
(***************************************************************************)
(* Submitting an extract (RecordUseCase.CreateWithdraw) and refunding the  *)
(* legacy pending rows (CancelAllPendingWithdraws).  Each runs in a        *)
(* request goroutine that talks to the database statement by statement,    *)
(* with no transaction around the statements.                              *)
(***************************************************************************)
EXTENDS WithdrawTable

CONSTANTS
  Requests,    \* request goroutines
  Amounts,     \* amounts users ask for
  FeeBp        \* extract fee, in basis points

ASSUME WithdrawAssumption ==
  /\ IsFiniteSet(Requests)
  /\ Amounts \subseteq 1..MaxAmount
  /\ FeeBp \in 0..10000
  /\ \A r \in Requests : Home[r] \in Instances

VARIABLES
  withdrawable,  \* users.withdrawable_balance
  req,           \* the state of each request goroutine
  jobs           \* payout goroutines spawned and not yet running, per instance

withdrawVars == <<withdrawable, req, jobs>>

IdleReq == [pc |-> "idle", user |-> NoUser, amount |-> 0, id |-> 0, todo |-> {}]

ReqState ==
  [pc : {"idle", "debit", "insert", "refund", "turn", "cas", "credit"},
   user : Users \cup {NoUser}, amount : 0..MaxAmount, id : 0..MaxId, todo : SUBSET Ids]

(* fee = amount * rate, rounded half up in the last decimal; credited = amount - fee. *)
Credited(a) == a - ((a * FeeBp + 5000) \div 10000)

(* ensurePayoutReady, with payout configured: the cap is the part that can refuse. *)
PayoutReady(a) == Credited(a) <= MaxUSDT

Step(r, s) == req' = [req EXCEPT ![r] = s]
Done(r)    == Step(r, IdleReq)

-----------------------------------------------------------------------------
(* CreateWithdraw *)

(* The checks that read: the balance, then ensurePayoutReady. *)
Submit(r, u, a) ==
  /\ req[r].pc = "idle"
  /\ withdrawable[u] >= a
  /\ PayoutReady(a)
  /\ Step(r, [IdleReq EXCEPT !.pc = "debit", !.user = u, !.amount = a])
  /\ UNCHANGED <<row, withdrawable, jobs>>

(* Mutation: the balance read in Submit is trusted, as a read-then-write would. *)
CoversStale(r) == TRUE

(* SubWithdrawableBalance: UPDATE ... WHERE withdrawable_balance >= amount. *)
Covers(r) == withdrawable[req[r].user] >= req[r].amount

Debit(r) ==
  /\ req[r].pc = "debit"
  /\ \/ /\ Covers(r)
        /\ withdrawable' = [withdrawable EXCEPT ![req[r].user] = @ - req[r].amount]
        /\ Step(r, [req[r] EXCEPT !.pc = "insert"])
     \/ /\ ~Covers(r)
        /\ Done(r)
        /\ UNCHANGED withdrawable
  /\ UNCHANGED <<row, jobs>>

(* The update failed, with or without effect: CreateWithdraw returns either way. *)
DebitFails(r) ==
  /\ req[r].pc = "debit"
  /\ \/ "sql" \in Faults /\ UNCHANGED withdrawable
     \/ /\ "answer" \in Faults
        /\ Covers(r)
        /\ withdrawable' = [withdrawable EXCEPT ![req[r].user] = @ - req[r].amount]
  /\ Done(r)
  /\ UNCHANGED <<row, jobs>>

InsertRow(r, id) ==
  /\ NextId(id)
  /\ row' = Inserted(id, req[r].user, req[r].amount, Credited(req[r].amount))

Insert(r) ==
  /\ req[r].pc = "insert"
  /\ \E id \in Ids :
       /\ InsertRow(r, id)
       /\ Step(r, [req[r] EXCEPT !.pc = "turn", !.id = id])
  /\ UNCHANGED <<withdrawable, jobs>>

(* withdrawRepo.Create failed: the INSERT had no effect, or it had and its answer *)
(* or the FindByID that re-reads the new row was lost.                            *)
InsertFails(r) ==
  /\ req[r].pc = "insert"
  /\ \/ "sql" \in Faults /\ UNCHANGED row
     \/ "insert" \in Faults /\ \E id \in Ids : InsertRow(r, id)
  /\ Step(r, [req[r] EXCEPT !.pc = "refund"])
  /\ UNCHANGED <<withdrawable, jobs>>

(* AddWithdrawableBalance after a failed Create; its own error is ignored. *)
Refund(r) ==
  /\ req[r].pc = "refund"
  /\ \/ withdrawable' = [withdrawable EXCEPT ![req[r].user] = @ + req[r].amount]
     \/ "sql" \in Faults /\ UNCHANGED withdrawable
  /\ Done(r)
  /\ UNCHANGED <<row, jobs>>

(* The rate turn of the user's active orders succeeded: the payout goroutine starts. *)
Turn(r) ==
  /\ req[r].pc = "turn"
  /\ jobs' = [jobs EXCEPT ![Home[r]] = @ \cup {req[r].id}]
  /\ Done(r)
  /\ UNCHANGED <<row, withdrawable>>

(* An order could not be read or updated: the request fails, the row stays rewarded. *)
TurnFails(r) ==
  /\ "sql" \in Faults
  /\ req[r].pc = "turn"
  /\ Done(r)
  /\ UNCHANGED <<row, withdrawable, jobs>>

-----------------------------------------------------------------------------
(* CancelAllPendingWithdraws, at every start and behind the admin endpoint *)

CancelList(r) ==
  /\ req[r].pc = "idle"
  /\ ListPending # {}
  /\ Step(r, [IdleReq EXCEPT !.pc = "cas", !.todo = ListPending])
  /\ UNCHANGED <<row, withdrawable, jobs>>

(* The rows come back newest first. *)
Newest(r, id) == id \in req[r].todo /\ \A j \in req[r].todo : j <= id

(* On to the next row of the list, or done. *)
NextCancel(r, rest) ==
  IF rest = {} THEN Done(r) ELSE Step(r, [IdleReq EXCEPT !.pc = "cas", !.todo = rest])

CancelCas(r) ==
  /\ req[r].pc = "cas"
  /\ \E id \in Ids :
       /\ Newest(r, id)
       /\ row' = Cancelled(id)
       /\ \/ Cancellable(id) /\ Step(r, [req[r] EXCEPT !.pc = "credit", !.id = id])
          \/ ~Cancellable(id) /\ NextCancel(r, req[r].todo \ {id})
  /\ UNCHANGED <<withdrawable, jobs>>

(* Mutation: the fee is kept from a refund. *)
RefundNet(w) == w.credited

RefundOf(w) == w.amount

CancelCredit(r) ==
  /\ req[r].pc = "credit"
  /\ LET w == row[req[r].id] IN
       withdrawable' = [withdrawable EXCEPT ![w.owner] = @ + RefundOf(w)]
  /\ \/ NextCancel(r, req[r].todo \ {req[r].id})
     \/ "answer" \in Faults /\ Done(r)
  /\ UNCHANGED <<row, jobs>>

(* A statement of the walk failed: the walk stops, and a row it has cancelled is  *)
(* not refunded.                                                                  *)
CancelFails(r) ==
  /\ req[r].pc \in {"cas", "credit"}
  /\ \/ "sql" \in Faults /\ UNCHANGED row
     \/ /\ "answer" \in Faults
        /\ req[r].pc = "cas"
        /\ \E id \in Ids : Newest(r, id) /\ row' = Cancelled(id)
  /\ Done(r)
  /\ UNCHANGED <<withdrawable, jobs>>

-----------------------------------------------------------------------------
RequestStep(r) ==
  \/ \E u \in Users, a \in Amounts : Submit(r, u, a)
  \/ Debit(r) \/ DebitFails(r) \/ Insert(r) \/ InsertFails(r) \/ Refund(r) \/ Turn(r) \/ TurnFails(r)
  \/ CancelList(r) \/ CancelCas(r) \/ CancelCredit(r) \/ CancelFails(r)

(* A crash ends the goroutines of an instance wherever they stand. *)
RequestsCrash(i) ==
  /\ req' = [r \in Requests |-> IF Home[r] = i THEN IdleReq ELSE req[r]]
  /\ jobs' = [jobs EXCEPT ![i] = {}]
  /\ UNCHANGED <<row, withdrawable>>

WithdrawOK ==
  /\ withdrawable \in [Users -> Nat]
  /\ req \in [Requests -> ReqState]
  /\ jobs \in [Instances -> SUBSET Ids]
=============================================================================
