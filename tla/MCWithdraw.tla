----------------------------- MODULE MCWithdraw -----------------------------
(* Small instances of WithdrawSystem: one user, one process.               *)
EXTENDS WithdrawSystem, Sequences, TLC

\* every goroutine in one process
OneProcess == [g \in Workers \cup Requests |-> CHOOSE i \in Instances : TRUE]

\* a balance of 3: one extract of 2 fits, two do not
SmallFunds == [u \in Users |-> 3]

\* a pending row of the old review flow, refunded at start
PendingRow == <<[status |-> "pending", owner |-> CHOOSE u \in Users : TRUE,
                 amount |-> 2, credited |-> 1, hash |-> NoTx]>>

\* a row approved before the migration, payable as it is
ApprovedRow == <<[status |-> "approved", owner |-> CHOOSE u \in Users : TRUE,
                  amount |-> 1, credited |-> 1, hash |-> NoTx]>>

\* both: a pending row and an approved one above the cap, which nothing may pay
MixedRows == PendingRow \o <<[status |-> "approved", owner |-> CHOOSE u \in Users : TRUE,
                             amount |-> 3, credited |-> 2, hash |-> NoTx]>>

\* requests differ in nothing but their name
RequestSymmetry == Permutations(Requests)
=============================================================================
