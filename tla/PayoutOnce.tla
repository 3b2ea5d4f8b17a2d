----------------------------- MODULE PayoutOnce -----------------------------
(***************************************************************************)
(* What paying withdraws promises (ADR 0010 item 4), free of goroutines,   *)
(* claims and hashes: a withdraw that is owed is transferred at most once, *)
(* and is settled only after its one transfer has arrived.                 *)
(***************************************************************************)
EXTENDS Naturals

CONSTANT Ids

VARIABLES
  stage,      \* of each withdraw: none, owed, sent, arrived, settled
  transfers   \* how often each withdraw was transferred

Init ==
  /\ stage \in [Ids -> {"none", "owed"}]
  /\ transfers = [id \in Ids |-> 0]

Moves(id, from, to) == stage[id] = from /\ stage' = [stage EXCEPT ![id] = to]

Owe(id)    == Moves(id, "none", "owed") /\ UNCHANGED transfers
Send(id)   == /\ Moves(id, "owed", "sent")
              /\ transfers' = [transfers EXCEPT ![id] = @ + 1]
Arrive(id) == Moves(id, "sent", "arrived") /\ UNCHANGED transfers
Settle(id) == Moves(id, "arrived", "settled") /\ UNCHANGED transfers

Next == \E id \in Ids : Owe(id) \/ Send(id) \/ Arrive(id) \/ Settle(id)

Spec == Init /\ [][Next]_<<stage, transfers>>
=============================================================================
