----------------------------- MODULE DepositOnce -----------------------------
(***************************************************************************)
(* What crediting deposits promises (ADR 0007 and 0027), free of           *)
(* goroutines, rounds, cursors and batches: only a deposit that has come,  *)
(* is large enough and is of a registered depositor is credited, and it is *)
(* credited once and for all; one that was skipped is taken up again only  *)
(* when it deserves to be credited.                                        *)
(***************************************************************************)
EXTENDS Integers

CONSTANTS Users, MaxLength, Amounts, MinAmount

VARIABLES
  chain,       \* the contract's deposits, those still to come included
  length,      \* how many have come
  registered,  \* users with an account
  stage        \* of each deposit: open, skipped, claimed, credited

onceVars == <<chain, length, registered, stage>>

Deposits == 0..(MaxLength - 1)

Init ==
  /\ chain \in [Deposits -> [by : Users, amount : Amounts]]
  /\ length = 0
  /\ registered \in SUBSET Users
  /\ stage = [i \in Deposits |-> "open"]

Come ==
  /\ length < MaxLength
  /\ length' = length + 1
  /\ UNCHANGED <<chain, registered, stage>>

Join(u) ==
  /\ registered' = registered \cup {u}
  /\ UNCHANGED <<chain, length, stage>>

Deserves(i) == chain[i].amount >= MinAmount /\ chain[i].by \in registered

Moves(i, from, to) ==
  /\ i < length
  /\ stage[i] = from
  /\ stage' = [stage EXCEPT ![i] = to]
  /\ UNCHANGED <<chain, length, registered>>

Skip(i)   == Moves(i, "open", "skipped")
Claim(i)  == Deserves(i) /\ Moves(i, "open", "claimed")
Credit(i) == Moves(i, "claimed", "credited")
Yield(i)  == Moves(i, "claimed", "open")
Reopen(i) == Deserves(i) /\ Moves(i, "skipped", "open")

Next ==
  \/ Come
  \/ \E u \in Users : Join(u)
  \/ \E i \in Deposits : Skip(i) \/ Claim(i) \/ Credit(i) \/ Yield(i) \/ Reopen(i)

Spec == Init /\ [][Next]_onceVars
=============================================================================
