---------------------------- MODULE DepositProofs ----------------------------
(***************************************************************************)
(* Proofs about ChainDeposit: types, that no deposit is credited twice,    *)
(* that crediting implements DepositOnce, and that no deposit is forgotten,*)
(* for every number of deposits and goroutines.                            *)
(***************************************************************************)
EXTENDS ChainDeposit, TLAPS

(* Who can be where, and that whoever works on a number works on one there is. *)
Placed ==
  \A g \in Goroutines :
    /\ pc[g] \in {"length", "fetch", "each"} => g \in Pulls
    /\ pc[g] \in {"found", "delete", "insert"} => g \in Replays
    /\ pc[g] \notin {"idle", "length"} => idx[g] \in Index
    /\ pc[g] \notin {"idle", "length"} /\ g \in Pulls => idx[g] < upto[g]

Base == DepositTypeOK /\ Placed

LEMMA InitBase == Init => Base
  BY DepositAssumption DEF Init, Base, DepositTypeOK, Placed, Goroutines, Steps, Credit, Index

LEMMA StopBase ==
  ASSUME Base, NEW g \in Goroutines, Stop(g),
         UNCHANGED <<chainVars, registered>>,
         record' \in [Index -> {"none", "skipped", "success"}], credited' \in [Index -> Nat]
  PROVE  Base'
<1> USE DepositAssumption DEF Base, chainVars, Index
<1>1. DepositTypeOK'
  BY DEF DepositTypeOK, Stop, Goto, Steps, Credit
<1>2. Placed'
  BY DEF DepositTypeOK, Stop, Goto, Placed
<1> QED BY <1>1, <1>2

LEMMA AdvanceBase ==
  ASSUME Base, NEW g \in Goroutines, Advance(g), pc[g] \notin {"idle", "length"},
         UNCHANGED <<chainVars, registered>>,
         record' \in [Index -> {"none", "skipped", "success"}], credited' \in [Index -> Nat]
  PROVE  Base'
<1>1. CASE Stop(g)
  BY <1>1, StopBase
<1>2. CASE /\ g \in Pulls /\ idx[g] + 1 # upto[g]
           /\ idx' = [idx EXCEPT ![g] = @ + 1]
           /\ Goto(g, IF idx[g] = last[g] THEN "fetch" ELSE "each")
           /\ UNCHANGED roundVars
  <2> USE DepositAssumption DEF Base, chainVars, roundVars, Index
  <2>1. idx[g] \in Index /\ idx[g] < upto[g] /\ upto[g] \in 0..MaxLength
    BY <1>2 DEF Placed, DepositTypeOK
  <2>2. idx[g] + 1 \in Index /\ idx[g] + 1 < upto[g]
    BY <1>2, <2>1
  <2>3. pc' \in [Goroutines -> Steps]
    BY <1>2 DEF DepositTypeOK, Goto, Steps
  <2>4. idx' \in [Goroutines -> 0..MaxLength]
    <3>1. idx[g] + 1 \in 0..MaxLength
      BY <2>2
    <3> QED BY <1>2, <3>1 DEF DepositTypeOK
  <2>5. DepositTypeOK'
    BY <1>2, <2>3, <2>4 DEF DepositTypeOK
  <2>6. Placed'
    BY <1>2, <2>2 DEF DepositTypeOK, Goto, Placed
  <2> QED BY <2>5, <2>6
<1> QED BY <1>1, <1>2 DEF Advance

(* A step that only moves g, and to a place where its number may stand. *)
LEMMA GotoBase ==
  ASSUME Base, NEW g \in Goroutines, NEW label, Goto(g, label),
         UNCHANGED <<chainVars, registered, idx, roundVars>>,
         record' \in [Index -> {"none", "skipped", "success"}], credited' \in [Index -> Nat],
         pc[g] \notin {"idle", "length"},
         label \in Credit \/ (g \in Replays /\ label \in {"delete", "insert"})
  PROVE  Base'
<1> USE DepositAssumption DEF Base, chainVars, roundVars, Index
<1>1. DepositTypeOK'
  BY DEF DepositTypeOK, Goto, Steps, Credit
<1>2. Placed'
  BY DEF DepositTypeOK, Goto, Placed, Credit
<1> QED BY <1>1, <1>2

LEMMA RecordTypes ==
  ASSUME DepositTypeOK, NEW i \in Index, NEW status \in {"skipped", "success"}
  PROVE  /\ Inserted(i, status) \in [Index -> {"none", "skipped", "success"}]
         /\ Deleted(i) \in [Index -> {"none", "skipped", "success"}]
  BY DEF DepositTypeOK, Inserted, Deleted

LEMMA PullBase ==
  ASSUME Base, NEW g \in Goroutines, StartRound(g) \/ Pull(g)
  PROVE  Base'
<1> USE DepositAssumption DEF chainVars, roundVars
<1>t. DepositTypeOK /\ Placed
  BY DEF Base
<1>1. CASE StartRound(g)
  <2>1. PICK c \in Index \cup {-1} : idx' = [idx EXCEPT ![g] = c + 1]
    BY <1>1 DEF StartRound, After
  <2>2. c + 1 \in 0..MaxLength
    BY DEF Index
  <2>3. DepositTypeOK'
    BY <1>1, <1>t, <2>1, <2>2 DEF StartRound, DepositTypeOK, Goto, Steps, Credit
  <2>4. Placed'
    BY <1>1, <1>t, <2>1 DEF StartRound, DepositTypeOK, Goto, Placed
  <2> QED BY <2>3, <2>4 DEF Base
<1>2. CASE ReadLength(g)
  <2>1. CASE Stop(g)
    BY <1>2, <2>1, <1>t, StopBase DEF ReadLength, DepositTypeOK
  <2>2. CASE /\ idx[g] < length
             /\ upto' = [upto EXCEPT ![g] = length]
             /\ Goto(g, "fetch")
             /\ UNCHANGED <<idx, last, known>>
    <3>1. idx[g] \in Index
      BY <2>2, <1>t DEF DepositTypeOK, Index
    <3>2. DepositTypeOK'
      BY <1>2, <2>2, <1>t DEF ReadLength, DepositTypeOK, Goto, Steps, Credit
    <3>3. Placed'
      BY <1>2, <2>2, <3>1, <1>t DEF ReadLength, DepositTypeOK, Goto, Placed
    <3> QED BY <3>2, <3>3 DEF Base
  <2> QED BY <1>2, <2>1, <2>2 DEF ReadLength
<1>3. CASE Fetch(g)
  <2>1. /\ idx[g] \in Index /\ idx[g] < upto[g] /\ upto[g] \in 0..MaxLength
        /\ g \in Pulls
    BY <1>3, <1>t DEF Fetch, Placed, DepositTypeOK
  <2>2. (IF idx[g] + Chunk < upto[g] THEN idx[g] + Chunk - 1 ELSE upto[g] - 1) \in 0..MaxLength
    BY <2>1 DEF Index
  <2>3. known' \in [Goroutines -> SUBSET Users]
    BY <1>3, <1>t DEF Fetch, DepositTypeOK
  <2>4. DepositTypeOK'
    BY <1>3, <1>t, <2>2, <2>3 DEF Fetch, DepositTypeOK, Goto, Steps, Credit
  <2>5. Placed'
    BY <1>3, <1>t, <2>1 DEF Fetch, DepositTypeOK, Goto, Placed
  <2> QED BY <2>4, <2>5 DEF Base
<1>4. CASE EndRound(g)
  BY <1>4, <1>t, StopBase DEF EndRound, DepositTypeOK
<1>5. CASE Skip(g)
  <2>1. idx[g] \in Index
    BY <1>5, <1>t DEF Skip, Placed
  <2>2. record' \in [Index -> {"none", "skipped", "success"}]
    BY <1>5, <1>t, <2>1, RecordTypes DEF Skip
  <2> QED BY <1>5, <1>t, <2>2, AdvanceBase DEF Skip, DepositTypeOK
<1> QED BY <1>1, <1>2, <1>3, <1>4, <1>5 DEF Pull

LEMMA CreditBase ==
  ASSUME Base, NEW g \in Goroutines, Crediting(g)
  PROVE  Base'
<1>t. DepositTypeOK /\ Placed
  BY DEF Base
<1>a. pc[g] \notin {"idle", "length"}
  BY DEF Crediting, Claim, Credits, ClaimFails, AddAccountBalance, AddFails, Undo, Park, ParkFails
<1>b. idx[g] \in Index
  BY <1>t, <1>a DEF Placed
<1>c. credited[idx[g]] + 1 \in Nat
  BY <1>t, <1>b DEF DepositTypeOK
<1>1. CASE Claim(g)
  <2>1. record' \in [Index -> {"none", "skipped", "success"}]
    BY <1>1, <1>t, <1>b, RecordTypes DEF Claim
  <2>2. credited' \in [Index -> Nat]
    BY <1>1, <1>t DEF Claim, DepositTypeOK
  <2>3. CASE Goto(g, "add") /\ UNCHANGED <<idx, roundVars>>
    BY <1>1, <1>a, <2>1, <2>2, <2>3, GotoBase DEF Claim, Credit
  <2>4. CASE Advance(g)
    BY <1>1, <1>a, <2>1, <2>2, <2>4, AdvanceBase DEF Claim
  <2> QED BY <1>1, <2>3, <2>4 DEF Claim
<1>2. CASE ClaimFails(g)
  <2>1. record' \in [Index -> {"none", "skipped", "success"}]
    BY <1>2, <1>t, <1>b, RecordTypes DEF ClaimFails, DepositTypeOK
  <2> QED BY <1>2, <1>t, <1>a, <2>1, GotoBase DEF ClaimFails, Credit, DepositTypeOK
<1>3. CASE AddAccountBalance(g)
  <2>1. credited' \in [Index -> Nat]
    BY <1>3, <1>t, <1>b, <1>c DEF AddAccountBalance, DepositTypeOK
  <2> QED BY <1>3, <1>t, <1>a, <2>1, AdvanceBase DEF AddAccountBalance, DepositTypeOK
<1>4. CASE AddFails(g)
  <2>1. credited' \in [Index -> Nat]
    BY <1>4, <1>t, <1>b, <1>c DEF AddFails, DepositTypeOK
  <2> QED BY <1>4, <1>t, <1>a, <2>1, GotoBase DEF AddFails, Credit, DepositTypeOK
<1>5. CASE Undo(g)
  <2>1. record' \in [Index -> {"none", "skipped", "success"}]
    BY <1>5, <1>t, <1>b, RecordTypes DEF Undo, DepositTypeOK
  <2> QED BY <1>5, <1>t, <1>a, <2>1, GotoBase DEF Undo, Credit, DepositTypeOK
<1>6. CASE Park(g)
  <2>1. record' \in [Index -> {"none", "skipped", "success"}]
    BY <1>6, <1>t, <1>b, RecordTypes DEF Park
  <2> QED BY <1>6, <1>t, <1>a, <2>1, AdvanceBase DEF Park, DepositTypeOK
<1>7. CASE ParkFails(g)
  <2>1. record' \in [Index -> {"none", "skipped", "success"}]
    BY <1>7, <1>t, <1>b, RecordTypes DEF ParkFails, DepositTypeOK
  <2> QED BY <1>7, <1>t, <2>1, StopBase DEF ParkFails, DepositTypeOK
<1> QED BY <1>1, <1>2, <1>3, <1>4, <1>5, <1>6, <1>7 DEF Crediting

LEMMA ReplayBase ==
  ASSUME Base, NEW g \in Goroutines, (\E i \in Index : Replay(g, i)) \/ Replaying(g) \/ Crash(g)
  PROVE  Base'
<1>t. DepositTypeOK /\ Placed
  BY DEF Base
<1>1. ASSUME NEW i \in Index, Replay(g, i)
      PROVE  Base'
  <2> USE DepositAssumption DEF chainVars, roundVars
  <2>1. g \in Replays /\ g \notin Pulls
    BY <1>1 DEF Replay
  <2>2. DepositTypeOK'
    BY <1>1, <1>t DEF Replay, DepositTypeOK, Goto, Steps, Credit, Index
  <2>3. Placed'
    BY <1>1, <1>t, <2>1 DEF Replay, DepositTypeOK, Goto, Placed
  <2> QED BY <2>2, <2>3 DEF Base
<1>2. CASE LookUp(g)
  <2>1. g \in Replays
    BY <1>2, <1>t DEF LookUp, Placed
  <2>2. CASE Goto(g, "delete") /\ UNCHANGED <<idx, roundVars>>
    BY <1>2, <1>t, <2>1, <2>2, GotoBase DEF LookUp, DepositTypeOK
  <2>3. CASE Stop(g)
    BY <1>2, <1>t, <2>3, StopBase DEF LookUp, DepositTypeOK
  <2> QED BY <1>2, <2>2, <2>3 DEF LookUp
<1>3. CASE Delete(g)
  <2>1. g \in Replays /\ idx[g] \in Index
    BY <1>3, <1>t DEF Delete, Placed
  <2>2. record' \in [Index -> {"none", "skipped", "success"}]
    BY <1>3, <1>t, <2>1, RecordTypes DEF Delete
  <2> QED BY <1>3, <1>t, <2>1, <2>2, GotoBase DEF Delete, DepositTypeOK
<1>4. CASE DeleteFails(g)
  <2>1. idx[g] \in Index
    BY <1>4, <1>t DEF DeleteFails, Placed
  <2>2. record' \in [Index -> {"none", "skipped", "success"}]
    BY <1>4, <1>t, <2>1, RecordTypes DEF DeleteFails, DepositTypeOK
  <2> QED BY <1>4, <1>t, <2>2, StopBase DEF DeleteFails, DepositTypeOK
<1>5. CASE Crash(g)
  BY <1>5, <1>t, StopBase DEF Crash, DepositTypeOK
<1> QED BY <1>1, <1>2, <1>3, <1>4, <1>5 DEF Replaying

LEMMA EnvironmentBase ==
  ASSUME Base, Buy \/ (\E u \in Users : Register(u)) \/ UNCHANGED vars
  PROVE  Base'
<1> USE DEF Base, roundVars, chainVars
<1>1. DepositTypeOK'
  BY DepositAssumption DEF DepositTypeOK, Buy, Register, vars
<1>2. Placed'
  BY DEF Placed, Buy, Register, vars
<1> QED BY <1>1, <1>2

LEMMA NextBase == Base /\ [Next]_vars => Base'
<1> SUFFICES ASSUME Base, [Next]_vars PROVE Base'
  OBVIOUS
<1>1. CASE \E g \in Pulls : StartRound(g)
  BY <1>1, PullBase DEF Goroutines
<1>2. CASE \E p \in Replays, i \in Index : Replay(p, i)
  BY <1>2, ReplayBase DEF Goroutines
<1>3. CASE \E g \in Goroutines : Pull(g) \/ Crediting(g) \/ Replaying(g) \/ Crash(g)
  BY <1>3, PullBase, CreditBase, ReplayBase
<1>4. CASE Buy \/ (\E u \in Users : Register(u)) \/ UNCHANGED vars
  BY <1>4, EnvironmentBase
<1> QED BY <1>1, <1>2, <1>3, <1>4 DEF Next

LEMMA BaseHolds == Spec => []Base
  BY InitBase, NextBase, PTL DEF Spec

(* The types of ChainDeposit, for any numbers of users, deposits and goroutines    *)
(* and any failures.                                                               *)
THEOREM DepositTypeCorrect == Spec => []DepositTypeOK
<1>1. Base => DepositTypeOK
  BY DEF Base
<1> QED BY <1>1, BaseHolds, PTL

-----------------------------------------------------------------------------
(* No deposit is credited twice when at most one replay runs at a time and no      *)
(* balance update is reported failed that took effect.  The number of pulling      *)
(* goroutines, crashes, failed statements and lost answers are arbitrary.  The     *)
(* argument: a success row whose deposit is not added yet belongs to one           *)
(* goroutine, and the row a replay has read stays skipped until it deletes it.     *)

OneReplay == \A p, q \in Replays : p = q
UpdatesAnswer == "answer" \notin Faults

Owns(g) == pc[g] \in {"add", "undo"}

OwnersAlone ==
  /\ \A g \in Goroutines : Owns(g) => record[idx[g]] = "success" /\ credited[idx[g]] = 0
  /\ \A g, h \in Goroutines : Owns(g) /\ Owns(h) /\ idx[g] = idx[h] => g = h

FoundStaysSkipped ==
  \A p \in Replays : pc[p] \in {"found", "delete"} => record[idx[p]] = "skipped"

OnceInv == Base /\ CreditedOnce /\ CreditedIsRecorded /\ OwnersAlone /\ FoundStaysSkipped

LEMMA InitOnce == Init => OnceInv
  BY InitBase DEF Init, OnceInv, CreditedOnce, CreditedIsRecorded, OwnersAlone, Owns, FoundStaysSkipped, Goroutines

(* What every step below does to places: g leaves for a place it does not own from, *)
(* and nobody else moves.                                                           *)
Leaves(g) ==
  /\ g \in Goroutines
  /\ pc'[g] \notin {"add", "undo", "found", "delete"}
  /\ \A h \in Goroutines \ {g} : pc'[h] = pc[h] /\ idx'[h] = idx[h]

LEMMA AdvanceLeaves ==
  ASSUME Base, NEW g \in Goroutines, Advance(g) \/ Stop(g)
  PROVE  Leaves(g)
  BY DEF Base, DepositTypeOK, Advance, Stop, Goto, Leaves

(* A number without a success row has no owner, and what is credited is recorded.   *)
LEMMA LeavingKeepsOnce ==
  ASSUME OnceInv, NEW g, Leaves(g), UNCHANGED credited, UNCHANGED record, Base'
  PROVE  OnceInv'
<1>1. (CreditedOnce /\ CreditedIsRecorded)'
  BY DEF OnceInv, CreditedOnce, CreditedIsRecorded
<1>2. OwnersAlone'
  BY DEF OnceInv, OwnersAlone, Owns, Leaves
<1>3. FoundStaysSkipped'
  BY DEF OnceInv, FoundStaysSkipped, Leaves, Goroutines
<1> QED BY <1>1, <1>2, <1>3 DEF OnceInv

(* Filling an empty row disturbs nobody.                                            *)
LEMMA FillingKeepsOnce ==
  ASSUME OnceInv, NEW g, Leaves(g), UNCHANGED credited, Base',
         NEW i \in Index, NEW status \in {"skipped", "success"}, record' = Inserted(i, status)
  PROVE  OnceInv'
<1>1. CASE Recorded(i)
  BY <1>1, LeavingKeepsOnce DEF Inserted
<1>2. CASE ~Recorded(i)
  <2>1. record' = [record EXCEPT ![i] = status] /\ record[i] = "none"
    BY <1>2 DEF Inserted, Recorded
  <2>2. record \in [Index -> {"none", "skipped", "success"}] /\ credited \in [Index -> Nat]
    BY DEF OnceInv, Base, DepositTypeOK
  <2>3. \A j \in Index : record[j] # "none" => record'[j] = record[j]
    BY <2>1, <2>2
  <2>4. (CreditedOnce /\ CreditedIsRecorded)'
    BY <2>2, <2>3 DEF OnceInv, CreditedOnce, CreditedIsRecorded
  <2>5. \A h \in Goroutines : pc[h] \notin {"idle", "length"} => idx[h] \in Index
    BY DEF OnceInv, Base, Placed
  <2>6. OwnersAlone'
    BY <2>3, <2>5 DEF OnceInv, OwnersAlone, Owns, Leaves
  <2>7. FoundStaysSkipped'
    BY <2>3, <2>5 DEF OnceInv, FoundStaysSkipped, Leaves, Goroutines
  <2> QED BY <2>4, <2>6, <2>7 DEF OnceInv
<1> QED BY <1>1, <1>2

LEMMA PullOnce ==
  ASSUME OnceInv, Base', NEW g \in Goroutines, StartRound(g) \/ Pull(g)
  PROVE  OnceInv'
<1>t. Base /\ DepositTypeOK /\ Placed
  BY DEF OnceInv, Base
<1>1. CASE StartRound(g) \/ ReadLength(g) \/ Fetch(g) \/ EndRound(g)
  <2>1. Leaves(g)
    BY <1>1, <1>t DEF StartRound, ReadLength, Fetch, EndRound, Stop, Goto, Leaves, DepositTypeOK
  <2> QED BY <1>1, <2>1, LeavingKeepsOnce DEF StartRound, ReadLength, Fetch, EndRound
<1>2. CASE Skip(g)
  <2>1. Leaves(g) /\ idx[g] \in Index
    BY <1>2, <1>t, AdvanceLeaves DEF Skip, Placed
  <2> QED BY <1>2, <2>1, FillingKeepsOnce DEF Skip
<1> QED BY <1>1, <1>2 DEF Pull

LEMMA CreditOnce ==
  ASSUME UpdatesAnswer, OnceInv, Base', NEW g \in Goroutines, Crediting(g)
  PROVE  OnceInv'
<1>t. Base /\ DepositTypeOK /\ Placed
  BY DEF OnceInv, Base
<1>a. pc[g] \notin {"idle", "length"}
  BY DEF Crediting, Claim, Credits, ClaimFails, AddAccountBalance, AddFails, Undo, Park, ParkFails
<1>i. idx[g] \in Index
  BY <1>t, <1>a DEF Placed
<1>n. \A h \in Goroutines : pc[h] \notin {"idle", "length"} => idx[h] \in Index
  BY <1>t DEF Placed
<1>1. CASE Claim(g) /\ Recorded(idx[g])
  <2>1. Leaves(g)
    BY <1>1, <1>t, AdvanceLeaves DEF Claim
  <2> QED BY <1>1, <1>i, <2>1, FillingKeepsOnce DEF Claim
<1>2. CASE Claim(g) /\ ~Recorded(idx[g])
  <2>1. /\ record[idx[g]] = "none" /\ record' = [record EXCEPT ![idx[g]] = "success"]
        /\ pc' = [pc EXCEPT ![g] = "add"] /\ idx' = idx /\ credited' = credited
    BY <1>2 DEF Claim, Inserted, Recorded, Goto
  <2>2. credited[idx[g]] = 0
    BY <1>t, <1>i, <2>1 DEF OnceInv, CreditedIsRecorded, DepositTypeOK
  <2>3. (CreditedOnce /\ CreditedIsRecorded)'
    BY <1>t, <2>1 DEF OnceInv, CreditedOnce, CreditedIsRecorded, DepositTypeOK
  <2>4. OwnersAlone'
    BY <1>t, <1>i, <1>n, <2>1, <2>2 DEF OnceInv, OwnersAlone, Owns, DepositTypeOK
  <2>5. FoundStaysSkipped'
    BY <1>t, <1>n, <2>1 DEF OnceInv, FoundStaysSkipped, DepositTypeOK, Goroutines
  <2> QED BY <2>3, <2>4, <2>5 DEF OnceInv
<1>3. CASE ClaimFails(g)
  <2>1. Leaves(g)
    BY <1>3, <1>t DEF ClaimFails, Goto, Leaves, DepositTypeOK
  <2>2. CASE UNCHANGED record
    BY <1>3, <2>1, <2>2, LeavingKeepsOnce DEF ClaimFails
  <2>3. CASE record' = Inserted(idx[g], IF Credits(g) THEN "success" ELSE "skipped")
    BY <1>3, <1>i, <2>1, <2>3, FillingKeepsOnce DEF ClaimFails
  <2> QED BY <1>3, <2>2, <2>3 DEF ClaimFails
<1>4. CASE AddAccountBalance(g)
  <2>1. Leaves(g)
    BY <1>4, <1>t, AdvanceLeaves DEF AddAccountBalance
  <2>2. record[idx[g]] = "success" /\ credited[idx[g]] = 0
    BY <1>4 DEF AddAccountBalance, OnceInv, OwnersAlone, Owns
  <2>3. credited' = [credited EXCEPT ![idx[g]] = 1] /\ record' = record
    BY <1>4, <2>2 DEF AddAccountBalance
  <2>4. (CreditedOnce /\ CreditedIsRecorded)'
    BY <1>t, <2>2, <2>3 DEF OnceInv, CreditedOnce, CreditedIsRecorded, DepositTypeOK
  <2>5. \A h \in Goroutines \ {g} : Owns(h) => idx[h] # idx[g]
    BY <1>4 DEF AddAccountBalance, OnceInv, OwnersAlone, Owns
  <2>6. OwnersAlone'
    BY <1>t, <1>n, <2>1, <2>3, <2>5 DEF OnceInv, OwnersAlone, Owns, Leaves, DepositTypeOK
  <2>7. FoundStaysSkipped'
    BY <2>1, <2>3 DEF OnceInv, FoundStaysSkipped, Leaves, Goroutines
  <2> QED BY <2>4, <2>6, <2>7 DEF OnceInv
<1>5. CASE AddFails(g)
  <2>1. /\ pc[g] = "add" /\ pc' = [pc EXCEPT ![g] = "undo"]
        /\ idx' = idx /\ record' = record /\ credited' = credited
    BY <1>5 DEF AddFails, Goto, UpdatesAnswer
  <2>2. (CreditedOnce /\ CreditedIsRecorded)'
    BY <2>1 DEF OnceInv, CreditedOnce, CreditedIsRecorded
  <2>3. OwnersAlone'
    BY <1>t, <2>1 DEF OnceInv, OwnersAlone, Owns, DepositTypeOK
  <2>4. FoundStaysSkipped'
    BY <1>t, <2>1 DEF OnceInv, FoundStaysSkipped, DepositTypeOK, Goroutines
  <2> QED BY <2>2, <2>3, <2>4 DEF OnceInv
<1>6. CASE Undo(g)
  <2>1. Leaves(g)
    BY <1>6, <1>t DEF Undo, Goto, Leaves, DepositTypeOK
  <2>2. CASE UNCHANGED record
    BY <1>6, <2>1, <2>2, LeavingKeepsOnce DEF Undo
  <2>3. CASE record' = Deleted(idx[g])
    <3>1. record' = [record EXCEPT ![idx[g]] = "none"] /\ credited' = credited
      BY <1>6, <2>3 DEF Undo, Deleted
    <3>2. record[idx[g]] = "success" /\ credited[idx[g]] = 0
      BY <1>6 DEF Undo, OnceInv, OwnersAlone, Owns
    <3>3. (CreditedOnce /\ CreditedIsRecorded)'
      BY <1>t, <3>1, <3>2 DEF OnceInv, CreditedOnce, CreditedIsRecorded, DepositTypeOK
    <3>4. \A h \in Goroutines \ {g} : Owns(h) => idx[h] # idx[g]
      BY <1>6 DEF Undo, OnceInv, OwnersAlone, Owns
    <3>5. OwnersAlone'
      BY <1>t, <1>n, <2>1, <3>1, <3>4 DEF OnceInv, OwnersAlone, Owns, Leaves, DepositTypeOK
    <3>6. FoundStaysSkipped'
      BY <1>t, <1>n, <2>1, <3>1, <3>2 DEF OnceInv, FoundStaysSkipped, Leaves, Goroutines, DepositTypeOK
    <3> QED BY <3>3, <3>5, <3>6 DEF OnceInv
  <2> QED BY <1>6, <2>2, <2>3 DEF Undo
<1>7. CASE Park(g)
  <2>1. Leaves(g)
    BY <1>7, <1>t, AdvanceLeaves DEF Park
  <2> QED BY <1>7, <1>i, <2>1, FillingKeepsOnce DEF Park
<1>8. CASE ParkFails(g)
  <2>1. Leaves(g)
    BY <1>8, <1>t, AdvanceLeaves DEF ParkFails
  <2>2. CASE UNCHANGED record
    BY <1>8, <2>1, <2>2, LeavingKeepsOnce DEF ParkFails
  <2>3. CASE record' = Inserted(idx[g], "skipped")
    BY <1>8, <1>i, <2>1, <2>3, FillingKeepsOnce DEF ParkFails
  <2> QED BY <1>8, <2>2, <2>3 DEF ParkFails
<1> QED BY <1>1, <1>2, <1>3, <1>4, <1>5, <1>6, <1>7, <1>8 DEF Crediting

LEMMA ReplayOnce ==
  ASSUME OneReplay, OnceInv, Base', NEW g \in Goroutines,
         (\E i \in Index : Replay(g, i)) \/ Replaying(g) \/ Crash(g)
  PROVE  OnceInv'
<1>t. Base /\ DepositTypeOK /\ Placed
  BY DEF OnceInv, Base
<1>n. \A h \in Goroutines : pc[h] \notin {"idle", "length"} => idx[h] \in Index
  BY <1>t DEF Placed
<1>1. ASSUME NEW i \in Index, Replay(g, i)
      PROVE  OnceInv'
  <2>1. /\ record[i] = "skipped" /\ pc' = [pc EXCEPT ![g] = "found"] /\ idx' = [idx EXCEPT ![g] = i]
        /\ record' = record /\ credited' = credited /\ pc[g] = "idle"
    BY <1>1 DEF Replay, Replayable, Goto
  <2>2. (CreditedOnce /\ CreditedIsRecorded)'
    BY <2>1 DEF OnceInv, CreditedOnce, CreditedIsRecorded
  <2>3. OwnersAlone'
    BY <1>t, <2>1 DEF OnceInv, OwnersAlone, Owns, DepositTypeOK
  <2>4. FoundStaysSkipped'
    BY <1>t, <2>1 DEF OnceInv, FoundStaysSkipped, DepositTypeOK, Goroutines
  <2> QED BY <2>2, <2>3, <2>4 DEF OnceInv
<1>2. CASE LookUp(g) /\ Goto(g, "delete")
  <2>1. /\ pc[g] = "found" /\ pc' = [pc EXCEPT ![g] = "delete"]
        /\ record' = record /\ credited' = credited /\ idx' = idx
    BY <1>2, <1>t DEF LookUp, Goto, Stop, DepositTypeOK
  <2>2. (CreditedOnce /\ CreditedIsRecorded)'
    BY <2>1 DEF OnceInv, CreditedOnce, CreditedIsRecorded
  <2>3. OwnersAlone'
    BY <1>t, <2>1 DEF OnceInv, OwnersAlone, Owns, DepositTypeOK
  <2>4. FoundStaysSkipped'
    BY <1>t, <2>1 DEF OnceInv, FoundStaysSkipped, DepositTypeOK, Goroutines
  <2> QED BY <2>2, <2>3, <2>4 DEF OnceInv
<1>3. CASE (LookUp(g) \/ Crash(g) \/ DeleteFails(g)) /\ Stop(g) /\ UNCHANGED record
  <2>1. Leaves(g)
    BY <1>3, <1>t, AdvanceLeaves
  <2> QED BY <1>3, <2>1, LeavingKeepsOnce DEF LookUp, Crash, DeleteFails
<1>4. CASE pc[g] = "delete" /\ record' = Deleted(idx[g]) /\ Leaves(g) /\ UNCHANGED credited
  <2>1. g \in Replays /\ idx[g] \in Index /\ record[idx[g]] = "skipped"
    BY <1>4, <1>t DEF Placed, OnceInv, FoundStaysSkipped
  <2>2. record' = [record EXCEPT ![idx[g]] = "none"]
    BY <1>4 DEF Deleted
  <2>3. (CreditedOnce /\ CreditedIsRecorded)'
    BY <1>4, <1>t, <2>1, <2>2 DEF OnceInv, CreditedOnce, CreditedIsRecorded, DepositTypeOK
  <2>4. OwnersAlone'
    BY <1>4, <1>t, <1>n, <2>1, <2>2 DEF OnceInv, OwnersAlone, Owns, Leaves, DepositTypeOK
  <2>5. FoundStaysSkipped'
    BY <1>4, <2>1 DEF OneReplay, FoundStaysSkipped, Leaves
  <2> QED BY <2>3, <2>4, <2>5 DEF OnceInv
<1>5. CASE Delete(g)
  <2>1. Leaves(g)
    BY <1>5, <1>t DEF Delete, Goto, Leaves, DepositTypeOK
  <2> QED BY <1>5, <2>1, <1>4 DEF Delete
<1>6. CASE DeleteFails(g) /\ pc[g] = "delete" /\ record' = Deleted(idx[g])
  <2>1. Leaves(g)
    BY <1>6, <1>t, AdvanceLeaves DEF DeleteFails
  <2> QED BY <1>6, <2>1, <1>4 DEF DeleteFails
<1> QED BY <1>1, <1>2, <1>3, <1>5, <1>6 DEF Replaying, LookUp, DeleteFails, Crash

LEMMA EnvironmentOnce ==
  ASSUME OnceInv, Base', Buy \/ (\E u \in Users : Register(u)) \/ UNCHANGED vars
  PROVE  OnceInv'
  BY DEF OnceInv, CreditedOnce, CreditedIsRecorded, OwnersAlone, Owns, FoundStaysSkipped, Buy, Register, vars

LEMMA NextOnce ==
  ASSUME OneReplay, UpdatesAnswer
  PROVE  OnceInv /\ [Next]_vars => OnceInv'
<1> SUFFICES ASSUME OnceInv, [Next]_vars PROVE OnceInv'
  OBVIOUS
<1>b. Base'
  BY NextBase DEF OnceInv
<1>1. CASE \E g \in Pulls : StartRound(g)
  BY <1>1, <1>b, PullOnce DEF Goroutines
<1>2. CASE \E p \in Replays, i \in Index : Replay(p, i)
  BY <1>2, <1>b, ReplayOnce DEF Goroutines
<1>3. CASE \E g \in Goroutines : Pull(g) \/ Crediting(g) \/ Replaying(g) \/ Crash(g)
  BY <1>3, <1>b, PullOnce, CreditOnce, ReplayOnce
<1>4. CASE Buy \/ (\E u \in Users : Register(u)) \/ UNCHANGED vars
  BY <1>4, <1>b, EnvironmentOnce
<1> QED BY <1>1, <1>2, <1>3, <1>4 DEF Next

LEMMA OnceHolds == ASSUME OneReplay, UpdatesAnswer PROVE Spec => []OnceInv
<1>1. OnceInv /\ [Next]_vars => OnceInv'
  BY NextOnce
<1> QED BY InitOnce, <1>1, PTL DEF Spec

(* CreditChainDeposit adds no deposit twice, however many goroutines pull.         *)
THEOREM DepositCreditedOnce == ASSUME OneReplay, UpdatesAnswer PROVE Spec => []CreditedOnce
<1>1. OnceInv => CreditedOnce
  BY DEF OnceInv
<1> QED BY <1>1, OnceHolds, PTL

(* Nor does a deposit that was added lose its success row.                         *)
THEOREM DepositStaysRecorded == ASSUME OneReplay, UpdatesAnswer PROVE Spec => []CreditedIsRecorded
<1>1. OnceInv => CreditedIsRecorded
  BY DEF OnceInv
<1> QED BY <1>1, OnceHolds, PTL

-----------------------------------------------------------------------------
(* The refinement of DepositOnce.  What a goroutine checked when it read a batch,  *)
(* or when it looked the depositor up, still holds when it acts: deposits do not   *)
(* change, users do not leave, and the contract does not get shorter.              *)

Fit(g) ==
  /\ known[g] \subseteq registered
  /\ upto[g] <= length
  /\ pc[g] \notin {"idle", "length"} => idx[g] < length
  /\ pc[g] \in {"found", "delete", "insert"} => Enough(idx[g])
  /\ pc[g] \in {"delete", "insert"} => chain[idx[g]].by \in registered

AllFit == Base /\ \A g \in Goroutines : Fit(g)

Grows ==
  /\ chain' = chain
  /\ registered \subseteq registered'
  /\ length \in Nat /\ length' \in Nat /\ length <= length'

(* Who does not move stays fit, whatever comes and whoever registers. *)
LEMMA StillFit ==
  ASSUME Base, NEW h \in Goroutines, Fit(h), Grows,
         UNCHANGED <<pc[h], idx[h], upto[h], known[h]>>
  PROVE  Fit(h)'
<1>1. upto[h] \in Int /\ idx[h] \in Int
  BY DEF Base, DepositTypeOK
<1>2. (known[h] \subseteq registered)' /\ (upto[h] <= length)'
  BY <1>1 DEF Fit, Grows
<1>3. (pc[h] \notin {"idle", "length"} => idx[h] < length)'
  BY <1>1 DEF Fit, Grows
<1>4. (pc[h] \in {"found", "delete", "insert"} => Enough(idx[h]))'
  BY DEF Fit, Grows, Enough
<1>5. (pc[h] \in {"delete", "insert"} => chain[idx[h]].by \in registered)'
  BY DEF Fit, Grows
<1> QED BY <1>2, <1>3, <1>4, <1>5 DEF Fit

(* So a step of g has to be looked at for g alone. *)
Alone(g) ==
  /\ Grows
  /\ \A h \in Goroutines \ {g} : UNCHANGED <<pc[h], idx[h], upto[h], known[h]>>

LEMMA StopFit ==
  ASSUME Base, NEW g \in Goroutines, Stop(g), UNCHANGED <<chainVars, registered>>
  PROVE  Alone(g) /\ Fit(g)'
<1>1. Alone(g)
  BY DEF Base, DepositTypeOK, Stop, Goto, Alone, Grows, chainVars
<1>2. Fit(g)'
  BY DEF Base, DepositTypeOK, Stop, Goto, Fit, chainVars
<1> QED BY <1>1, <1>2

(* g goes on with its number, to a place that asks no more than the one before. *)
LEMMA GotoFit ==
  ASSUME Base, NEW g \in Goroutines, Fit(g), NEW label, Goto(g, label),
         UNCHANGED <<chainVars, registered, idx, roundVars>>, pc[g] \notin {"idle", "length"},
         label \in {"found", "delete", "insert"} => Enough(idx[g]),
         label \in {"delete", "insert"} => chain[idx[g]].by \in registered
  PROVE  Alone(g) /\ Fit(g)'
<1>1. Alone(g)
  BY DEF Base, DepositTypeOK, Goto, Alone, Grows, chainVars, roundVars
<1>2. pc'[g] = label /\ idx' = idx /\ upto' = upto /\ known' = known
  BY DEF Base, DepositTypeOK, Goto, roundVars
<1>3. Fit(g)'
  BY <1>2 DEF Fit, Enough, chainVars
<1> QED BY <1>1, <1>3

LEMMA AdvanceFit ==
  ASSUME Base, NEW g \in Goroutines, Fit(g), Advance(g), pc[g] \notin {"idle", "length"},
         UNCHANGED <<chainVars, registered>>
  PROVE  Alone(g) /\ Fit(g)'
<1>1. CASE Stop(g)
  BY <1>1, StopFit
<1>2. CASE /\ g \in Pulls /\ idx[g] + 1 # upto[g]
           /\ idx' = [idx EXCEPT ![g] = @ + 1]
           /\ Goto(g, IF idx[g] = last[g] THEN "fetch" ELSE "each")
           /\ UNCHANGED roundVars
  <2>1. Alone(g)
    BY <1>2 DEF Base, DepositTypeOK, Goto, Alone, Grows, chainVars, roundVars
  <2>2. /\ pc'[g] \in {"fetch", "each"} /\ idx'[g] = idx[g] + 1
        /\ upto' = upto /\ known' = known /\ length' = length /\ registered' = registered
    BY <1>2 DEF Base, DepositTypeOK, Goto, roundVars, chainVars
  <2>3. idx[g] < upto[g] /\ idx[g] \in Int /\ upto[g] \in Int /\ length \in Int
    BY <1>2 DEF Base, DepositTypeOK, Placed
  <2>4. Fit(g)'
    BY <1>2, <2>2, <2>3 DEF Fit
  <2> QED BY <2>1, <2>4
<1> QED BY <1>1, <1>2 DEF Advance

LEMMA PullFit ==
  ASSUME Base, NEW g \in Goroutines, Fit(g), StartRound(g) \/ Pull(g)
  PROVE  Alone(g) /\ Fit(g)'
<1>t. DepositTypeOK /\ Placed
  BY DEF Base
<1>1. CASE StartRound(g)
  <2>1. Alone(g)
    BY <1>1, <1>t DEF StartRound, DepositTypeOK, Goto, Alone, Grows, chainVars, roundVars
  <2>2. /\ pc'[g] = "length" /\ upto' = upto /\ known' = known
        /\ length' = length /\ registered' = registered
    BY <1>1, <1>t DEF StartRound, DepositTypeOK, Goto, roundVars, chainVars
  <2>3. Fit(g)'
    BY <2>2 DEF Fit
  <2> QED BY <2>1, <2>3
<1>2. CASE ReadLength(g)
  <2>1. CASE Stop(g)
    BY <1>2, <2>1, StopFit DEF ReadLength
  <2>2. CASE /\ idx[g] < length
             /\ upto' = [upto EXCEPT ![g] = length]
             /\ Goto(g, "fetch")
             /\ UNCHANGED <<idx, last, known>>
    <3>1. Alone(g)
      BY <1>2, <2>2, <1>t DEF ReadLength, DepositTypeOK, Goto, Alone, Grows, chainVars
    <3>2. /\ pc'[g] = "fetch" /\ upto'[g] = length /\ known' = known /\ idx' = idx
          /\ length' = length /\ registered' = registered /\ length \in Int
      BY <1>2, <2>2, <1>t DEF ReadLength, DepositTypeOK, Goto, chainVars
    <3>3. Fit(g)'
      BY <2>2, <3>2 DEF Fit
    <3> QED BY <3>1, <3>3
  <2> QED BY <1>2, <2>1, <2>2 DEF ReadLength
<1>3. CASE Fetch(g)
  <2>1. Alone(g)
    BY <1>3, <1>t DEF Fetch, DepositTypeOK, Goto, Alone, Grows, chainVars
  <2>2. /\ pc[g] = "fetch" /\ pc'[g] = "each" /\ upto' = upto /\ idx' = idx
        /\ known'[g] \subseteq registered /\ length' = length /\ registered' = registered
    BY <1>3, <1>t DEF Fetch, DepositTypeOK, Goto, chainVars
  <2>3. Fit(g)'
    BY <2>2 DEF Fit
  <2> QED BY <2>1, <2>3
<1>4. CASE EndRound(g)
  BY <1>4, StopFit DEF EndRound
<1>5. CASE Skip(g)
  BY <1>5, AdvanceFit DEF Skip
<1> QED BY <1>1, <1>2, <1>3, <1>4, <1>5 DEF Pull

LEMMA CreditFit ==
  ASSUME Base, NEW g \in Goroutines, Fit(g), Crediting(g)
  PROVE  Alone(g) /\ Fit(g)'
<1>1. /\ pc[g] \notin {"idle", "length"}
      /\ UNCHANGED <<chainVars, registered>>
  BY DEF Crediting, Claim, Credits, ClaimFails, AddAccountBalance, AddFails, Undo, Park, ParkFails
<1>2. CASE Advance(g)
  BY <1>1, <1>2, AdvanceFit
<1>3. CASE Stop(g)
  BY <1>1, <1>3, StopFit
<1>4. ASSUME NEW label \in Credit, Goto(g, label), UNCHANGED <<idx, roundVars>>
      PROVE  Alone(g) /\ Fit(g)'
  <2>1. label \notin {"found", "delete", "insert"}
    BY DEF Credit
  <2> QED BY <1>1, <1>4, <2>1, GotoFit
<1>5. \/ Advance(g) \/ Stop(g)
      \/ \E label \in Credit : Goto(g, label) /\ UNCHANGED <<idx, roundVars>>
  BY DEF Crediting, Claim, ClaimFails, AddAccountBalance, AddFails, Undo, Park, ParkFails, Credit
<1> QED BY <1>2, <1>3, <1>4, <1>5

LEMMA ReplayFit ==
  ASSUME Base, NEW g \in Goroutines, Fit(g),
         (\E i \in Index : Replay(g, i)) \/ Replaying(g) \/ Crash(g)
  PROVE  Alone(g) /\ Fit(g)'
<1>t. DepositTypeOK /\ Placed
  BY DEF Base
<1>1. ASSUME NEW i \in Index, Replay(g, i)
      PROVE  Alone(g) /\ Fit(g)'
  <2>1. Alone(g)
    BY <1>1, <1>t DEF Replay, DepositTypeOK, Goto, Alone, Grows, chainVars, roundVars
  <2>2. /\ pc'[g] = "found" /\ idx'[g] = i /\ upto' = upto /\ known' = known
        /\ chain' = chain /\ length' = length /\ registered' = registered
    BY <1>1, <1>t DEF Replay, DepositTypeOK, Goto, roundVars, chainVars
  <2>3. Fit(g)'
    BY <1>1, <2>2 DEF Fit, Replay, Enough
  <2> QED BY <2>1, <2>3
<1>2. CASE LookUp(g) \/ Delete(g)
  <2>1. CASE Stop(g)
    BY <1>2, <2>1, StopFit DEF LookUp, Delete
  <2>2. CASE LookUp(g) /\ chain[idx[g]].by \in registered /\ Goto(g, "delete") /\ UNCHANGED <<idx, roundVars>>
    <3>1. Enough(idx[g]) /\ pc[g] = "found"
      BY <2>2 DEF LookUp, Fit
    <3> QED BY <2>2, <3>1, GotoFit DEF LookUp
  <2>3. CASE Delete(g)
    <3>1. Enough(idx[g]) /\ chain[idx[g]].by \in registered /\ pc[g] = "delete"
      BY <2>3 DEF Delete, Fit
    <3> QED BY <2>3, <3>1, GotoFit DEF Delete
  <2> QED BY <1>2, <2>1, <2>2, <2>3 DEF LookUp
<1>3. CASE DeleteFails(g) \/ Crash(g)
  BY <1>3, StopFit DEF DeleteFails, Crash
<1> QED BY <1>1, <1>2, <1>3 DEF Replaying

LEMMA NextFit == AllFit /\ [Next]_vars => AllFit'
<1> SUFFICES ASSUME AllFit, [Next]_vars PROVE AllFit'
  OBVIOUS
<1>b. Base /\ Base'
  BY NextBase DEF AllFit
<1>a. ASSUME NEW g \in Goroutines, Alone(g) /\ Fit(g)'
      PROVE  AllFit'
  <2>1. ASSUME NEW h \in Goroutines PROVE Fit(h)'
    <3>1. CASE h = g
      BY <1>a, <3>1
    <3>2. CASE h # g
      BY <1>a, <1>b, <3>2, StillFit DEF Alone, AllFit
    <3> QED BY <3>1, <3>2
  <2>2. Goroutines' = Goroutines
    BY DEF Goroutines
  <2> QED BY <1>b, <2>1, <2>2 DEF AllFit
<1>1. CASE \E g \in Pulls : StartRound(g)
  BY <1>1, <1>a, PullFit DEF AllFit, Goroutines
<1>2. CASE \E p \in Replays, i \in Index : Replay(p, i)
  BY <1>2, <1>a, ReplayFit DEF AllFit, Goroutines
<1>3. CASE \E g \in Goroutines : Pull(g) \/ Crediting(g) \/ Replaying(g) \/ Crash(g)
  BY <1>3, <1>a, PullFit, CreditFit, ReplayFit DEF AllFit
<1>4. CASE Buy \/ (\E u \in Users : Register(u)) \/ UNCHANGED vars
  <2>1. Grows /\ UNCHANGED <<pc, idx, upto, known>>
    BY <1>4, <1>b DEF Buy, Register, vars, chainVars, roundVars, Grows, Base, DepositTypeOK
  <2>2. \A h \in Goroutines : Fit(h)'
    BY <1>b, <2>1, StillFit DEF AllFit
  <2> QED BY <1>b, <2>2 DEF AllFit, Goroutines
<1> QED BY <1>1, <1>2, <1>3, <1>4 DEF Next

LEMMA FitHolds == Spec => []AllFit
<1>1. Init => AllFit
  BY InitBase DEF Init, AllFit, Fit, Goroutines
<1> QED BY <1>1, NextFit, PTL DEF Spec

(* What a step does to the rows and balances of all numbers but one leaves their   *)
(* stages alone, and that one moves. *)
LEMMA StageMoves ==
  ASSUME Base, Base', NEW i \in Index, i < length, UNCHANGED <<chainVars, registered>>,
         \A j \in Index \ {i} : record'[j] = record[j] /\ credited'[j] = credited[j],
         NEW from, Stage(i) = from, NEW to, Stage(i)' = to
  PROVE  Abstract!Moves(i, from, to)
<1>1. \A j \in Index \ {i} : Stage(j)' = Stage(j)
  BY DEF Stage
<1>2. [j \in Index |-> Stage(j)]' = [[j \in Index |-> Stage(j)] EXCEPT ![i] = to]
  BY <1>1 DEF Index
<1>3. [j \in Index |-> Stage(j)][i] = from
  OBVIOUS
<1> QED BY <1>2, <1>3 DEF Abstract!Moves, chainVars

Staged == [i \in Index |-> Stage(i)]
AbstractStep == [Abstract!Next]_<<chain, length, registered, Staged>>

LEMMA SameStages ==
  ASSUME UNCHANGED <<chainVars, registered, record, credited>>
  PROVE  AbstractStep
<1>1. Staged' = Staged
  BY DEF Staged, Stage, Index
<1> QED BY <1>1 DEF AbstractStep, chainVars

LEMMA StageStep ==
  ASSUME NEW i \in Index,
         \/ Abstract!Skip(i) \/ Abstract!Claim(i) \/ Abstract!Credit(i)
         \/ Abstract!Yield(i) \/ Abstract!Reopen(i)
  PROVE  AbstractStep
<1>1. i \in Abstract!Deposits
  BY DEF Abstract!Deposits, Index
<1> QED BY <1>1 DEF AbstractStep, Abstract!Next

(* An INSERT of a row: of a deposit that deserves it when it is a success row. *)
LEMMA InsertStep ==
  ASSUME OnceInv, Base', NEW i \in Index, i < length,
         UNCHANGED <<chainVars, registered, credited>>,
         NEW status \in {"skipped", "success"}, record' = Inserted(i, status),
         status = "success" => Abstract!Deserves(i)
  PROVE  AbstractStep
<1>t. Base /\ DepositTypeOK
  BY DEF OnceInv, Base
<1>1. CASE Recorded(i)
  BY <1>1, SameStages DEF Inserted
<1>2. CASE ~Recorded(i)
  <2>1. record' = [record EXCEPT ![i] = status] /\ record[i] = "none"
    BY <1>2 DEF Inserted, Recorded
  <2>2. credited[i] = 0
    BY <1>t, <2>1 DEF OnceInv, CreditedIsRecorded, DepositTypeOK
  <2>3. \A j \in Index \ {i} : record'[j] = record[j] /\ credited'[j] = credited[j]
    BY <1>t, <2>1 DEF DepositTypeOK
  <2>4. Stage(i) = "open" /\ record'[i] = status /\ credited'[i] = 0
    BY <1>t, <2>1, <2>2 DEF Stage, DepositTypeOK
  <2>5. CASE status = "skipped"
    <3>1. Abstract!Moves(i, "open", "skipped")
      BY <1>t, <2>3, <2>4, <2>5, StageMoves DEF Stage
    <3> QED BY <3>1, StageStep DEF Abstract!Skip
  <2>6. CASE status = "success"
    <3>1. Abstract!Moves(i, "open", "claimed")
      BY <1>t, <2>3, <2>4, <2>6, StageMoves DEF Stage
    <3> QED BY <2>6, <3>1, StageStep DEF Abstract!Claim
  <2> QED BY <2>5, <2>6
<1> QED BY <1>1, <1>2

(* A goroutine that credits a deposit has checked that it deserves it. *)
LEMMA CreditsDeserving ==
  ASSUME AllFit, NEW g \in Goroutines, Credits(g)
  PROVE  Abstract!Deserves(idx[g])
<1>1. CASE pc[g] = "insert"
  BY <1>1 DEF AllFit, Fit, Enough, Abstract!Deserves
<1>2. CASE pc[g] = "each" /\ ~Skips(g)
  BY <1>2 DEF AllFit, Fit, Skips, Enough, Abstract!Deserves
<1> QED BY <1>1, <1>2 DEF Credits

LEMMA CreditRefines ==
  ASSUME UpdatesAnswer, OnceInv, AllFit, Base', NEW g \in Goroutines, Skip(g) \/ Crediting(g)
  PROVE  AbstractStep
<1>t. Base /\ DepositTypeOK /\ Placed
  BY DEF OnceInv, Base
<1>p. pc[g] \notin {"idle", "length"} /\ UNCHANGED <<chainVars, registered>>
  BY DEF Skip, Crediting, Claim, Credits, ClaimFails, AddAccountBalance, AddFails, Undo, Park, ParkFails
<1>i. idx[g] \in Index /\ idx[g] < length
  BY <1>t, <1>p DEF Placed, AllFit, Fit
<1>d. Credits(g) => Abstract!Deserves(idx[g])
  BY CreditsDeserving
<1>s. CASE UNCHANGED <<record, credited>>
  BY <1>s, <1>p, SameStages
<1>1. ASSUME NEW status \in {"skipped", "success"}, record' = Inserted(idx[g], status),
             UNCHANGED credited, status = "success" => Credits(g)
      PROVE  AbstractStep
  BY <1>1, <1>i, <1>d, <1>p, InsertStep
<1>2. CASE Skip(g) \/ Park(g) \/ ParkFails(g)
  BY <1>1, <1>2, <1>s DEF Skip, Park, ParkFails
<1>3. CASE Claim(g)
  BY <1>1, <1>3 DEF Claim
<1>4. CASE ClaimFails(g)
  <2>1. CASE Credits(g)
    BY <1>1, <1>4, <1>s, <2>1 DEF ClaimFails
  <2>2. CASE ~Credits(g)
    BY <1>1, <1>4, <1>s, <2>2 DEF ClaimFails
  <2> QED BY <2>1, <2>2
<1>5. CASE AddAccountBalance(g)
  <2>1. record[idx[g]] = "success" /\ credited[idx[g]] = 0
    BY <1>5 DEF AddAccountBalance, OnceInv, OwnersAlone, Owns
  <2>2. credited' = [credited EXCEPT ![idx[g]] = 1] /\ record' = record
    BY <1>5, <2>1 DEF AddAccountBalance
  <2>3. \A j \in Index \ {idx[g]} : record'[j] = record[j] /\ credited'[j] = credited[j]
    BY <1>t, <2>2 DEF DepositTypeOK
  <2>4. credited'[idx[g]] = 1 /\ record'[idx[g]] = "success"
    BY <1>t, <1>i, <2>1, <2>2 DEF DepositTypeOK
  <2> DEFINE i == idx[g]
  <2>5. i \in Index /\ i < length /\ Stage(i) = "claimed"
    BY <1>i, <2>1 DEF Stage
  <2>6. PICK n \in Index : n = i
    BY <1>i
  <2>7. Stage(n)' = "credited"
    BY <2>4, <2>6 DEF Stage
  <2>8. Abstract!Moves(n, "claimed", "credited")
    BY <1>t, <1>p, <2>3, <2>5, <2>6, <2>7, StageMoves
  <2> QED BY <2>8, StageStep DEF Abstract!Credit
<1>6. CASE AddFails(g)
  BY <1>6, <1>s DEF AddFails, UpdatesAnswer
<1>7. CASE Undo(g)
  <2>1. CASE UNCHANGED record
    BY <1>7, <1>s, <2>1 DEF Undo
  <2>2. CASE record' = Deleted(idx[g])
    <3>1. record[idx[g]] = "success" /\ credited[idx[g]] = 0
      BY <1>7 DEF Undo, OnceInv, OwnersAlone, Owns
    <3>2. record' = [record EXCEPT ![idx[g]] = "none"] /\ credited' = credited
      BY <1>7, <2>2 DEF Undo, Deleted
    <3>3. PICK n \in Index : n = idx[g]
      BY <1>i
    <3>4. \A j \in Index \ {n} : record'[j] = record[j] /\ credited'[j] = credited[j]
      BY <1>t, <3>2, <3>3 DEF DepositTypeOK
    <3>5. Stage(n) = "claimed" /\ Stage(n)' = "open"
      BY <1>t, <3>1, <3>2, <3>3 DEF Stage, DepositTypeOK
    <3>6. Abstract!Moves(n, "claimed", "open")
      BY <1>i, <1>t, <1>p, <3>3, <3>4, <3>5, StageMoves
    <3> QED BY <3>6, StageStep DEF Abstract!Yield
  <2> QED BY <1>7, <2>1, <2>2 DEF Undo
<1> QED BY <1>2, <1>3, <1>4, <1>5, <1>6, <1>7 DEF Crediting

(* A replay takes up a row that is skipped and of a deposit that deserves it.      *)
LEMMA ReplayRefines ==
  ASSUME OnceInv, AllFit, Base', NEW g \in Goroutines, Delete(g) \/ DeleteFails(g)
  PROVE  AbstractStep
<1>t. Base /\ DepositTypeOK /\ Placed
  BY DEF OnceInv, Base
<1>1. CASE UNCHANGED record
  BY <1>1, SameStages DEF Delete, DeleteFails
<1>2. CASE pc[g] = "delete" /\ record' = Deleted(idx[g])
  <2>1. g \in Replays /\ idx[g] \in Index /\ idx[g] < length
    BY <1>2, <1>t DEF Placed, AllFit, Fit
  <2>2. PICK n \in Index : n = idx[g]
    BY <2>1
  <2>3. record[n] = "skipped" /\ Abstract!Deserves(n)
    BY <1>2, <2>1, <2>2 DEF OnceInv, FoundStaysSkipped, AllFit, Fit, Enough, Abstract!Deserves
  <2>4. /\ record' = [record EXCEPT ![n] = "none"]
        /\ UNCHANGED <<chainVars, registered, credited>>
    BY <1>2, <2>2 DEF Delete, DeleteFails, Deleted
  <2>5. \A j \in Index \ {n} : record'[j] = record[j] /\ credited'[j] = credited[j]
    BY <1>t, <2>4 DEF DepositTypeOK
  <2>6. Stage(n) = "skipped" /\ Stage(n)' = "open"
    BY <1>t, <2>3, <2>4 DEF Stage, DepositTypeOK
  <2>7. Abstract!Moves(n, "skipped", "open")
    BY <1>t, <2>1, <2>2, <2>4, <2>5, <2>6, StageMoves
  <2> QED BY <2>3, <2>7, StageStep DEF Abstract!Reopen
<1> QED BY <1>1, <1>2 DEF Delete, DeleteFails

LEMMA NextRefines ==
  ASSUME UpdatesAnswer, OnceInv, AllFit, Base', [Next]_vars
  PROVE  AbstractStep
<1>1. ASSUME NEW g \in Goroutines,
             \/ StartRound(g) \/ ReadLength(g) \/ Fetch(g) \/ EndRound(g)
             \/ (\E i \in Index : Replay(g, i)) \/ LookUp(g) \/ Crash(g)
      PROVE  AbstractStep
  BY <1>1, SameStages DEF StartRound, ReadLength, Fetch, EndRound, Replay, LookUp, Crash
<1>2. ASSUME NEW g \in Goroutines, Pull(g) \/ Crediting(g) \/ Replaying(g) \/ Crash(g)
      PROVE  AbstractStep
  BY <1>1, <1>2, CreditRefines, ReplayRefines DEF Pull, Replaying
<1>3. CASE Buy
  <2>1. UNCHANGED <<chain, registered, record, credited>>
    BY <1>3 DEF Buy
  <2>2. Staged' = Staged
    BY <2>1 DEF Staged, Stage, Index
  <2>3. Abstract!Come
    BY <1>3, <2>1, <2>2 DEF Buy, Abstract!Come, Staged
  <2> QED BY <2>3 DEF AbstractStep, Abstract!Next
<1>4. ASSUME NEW u \in Users, Register(u)
      PROVE  AbstractStep
  <2>1. UNCHANGED <<chainVars, record, credited>>
    BY <1>4 DEF Register
  <2>2. Staged' = Staged
    BY <2>1 DEF Staged, Stage, Index
  <2>3. Abstract!Join(u)
    BY <1>4, <2>1, <2>2 DEF Register, Abstract!Join, Staged, chainVars
  <2> QED BY <2>3 DEF AbstractStep, Abstract!Next
<1>5. CASE UNCHANGED vars
  BY <1>5, SameStages DEF vars
<1> QED BY <1>1, <1>2, <1>3, <1>4, <1>5 DEF Next, Goroutines

(* However many goroutines pull, from whatever cursor, and wherever they die: each *)
(* deposit goes through the stages of DepositOnce, claimed only when it deserves   *)
(* it, and credited once and for all.                                              *)
THEOREM DepositsAreOnce ==
  ASSUME OneReplay, UpdatesAnswer
  PROVE  Spec => ImplementsDepositOnce
<1>1. OnceInv /\ AllFit /\ [Next]_vars => [Abstract!Next]_Abstract!onceVars
  BY NextBase, NextRefines DEF OnceInv, AbstractStep, Staged, Abstract!onceVars
<1>2. Init => Abstract!Init
  <2> SUFFICES ASSUME Init PROVE Abstract!Init
    OBVIOUS
  <2>1. [i \in Index |-> Stage(i)] = [i \in Index |-> "open"]
    BY DEF Init, Stage
  <2> QED BY <2>1 DEF Init, Abstract!Init, Abstract!Deposits, Index
<1> QED
  BY <1>1, <1>2, OnceHolds, FitHolds, PTL DEF Spec, ImplementsDepositOnce, Abstract!Spec

-----------------------------------------------------------------------------
(* No deposit is forgotten, with any number of pulling goroutines, when no         *)
(* statement fails without effect and no balance update fails that had one.  Pulls *)
(* may end anywhere and lose the answers of their INSERTs.  Replays may not: one   *)
(* that ends between its delete and its insert leaves a number without a row.  The *)
(* argument: below a row, and below the number a goroutine works on, every number  *)
(* has a row or a replay that is about to write one.                               *)

ReplaysComplete ==
  /\ Faults \cap {"sql", "answer"} = {}
  /\ Faults \cap {"crash", "lost"} = {} \/ Replays = {}

Held(i)  == Recorded(i) \/ \E p \in Replays : pc[p] = "insert" /\ idx[p] = i
Below(n) == \A i \in Index : i < n => Held(i)

KeptInv ==
  /\ Base
  /\ \A i, j \in Index : i < j /\ Recorded(j) => Held(i)
  /\ \A g \in Goroutines :
       /\ pc[g] # "idle" => Below(idx[g])
       /\ pc[g] \in {"add", "park"} => Held(idx[g])
       /\ pc[g] # "undo"

(* What a step of g may do to rows, to places and to numbers. *)
RowKept(g) ==
  \/ record' = record
  \/ /\ pc[g] # "idle" /\ idx[g] \in Index
     /\ \E status \in {"skipped", "success"} : record' = Inserted(idx[g], status)
  \/ /\ g \in Replays /\ idx[g] \in Index
     /\ record' = Deleted(idx[g]) /\ pc'[g] = "insert" /\ idx'[g] = idx[g]

NumberKept(g) ==
  \/ pc'[g] = "idle"
  \/ pc[g] # "idle" /\ idx'[g] = idx[g]
  \/ /\ pc[g] # "idle" /\ idx[g] \in Index /\ idx'[g] = idx[g] + 1
     /\ Held(idx[g]) \/ record'[idx[g]] # "none"
  \/ Below(idx'[g])

Keeps(g) ==
  /\ g \in Goroutines
  /\ \A h \in Goroutines \ {g} : pc'[h] = pc[h] /\ idx'[h] = idx[h]
  /\ RowKept(g) /\ NumberKept(g)
  /\ pc[g] = "insert" => record'[idx[g]] # "none"
  /\ pc'[g] # "undo"
  /\ pc'[g] \in {"add", "park"} => idx'[g] = idx[g] /\ record'[idx[g]] # "none"

LEMMA HeldStays ==
  ASSUME Base, NEW g, Keeps(g), NEW i \in Index, Held(i)
  PROVE  Held(i)'
<1>1. record \in [Index -> {"none", "skipped", "success"}]
  BY DEF Base, DepositTypeOK
<1>2. CASE Recorded(i)
  <2>1. CASE /\ g \in Replays /\ idx[g] \in Index
             /\ record' = Deleted(idx[g]) /\ pc'[g] = "insert" /\ idx'[g] = idx[g]
    BY <1>1, <1>2, <2>1 DEF Deleted, Held, Recorded
  <2>2. CASE record' = record \/ \E status \in {"skipped", "success"} : record' = Inserted(idx[g], status)
    BY <1>1, <1>2, <2>2 DEF Inserted, Held, Recorded
  <2> QED BY <2>1, <2>2 DEF Keeps, RowKept
<1>3. ASSUME NEW p \in Replays, pc[p] = "insert", idx[p] = i
      PROVE  Held(i)'
  <2>1. CASE p = g
    BY <1>3, <2>1 DEF Keeps, Held, Recorded
  <2>2. CASE p # g
    BY <1>3, <2>2 DEF Keeps, Held, Goroutines
  <2> QED BY <2>1, <2>2
<1> QED BY <1>2, <1>3 DEF Held

LEMMA KeptStep ==
  ASSUME KeptInv, Base', NEW g, Keeps(g)
  PROVE  KeptInv'
<1>t. Base /\ DepositTypeOK
  BY DEF KeptInv, Base
<1>h. \A i \in Index : Held(i) => Held(i)'
  BY <1>t, HeldStays
<1>r. \A i \in Index : record'[i] # "none" => Held(i)'
  BY DEF Held, Recorded
<1>1. ASSUME NEW i \in Index, NEW j \in Index, i < j, Recorded(j)'
      PROVE  Held(i)'
  <2>1. CASE Recorded(j)
    BY <1>1, <1>h, <2>1 DEF KeptInv
  <2>2. CASE ~Recorded(j)
    <3>1. pc[g] # "idle" /\ idx[g] = j
      BY <1>1, <1>t, <2>2 DEF Keeps, RowKept, Inserted, Deleted, Recorded, DepositTypeOK
    <3>2. Below(j)
      BY <3>1 DEF KeptInv, Keeps
    <3> QED BY <1>1, <1>h, <3>2 DEF Below
  <2> QED BY <2>1, <2>2
<1>2. ASSUME NEW h \in Goroutines
      PROVE  /\ pc'[h] # "idle" => Below(idx[h])'
             /\ pc'[h] \in {"add", "park"} => Held(idx[h])'
             /\ pc'[h] # "undo"
  <2>b. \A n \in Int : Below(n) => \A i \in Index : i < n => Held(i)'
    BY <1>h DEF Below
  <2>1. CASE h # g
    <3>1. pc'[h] = pc[h] /\ idx'[h] = idx[h]
      BY <2>1 DEF Keeps
    <3>2. pc'[h] # "idle" => Below(idx[h])'
      BY <1>h, <3>1 DEF KeptInv, Below
    <3>3. pc'[h] \in {"add", "park"} => Held(idx[h])'
      <4> SUFFICES ASSUME pc'[h] \in {"add", "park"} PROVE Held(idx[h])'
        OBVIOUS
      <4>1. PICK i \in Index : i = idx[h]
        BY <1>t, <3>1 DEF Base, Placed
      <4>2. Held(i)'
        BY <1>h, <3>1, <4>1 DEF KeptInv
      <4> QED BY <3>1, <4>1, <4>2 DEF Held, Recorded
    <3> QED BY <3>1, <3>2, <3>3 DEF KeptInv
  <2>2. CASE h = g
    <3>1. pc'[g] # "idle" => Below(idx[g])'
      <4> SUFFICES ASSUME pc'[g] # "idle", NEW i \in Index, i < idx'[g] PROVE Held(i)'
        BY DEF Below
      <4>1. CASE pc[g] # "idle" /\ idx'[g] = idx[g]
        BY <1>h, <4>1 DEF KeptInv, Keeps, Below
      <4>2. CASE /\ pc[g] # "idle" /\ idx[g] \in Index /\ idx'[g] = idx[g] + 1
                 /\ Held(idx[g]) \/ record'[idx[g]] # "none"
        <5>1. i < idx[g] \/ i = idx[g]
          BY <4>2 DEF Index
        <5>2. CASE i < idx[g]
          BY <1>h, <4>2, <5>2 DEF KeptInv, Keeps, Below
        <5>3. CASE i = idx[g]
          BY <1>h, <1>r, <4>2, <5>3
        <5> QED BY <5>1, <5>2, <5>3
      <4>3. CASE Below(idx'[g])
        BY <1>h, <4>3 DEF Below
      <4> QED BY <4>1, <4>2, <4>3 DEF Keeps, NumberKept
    <3>2. pc'[g] \in {"add", "park"} => Held(idx[g])'
      BY DEF Keeps, Held, Recorded
    <3> QED BY <2>2, <3>1, <3>2 DEF Keeps
  <2> QED BY <2>1, <2>2
<1> QED BY <1>1, <1>2 DEF KeptInv

(* A goroutine that is done with its number, which has a row now. *)
LEMMA AdvanceKeeps ==
  ASSUME KeptInv, NEW g \in Goroutines, Advance(g), pc[g] \notin {"idle", "length"},
         Held(idx[g]) \/ record'[idx[g]] # "none", RowKept(g),
         pc[g] = "insert" => record'[idx[g]] # "none"
  PROVE  Keeps(g)
<1>1. DepositTypeOK /\ idx[g] \in Index
  BY DEF KeptInv, Base, Placed
<1>2. CASE Stop(g)
  <2>1. pc'[g] = "idle" /\ \A h \in Goroutines \ {g} : pc'[h] = pc[h] /\ idx'[h] = idx[h]
    BY <1>1, <1>2 DEF Stop, Goto, DepositTypeOK
  <2> QED BY <2>1 DEF Keeps, NumberKept
<1>3. CASE /\ idx' = [idx EXCEPT ![g] = @ + 1]
           /\ Goto(g, IF idx[g] = last[g] THEN "fetch" ELSE "each")
  <2>1. /\ pc'[g] \in {"fetch", "each"} /\ idx'[g] = idx[g] + 1
        /\ \A h \in Goroutines \ {g} : pc'[h] = pc[h] /\ idx'[h] = idx[h]
    BY <1>1, <1>3 DEF Goto, DepositTypeOK
  <2> QED BY <1>1, <2>1 DEF Keeps, NumberKept
<1> QED BY <1>2, <1>3 DEF Advance

LEMMA PullKeeps ==
  ASSUME KeptInv, NEW g \in Goroutines, StartRound(g) \/ Pull(g)
  PROVE  Keeps(g)
<1>t. DepositTypeOK /\ Placed
  BY DEF KeptInv, Base
<1>1. CASE StartRound(g)
  <2>1. PICK c \in Index \cup {-1} : IsCursor(c) /\ idx' = [idx EXCEPT ![g] = c + 1]
    BY <1>1 DEF StartRound, After
  <2>2. ASSUME NEW i \in Index, i < c + 1
        PROVE  Held(i)
    <3>1. c \in Index /\ Recorded(c)
      BY <2>1, <2>2 DEF IsCursor, Index
    <3>2. CASE i = c
      BY <3>1, <3>2 DEF Held
    <3>3. CASE i < c
      BY <3>1, <3>3 DEF KeptInv
    <3> QED BY <2>2, <3>1, <3>2, <3>3 DEF Index
  <2>3. Below(idx'[g])
    BY <1>t, <2>1, <2>2 DEF Below, DepositTypeOK
  <2> QED BY <1>1, <1>t, <2>1, <2>3 DEF StartRound, Goto, Keeps, RowKept, NumberKept, DepositTypeOK
<1>2. CASE ReadLength(g) \/ Fetch(g) \/ EndRound(g)
  <2>1. /\ record' = record /\ pc[g] \in {"length", "fetch", "each"}
        /\ \/ pc'[g] = "idle"
           \/ pc'[g] \in {"fetch", "each"} /\ idx'[g] = idx[g]
        /\ \A h \in Goroutines \ {g} : pc'[h] = pc[h] /\ idx'[h] = idx[h]
    BY <1>2, <1>t DEF ReadLength, Fetch, EndRound, Stop, Goto, DepositTypeOK
  <2> QED BY <2>1 DEF Keeps, RowKept, NumberKept
<1>3. CASE Skip(g)
  <2>1. /\ idx[g] \in Index /\ pc[g] = "each"
        /\ record' = Inserted(idx[g], "skipped") /\ Advance(g)
    BY <1>3, <1>t DEF Skip, Placed
  <2>2. record'[idx[g]] # "none"
    BY <1>t, <2>1 DEF Inserted, Recorded, DepositTypeOK
  <2> QED BY <2>1, <2>2, AdvanceKeeps DEF RowKept
<1> QED BY <1>1, <1>2, <1>3 DEF Pull

LEMMA CreditKeeps ==
  ASSUME ReplaysComplete, KeptInv, NEW g \in Goroutines, Crediting(g)
  PROVE  Keeps(g)
<1>t. DepositTypeOK /\ Placed
  BY DEF KeptInv, Base
<1>1. \/ Claim(g) \/ AddAccountBalance(g) \/ Park(g)
      \/ "lost" \in Faults /\ (ClaimFails(g) \/ ParkFails(g))
  BY DEF ReplaysComplete, KeptInv, Crediting, ClaimFails, AddFails, Undo, ParkFails
<1>2. idx[g] \in Index /\ pc[g] \notin {"idle", "length"}
  BY <1>1, <1>t DEF Claim, Credits, ClaimFails, AddAccountBalance, Park, ParkFails, Placed
<1>w. ASSUME NEW status \in {"skipped", "success"}, record' = Inserted(idx[g], status)
      PROVE  record'[idx[g]] # "none" /\ RowKept(g)
  BY <1>w, <1>2, <1>t DEF Inserted, Recorded, RowKept, DepositTypeOK
<1>3. CASE Claim(g)
  <2>1. record'[idx[g]] # "none" /\ RowKept(g)
    BY <1>3, <1>w DEF Claim
  <2>3. CASE Goto(g, "add") /\ idx' = idx
    <3>1. pc'[g] = "add" /\ \A h \in Goroutines \ {g} : pc'[h] = pc[h]
      BY <1>t, <2>3 DEF Goto, DepositTypeOK
    <3> QED BY <1>2, <2>1, <2>3, <3>1 DEF Keeps, NumberKept
  <2>4. CASE Advance(g)
    BY <1>2, <2>1, <2>4, AdvanceKeeps
  <2> QED BY <1>3, <2>3, <2>4 DEF Claim
<1>4. CASE AddAccountBalance(g)
  <2>1. pc[g] = "add" /\ record' = record /\ Advance(g) /\ Held(idx[g])
    BY <1>4 DEF AddAccountBalance, KeptInv
  <2> QED BY <2>1, AdvanceKeeps DEF RowKept
<1>5. CASE Park(g)
  <2>1. record'[idx[g]] # "none" /\ RowKept(g)
    BY <1>5, <1>w DEF Park
  <2> QED BY <1>2, <1>5, <2>1, AdvanceKeeps DEF Park
<1>6. CASE "lost" \in Faults /\ ClaimFails(g)
  <2>1. record' = Inserted(idx[g], IF Credits(g) THEN "success" ELSE "skipped")
    BY <1>6 DEF ClaimFails, ReplaysComplete
  <2>2. record'[idx[g]] # "none" /\ RowKept(g)
    BY <1>w, <2>1
  <2>3. pc'[g] = "park" /\ idx' = idx /\ \A h \in Goroutines \ {g} : pc'[h] = pc[h]
    BY <1>6, <1>t DEF ClaimFails, Goto, DepositTypeOK
  <2> QED BY <1>2, <2>2, <2>3 DEF Keeps, NumberKept
<1>7. CASE "lost" \in Faults /\ ParkFails(g)
  <2>1. pc[g] = "park" /\ record' = Inserted(idx[g], "skipped")
    BY <1>7 DEF ParkFails, ReplaysComplete
  <2>2. record'[idx[g]] # "none" /\ RowKept(g)
    BY <1>w, <2>1
  <2>3. pc'[g] = "idle" /\ \A h \in Goroutines \ {g} : pc'[h] = pc[h] /\ idx'[h] = idx[h]
    BY <1>7, <1>t DEF ParkFails, Stop, Goto, DepositTypeOK
  <2> QED BY <1>2, <2>1, <2>2, <2>3 DEF Keeps, NumberKept
<1> QED BY <1>1, <1>3, <1>4, <1>5, <1>6, <1>7

LEMMA ReplayKeeps ==
  ASSUME ReplaysComplete, KeptInv, NEW g \in Goroutines,
         (\E i \in Index : Replay(g, i)) \/ Replaying(g) \/ Crash(g)
  PROVE  Keeps(g)
<1>t. DepositTypeOK /\ Placed
  BY DEF KeptInv, Base
<1>1. ASSUME NEW i \in Index, Replay(g, i)
      PROVE  Keeps(g)
  <2>1. /\ pc[g] = "idle" /\ pc'[g] = "found" /\ idx'[g] = i /\ record' = record
        /\ \A h \in Goroutines \ {g} : pc'[h] = pc[h] /\ idx'[h] = idx[h]
    BY <1>1, <1>t DEF Replay, Goto, DepositTypeOK
  <2>2. Below(i)
    BY <1>1 DEF Replay, Replayable, KeptInv, Below, Recorded
  <2> QED BY <2>1, <2>2 DEF Keeps, RowKept, NumberKept
<1>2. CASE LookUp(g)
  <2>1. /\ pc[g] = "found" /\ record' = record
        /\ pc'[g] = "idle" \/ (pc'[g] = "delete" /\ idx'[g] = idx[g])
        /\ \A h \in Goroutines \ {g} : pc'[h] = pc[h] /\ idx'[h] = idx[h]
    BY <1>2, <1>t DEF LookUp, Stop, Goto, DepositTypeOK
  <2> QED BY <2>1 DEF Keeps, RowKept, NumberKept
<1>3. CASE Delete(g)
  <2>1. /\ pc[g] = "delete" /\ pc'[g] = "insert" /\ idx' = idx /\ record' = Deleted(idx[g])
        /\ g \in Replays /\ idx[g] \in Index
        /\ \A h \in Goroutines \ {g} : pc'[h] = pc[h]
    BY <1>3, <1>t DEF Delete, Goto, DepositTypeOK, Placed
  <2> QED BY <2>1 DEF Keeps, RowKept, NumberKept
<1>4. ~DeleteFails(g)
  <2>1. ASSUME DeleteFails(g) PROVE g \in Replays
    BY <1>t, <2>1 DEF DeleteFails, Placed
  <2> QED BY <2>1 DEF DeleteFails, ReplaysComplete
<1>5. CASE Crash(g)
  <2>1. g \notin Replays
    BY <1>5 DEF Crash, ReplaysComplete
  <2>2. pc[g] # "insert"
    BY <1>t, <2>1 DEF Placed
  <2>3. /\ pc'[g] = "idle" /\ record' = record
        /\ \A h \in Goroutines \ {g} : pc'[h] = pc[h] /\ idx'[h] = idx[h]
    BY <1>5, <1>t DEF Crash, Stop, Goto, DepositTypeOK
  <2> QED BY <2>2, <2>3 DEF Keeps, RowKept, NumberKept
<1> QED BY <1>1, <1>2, <1>3, <1>4, <1>5 DEF Replaying

LEMMA NextKept == ASSUME ReplaysComplete PROVE KeptInv /\ [Next]_vars => KeptInv'
<1> SUFFICES ASSUME KeptInv, [Next]_vars PROVE KeptInv'
  OBVIOUS
<1>b. Base'
  BY NextBase DEF KeptInv
<1>1. CASE \E g \in Pulls : StartRound(g)
  BY <1>1, <1>b, PullKeeps, KeptStep DEF Goroutines
<1>2. CASE \E p \in Replays, i \in Index : Replay(p, i)
  BY <1>2, <1>b, ReplayKeeps, KeptStep DEF Goroutines
<1>3. CASE \E g \in Goroutines : Pull(g) \/ Crediting(g) \/ Replaying(g) \/ Crash(g)
  BY <1>3, <1>b, PullKeeps, CreditKeeps, ReplayKeeps, KeptStep
<1>4. CASE Buy \/ (\E u \in Users : Register(u)) \/ UNCHANGED vars
  <2>1. UNCHANGED <<record, pc, idx>>
    BY <1>4 DEF Buy, Register, vars
  <2> QED BY <1>b, <2>1 DEF KeptInv, Held, Below, Recorded
<1> QED BY <1>1, <1>2, <1>3, <1>4 DEF Next

(* The cursor of GetEthUserRecordLast passes no deposit without a row.              *)
THEOREM NoneForgotten == ASSUME ReplaysComplete PROVE Spec => []NoDepositForgotten
<1>1. Init => KeptInv
  BY InitBase DEF Init, KeptInv, Recorded, Held, Below
<1>2. KeptInv /\ [Next]_vars => KeptInv'
  BY NextKept
<1>3. KeptInv => NoDepositForgotten
  BY DEF KeptInv, NoDepositForgotten, Forgotten, Held
<1> QED BY <1>1, <1>2, <1>3, PTL DEF Spec
=============================================================================
