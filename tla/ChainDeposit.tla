---------------------------- MODULE ChainDeposit ----------------------------
(***************************************************************************)
(* Crediting on-chain deposits (service/deposit.go, the chain deposits of  *)
(* biz/record.go, data/eth_record.go).  The deposit contract numbers the   *)
(* deposits; eth_user_record holds at most one row per number, and the     *)
(* largest number with a row is the cursor.  A pulling goroutine (the cron,*)
(* an admin) walks on from the cursor; a replaying goroutine (an admin)    *)
(* turns one skipped row into a credited one.  None holds a lock or a      *)
(* transaction, and several processes may pull at once (ADR 0027): every   *)
(* action below is one statement, one chain call or one read.              *)
(*                                                                         *)
(* A deposit's amount and depositor never change on the chain.  A balance  *)
(* is represented by what was added to it: credited[i] counts how often    *)
(* deposit i was added to its depositor's account balance.  The ledger,    *)
(* the skip reason and the counts of the answer decide nothing.            *)
(*                                                                         *)
(* Kinds of failure: "crash" ends a goroutine between any two steps (of    *)
(* several processes, each may end alone); "sql" is a statement that fails *)
(* without effect; "lost" is a write of eth_user_record that takes effect  *)
(* while its caller sees an error, "answer" the same of a balance update;  *)
(* "rpc" is a failing chain call.                                          *)
(***************************************************************************)
EXTENDS Integers, FiniteSets

CONSTANTS
  Users,       \* depositors, registered or not
  MaxLength,   \* bound: the deposits the contract receives
  Amounts,     \* amounts deposited
  MinAmount,   \* MinChainDepositAmount
  Chunk,       \* chainDepositChunk: deposits read at once
  Pulls,       \* pulling goroutines
  CronPulls,   \* those of a deposit cron: one per process, its busy flag
  Replays,     \* replaying goroutines
  Faults       \* kinds of failure this environment can produce

ASSUME DepositAssumption ==
  /\ MaxLength \in Nat /\ MinAmount \in Nat /\ Amounts \subseteq Nat
  /\ Chunk \in Nat \ {0}
  /\ CronPulls \subseteq Pulls
  /\ Pulls \cap Replays = {}

VARIABLES
  chain,       \* the contract's deposits, those still to come included
  length,      \* getUserLength: how many have come
  registered,  \* users the users table knows
  record,      \* eth_user_record: the status of each number's row
  credited,    \* how often each deposit was added to a balance
  pc,          \* where each goroutine is
  idx,         \* the number a goroutine is at
  upto,        \* the contract length its round saw
  last,        \* the end of its batch
  known        \* the users its batch found registered

chainVars == <<chain, length>>
roundVars == <<upto, last, known>>
vars == <<chainVars, registered, record, credited, pc, idx, roundVars>>

Index == 0..(MaxLength - 1)
Goroutines == Pulls \cup Replays

Credit == {"add", "undo", "park"}
Steps  == {"idle", "length", "fetch", "each", "found", "delete", "insert"} \cup Credit

(* Mutation: an amount must exceed the minimum. *)
MoreThanEnough(i) == chain[i].amount > MinAmount

Enough(i) == chain[i].amount >= MinAmount

(* GetEthUserRecordLast: c is MAX(last), -1 of an empty table. *)
Recorded(i) == record[i] # "none"
IsCursor(c) == (c # -1 => Recorded(c)) /\ \A i \in Index : Recorded(i) => i <= c

Init ==
  /\ chain \in [Index -> [by : Users, amount : Amounts]]
  /\ length = 0
  /\ registered \in SUBSET Users
  /\ record = [i \in Index |-> "none"]
  /\ credited = [i \in Index |-> 0]
  /\ pc = [g \in Goroutines |-> "idle"]
  /\ idx = [g \in Goroutines |-> 0]
  /\ upto = [g \in Goroutines |-> 0]
  /\ last = [g \in Goroutines |-> 0]
  /\ known = [g \in Goroutines |-> {}]

Goto(g, label) == pc' = [pc EXCEPT ![g] = label]

(* The goroutine returns, and its variables are gone. *)
Stop(g) ==
  /\ Goto(g, "idle")
  /\ idx'   = [idx EXCEPT ![g] = 0]
  /\ upto'  = [upto EXCEPT ![g] = 0]
  /\ last'  = [last EXCEPT ![g] = 0]
  /\ known' = [known EXCEPT ![g] = {}]

-----------------------------------------------------------------------------
(* The environment: a deposit arrives, a user registers. *)

Buy ==
  /\ length < MaxLength
  /\ length' = length + 1
  /\ UNCHANGED <<chain, registered, record, credited, pc, idx, roundVars>>

Register(u) ==
  /\ u \notin registered
  /\ registered' = registered \cup {u}
  /\ UNCHANGED <<chainVars, record, credited, pc, idx, roundVars>>

-----------------------------------------------------------------------------
(* syncChainDeposits *)

(* Mutation: the walk starts one number too far. *)
TwoAfter(c) == c + 2

After(c) == c + 1

(* A round starts: read the cursor. *)
StartRound(g) ==
  /\ g \in Pulls
  /\ pc[g] = "idle"
  /\ \E c \in Index \cup {-1} :
       /\ IsCursor(c)
       /\ idx' = [idx EXCEPT ![g] = After(c)]
  /\ Goto(g, "length")
  /\ UNCHANGED <<chainVars, registered, record, credited, roundVars>>

ReadLength(g) ==
  /\ pc[g] = "length"
  /\ \/ /\ idx[g] < length
        /\ upto' = [upto EXCEPT ![g] = length]
        /\ Goto(g, "fetch")
        /\ UNCHANGED <<idx, last, known>>
     \/ idx[g] >= length /\ Stop(g)
  /\ UNCHANGED <<chainVars, registered, record, credited>>

(* A batch: its end, and which depositors are registered now.  A failed read of a *)
(* user counts as not registered.                                                 *)
Fetch(g) ==
  /\ pc[g] = "fetch"
  /\ last' = [last EXCEPT ![g] = IF idx[g] + Chunk < upto[g] THEN idx[g] + Chunk - 1 ELSE upto[g] - 1]
  /\ \E found \in SUBSET registered :
       /\ found = registered \/ "sql" \in Faults
       /\ known' = [known EXCEPT ![g] = found]
  /\ Goto(g, "each")
  /\ UNCHANGED <<chainVars, registered, record, credited, idx, upto>>

(* The round ends early: its wall clock or index budget is used up, or a chain    *)
(* call or the read of the cursor failed.                                         *)
EndRound(g) ==
  /\ \/ pc[g] \in {"fetch", "each"}
     \/ "rpc" \in Faults /\ pc[g] = "length"
  /\ Stop(g)
  /\ UNCHANGED <<chainVars, registered, record, credited>>

(* g is done with its number: a pull goes on to the next one, a replay ends. *)
Advance(g) ==
  \/ g \in Replays /\ Stop(g)
  \/ g \in Pulls /\ idx[g] + 1 = upto[g] /\ Stop(g)
  \/ /\ g \in Pulls /\ idx[g] + 1 # upto[g]
     /\ idx' = [idx EXCEPT ![g] = @ + 1]
     /\ Goto(g, IF idx[g] = last[g] THEN "fetch" ELSE "each")
     /\ UNCHANGED roundVars

(* Mutation: no UNIQUE(last), the later row wins. *)
Overwritten(i, status) == [record EXCEPT ![i] = status]

(* CreateEthUserRecordListByHash: INSERT under UNIQUE(last). *)
Inserted(i, status) == IF Recorded(i) THEN record ELSE [record EXCEPT ![i] = status]

(* Mutation: the amount is not looked at. *)
SkipsStrangers(g) == chain[idx[g]].by \notin known[g]

(* A depositor without an account, or too small an amount. *)
Skips(g) == chain[idx[g]].by \notin known[g] \/ ~Enough(idx[g])

(* ClaimChainDepositSkip; a row that is there already will do. *)
Skip(g) ==
  /\ pc[g] = "each"
  /\ Skips(g)
  /\ record' = Inserted(idx[g], "skipped")
  /\ Advance(g)
  /\ UNCHANGED <<chainVars, registered, credited>>

-----------------------------------------------------------------------------
(* CreditChainDeposit, of a pull or a replay: claim the number, add the balance. *)

Credits(g) == pc[g] = "insert" \/ (pc[g] = "each" /\ ~Skips(g))

Claim(g) ==
  /\ Credits(g)
  /\ record' = Inserted(idx[g], "success")
  /\ \/ ~Recorded(idx[g]) /\ Goto(g, "add") /\ UNCHANGED <<idx, roundVars>>
     \/ Recorded(idx[g]) /\ Advance(g)
  /\ UNCHANGED <<chainVars, registered, credited>>

(* The INSERT, of either kind, failed or its answer was lost. *)
ClaimFails(g) ==
  /\ pc[g] \in {"each", "insert"}
  /\ \/ "sql" \in Faults /\ UNCHANGED record
     \/ "lost" \in Faults /\ record' = Inserted(idx[g], IF Credits(g) THEN "success" ELSE "skipped")
  /\ Goto(g, "park")
  /\ UNCHANGED <<chainVars, registered, credited, idx, roundVars>>

AddAccountBalance(g) ==
  /\ pc[g] = "add"
  /\ credited' = [credited EXCEPT ![idx[g]] = @ + 1]
  /\ Advance(g)
  /\ UNCHANGED <<chainVars, registered, record>>

AddFails(g) ==
  /\ pc[g] = "add"
  /\ \/ "sql" \in Faults /\ UNCHANGED credited
     \/ "answer" \in Faults /\ credited' = [credited EXCEPT ![idx[g]] = @ + 1]
  /\ Goto(g, "undo")
  /\ UNCHANGED <<chainVars, registered, record, idx, roundVars>>

(* DeleteByLast gives the number back; its error is ignored. *)
Deleted(i) == [record EXCEPT ![i] = "none"]

Undo(g) ==
  /\ pc[g] = "undo"
  /\ record' = Deleted(idx[g]) \/ ("sql" \in Faults /\ UNCHANGED record)
  /\ Goto(g, "park")
  /\ UNCHANGED <<chainVars, registered, credited, idx, roundVars>>

(* After a failure: mark the number skipped, so that neither the round nor a later *)
(* replay is stuck on it.                                                          *)
Park(g) ==
  /\ pc[g] = "park"
  /\ record' = Inserted(idx[g], "skipped")
  /\ Advance(g)
  /\ UNCHANGED <<chainVars, registered, credited>>

(* Not even that succeeded: the round, or the replay, ends. *)
ParkFails(g) ==
  /\ pc[g] = "park"
  /\ \/ "sql" \in Faults /\ UNCHANGED record
     \/ "lost" \in Faults /\ record' = Inserted(idx[g], "skipped")
  /\ Stop(g)
  /\ UNCHANGED <<chainVars, registered, credited>>

-----------------------------------------------------------------------------
(* ReplaySkippedChainDeposit *)

(* Mutation: success rows are taken too. *)
ReplayableAny(i) == Recorded(i)

Replayable(i) == record[i] = "skipped"

(* GetByLast; a row that is not skipped, or too small an amount, ends the call. *)
Replay(p, i) ==
  /\ p \in Replays
  /\ pc[p] = "idle"
  /\ i < length
  /\ Replayable(i) /\ Enough(i)
  /\ idx' = [idx EXCEPT ![p] = i]
  /\ Goto(p, "found")
  /\ UNCHANGED <<chainVars, registered, record, credited, roundVars>>

(* The depositor must be registered by now. *)
LookUp(p) ==
  /\ pc[p] = "found"
  /\ \/ chain[idx[p]].by \in registered /\ Goto(p, "delete") /\ UNCHANGED <<idx, roundVars>>
     \/ chain[idx[p]].by \notin registered /\ Stop(p)
  /\ UNCHANGED <<chainVars, registered, record, credited>>

(* DeleteByLast: by number alone, whatever the row has become. *)
Delete(p) ==
  /\ pc[p] = "delete"
  /\ record' = Deleted(idx[p])
  /\ Goto(p, "insert")
  /\ UNCHANGED <<chainVars, registered, credited, idx, roundVars>>

DeleteFails(p) ==
  /\ pc[p] \in {"found", "delete"}
  /\ \/ "sql" \in Faults /\ UNCHANGED record
     \/ "lost" \in Faults /\ pc[p] = "delete" /\ record' = Deleted(idx[p])
  /\ Stop(p)
  /\ UNCHANGED <<chainVars, registered, credited>>

-----------------------------------------------------------------------------
Crash(g) ==
  /\ "crash" \in Faults
  /\ pc[g] # "idle"
  /\ Stop(g)
  /\ UNCHANGED <<chainVars, registered, record, credited>>

Pull(g) == ReadLength(g) \/ Fetch(g) \/ EndRound(g) \/ Skip(g)

Crediting(g) ==
  Claim(g) \/ ClaimFails(g) \/ AddAccountBalance(g) \/ AddFails(g) \/ Undo(g) \/ Park(g) \/ ParkFails(g)

Replaying(p) == LookUp(p) \/ Delete(p) \/ DeleteFails(p)

Next ==
  \/ Buy
  \/ \E u \in Users : Register(u)
  \/ \E g \in Pulls : StartRound(g)
  \/ \E p \in Replays, i \in Index : Replay(p, i)
  \/ \E g \in Goroutines : Pull(g) \/ Crediting(g) \/ Replaying(g) \/ Crash(g)

Spec == Init /\ [][Next]_vars

(* The cron keeps starting rounds; again and again a node can be reached and a    *)
(* round gets on before its wall clock is up; a claimed deposit is added without a *)
(* deadline in between.  Admins, users and the chain owe nothing.                 *)
Fairness ==
  /\ \A g \in CronPulls :
       WF_vars(StartRound(g)) /\ SF_vars(ReadLength(g)) /\ SF_vars(Fetch(g)) /\ SF_vars(Skip(g) \/ Claim(g))
  /\ \A g \in Goroutines : WF_vars(AddAccountBalance(g))

FairSpec == Spec /\ Fairness

-----------------------------------------------------------------------------
(* Properties *)

(* Types of the contract, the eth_user_record rows and the goroutines' states.    *)
DepositTypeOK ==
  /\ chain \in [Index -> [by : Users, amount : Amounts]]
  /\ length \in 0..MaxLength
  /\ registered \subseteq Users
  /\ record \in [Index -> {"none", "skipped", "success"}]
  /\ credited \in [Index -> Nat]
  /\ pc \in [Goroutines -> Steps]
  /\ idx \in [Goroutines -> 0..MaxLength]
  /\ upto \in [Goroutines -> 0..MaxLength]
  /\ last \in [Goroutines -> 0..MaxLength]
  /\ known \in [Goroutines -> SUBSET Users]

(* ADR 0007 and 0027: UNIQUE(last) makes pulling idempotent; however many pulls    *)
(* overlap each other and a replay, die or see statements fail, no deposit is      *)
(* added to a balance twice.                                                       *)
CreditedOnce == \A i \in Index : credited[i] <= 1

(* A deposit that was added to a balance has a success row, and keeps it: neither  *)
(* the undo of another goroutine nor a replay takes the row away.                  *)
CreditedIsRecorded == \A i \in Index : credited[i] > 0 => record[i] = "success"

(* What a row of eth_user_record and the depositor's balance say of a deposit. *)
Stage(i) ==
  IF record[i] = "success" THEN IF credited[i] = 1 THEN "credited" ELSE "claimed"
  ELSE IF record[i] = "skipped" THEN "skipped" ELSE "open"

Abstract == INSTANCE DepositOnce WITH stage <- [i \in Index |-> Stage(i)]

(* Refinement: the goroutines, cursors and batches of deposit.go and the rows of   *)
(* eth_user_record implement DepositOnce: who is checked when a batch is read is   *)
(* still entitled when he is credited, and a credited deposit stays credited.      *)
ImplementsDepositOnce == Abstract!Spec

(* ADR 0007, "one row per contract number": the cursor never moves past a deposit  *)
(* that has no row, unless a replay has it in hand; such a deposit would neither   *)
(* be pulled again nor be replayable.                                              *)
Forgotten(i) ==
  /\ ~Recorded(i)
  /\ \E j \in Index : i < j /\ Recorded(j)
  /\ \A p \in Replays : ~(pc[p] = "insert" /\ idx[p] = i)

NoDepositForgotten == \A i \in Index : ~Forgotten(i)

(* Section "chain deposits" of CONTEXT.md: a deposit of at least MinAmount whose   *)
(* depositor registered before it came is credited in the end, through rounds that *)
(* run out of time and nodes that fail.                                            *)
RegisteredIsCredited ==
  \A i \in Index :
    []((i >= length /\ chain[i].by \in registered /\ chain[i].amount >= MinAmount)
         => [](i < length => <>(credited[i] = 1)))
=============================================================================
