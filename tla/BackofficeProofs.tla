--------------------------- MODULE BackofficeProofs ---------------------------
(***************************************************************************)
(* Theorems about Levels, Balances, Params, Reports and Rules, for every   *)
(* set of users, of requests, of processes, of parameters, of rows and     *)
(* readers, and for every chain of inviters.                               *)
(***************************************************************************)
EXTENDS MCBackoffice, AccountsProofs

-----------------------------------------------------------------------------
(* Levels *)

LEMMA LevelsTypes == LevelsSpec => []LevelsTypeOK
<1>1. LevelsInit => LevelsTypeOK
  BY LevelsAssumption DEF LevelsInit, LevelsTypeOK, MemberRow, RefreshState, LevelRange, NoLevel, NoRefresh
<1>2. ASSUME LevelsTypeOK, [LevelsNext]_levelVars PROVE LevelsTypeOK'
  <2>1. ASSUME NEW u \in Members, NEW level, SetVIP(u, level) PROVE LevelsTypeOK'
    <3> DEFINE row == [level |-> level, locked |-> TRUE]
    <3>1. level \in LevelRange /\ row \in MemberRow
      BY <2>1 DEF SetVIP, MemberRow
    <3>2. member' = [member EXCEPT ![u] = row]
      BY <2>1 DEF SetVIP
    <3> HIDE DEF row
    <3> QED
      BY <1>2, <2>1, <3>1, <3>2 DEF SetVIP, LevelsTypeOK
  <2>2. ASSUME NEW u \in Members, UnlockVIP(u) PROVE LevelsTypeOK'
    BY <2>2, <1>2 DEF UnlockVIP, LevelsTypeOK, MemberRow
  <2>3. ASSUME NEW s \in Refreshers, ListAll(s) PROVE LevelsTypeOK'
    <3> DEFINE new == [pc |-> "write", todo |-> Members, unlocked |-> {u \in Members : ~member[u].locked}]
    <3>1. new \in RefreshState
      BY DEF RefreshState
    <3>2. refresh' = [refresh EXCEPT ![s] = new]
      BY <2>3 DEF ListAll
    <3> HIDE DEF new
    <3> QED
      BY <2>3, <1>2, <3>1, <3>2 DEF ListAll, LevelsTypeOK
  <2>4. ASSUME NEW s \in Refreshers, EndRefresh(s) PROVE LevelsTypeOK'
    <3>1. NoRefresh \in RefreshState
      BY DEF NoRefresh, RefreshState
    <3> QED
      BY <2>4, <1>2, <3>1 DEF EndRefresh, LevelsTypeOK
  <2>5. ASSUME NEW s \in Refreshers, NEW u \in Members, NEW level \in LevelRange, UpdateCommunity(s, u, level)
        PROVE  LevelsTypeOK'
    <3> DEFINE new == [refresh[s] EXCEPT !.todo = @ \ {u}]
               row == [member[u] EXCEPT !.level = level]
    <3>1. new \in RefreshState /\ row \in MemberRow
      BY <1>2 DEF RefreshState, LevelsTypeOK, MemberRow
    <3>2. /\ refresh' = [refresh EXCEPT ![s] = new]
          /\ member' = IF u \in refresh[s].unlocked THEN [member EXCEPT ![u] = row] ELSE member
      BY <2>5 DEF UpdateCommunity
    <3> HIDE DEF new, row
    <3> QED
      BY <2>5, <1>2, <3>1, <3>2 DEF UpdateCommunity, LevelsTypeOK
  <2>6. CASE UNCHANGED levelVars
    BY <1>2, <2>6 DEF levelVars, LevelsTypeOK
  <2> QED
    BY <1>2, <2>1, <2>2, <2>3, <2>4, <2>5, <2>6
    DEF LevelsNext, CompatAdminVIPUnlock, CompatAdminVIPUpdate
<1> QED
  BY <1>1, <1>2, PTL DEF LevelsSpec

\* What keeps a granted level: no settlement is about to overwrite it.
StaysInv ==
  \A u \in Members \ raced :
    granted[u] # NoLevel => member[u] = [level |-> granted[u], locked |-> TRUE] /\ ~Overwriting(u)

\* A level an administrator has given stays until he changes or unlocks it.
THEOREM GrantedLevelsStay == LevelsSpec => []GrantedLevelStays
<1>1. LevelsInit => StaysInv
  BY DEF LevelsInit, StaysInv
<1>2. ASSUME LevelsTypeOK, StaysInv, [LevelsNext]_levelVars PROVE StaysInv'
  <2>1. ASSUME NEW u \in Members, NEW level, SetVIP(u, level) PROVE StaysInv'
    <3>1. \A w : Overwriting(w)' <=> Overwriting(w)
      BY <2>1 DEF SetVIP, Overwriting
    <3> QED
      BY <1>2, <2>1, <3>1 DEF SetVIP, StaysInv, LevelsTypeOK
  <2>2. ASSUME NEW u \in Members, UnlockVIP(u) PROVE StaysInv'
    <3>1. \A w : Overwriting(w)' <=> Overwriting(w)
      BY <2>2 DEF UnlockVIP, Overwriting
    <3> QED
      BY <1>2, <2>2, <3>1 DEF UnlockVIP, StaysInv, LevelsTypeOK
  <2>3. ASSUME NEW s \in Refreshers, ListAll(s) PROVE StaysInv'
    <3> SUFFICES ASSUME NEW u \in Members \ raced, granted[u] # NoLevel
                 PROVE  member[u] = [level |-> granted[u], locked |-> TRUE] /\ ~Overwriting(u)'
      BY <2>3 DEF ListAll, StaysInv
    <3>1. member[u] = [level |-> granted[u], locked |-> TRUE] /\ ~Overwriting(u) /\ member[u].locked
      BY <1>2 DEF StaysInv
    <3>2. /\ \A t \in Refreshers \ {s} : refresh'[t] = refresh[t]
          /\ refresh'[s].unlocked = {w \in Members : ~member[w].locked}
      BY <1>2, <2>3 DEF ListAll, LevelsTypeOK
    <3> QED
      BY <3>1, <3>2 DEF Overwriting
  <2>4. ASSUME NEW s \in Refreshers, EndRefresh(s) PROVE StaysInv'
    <3>1. /\ \A t \in Refreshers \ {s} : refresh'[t] = refresh[t]
          /\ refresh'[s].todo = {}
      BY <1>2, <2>4 DEF EndRefresh, LevelsTypeOK, NoRefresh
    <3>2. \A w : Overwriting(w)' => Overwriting(w)
      BY <3>1 DEF Overwriting
    <3> QED
      BY <1>2, <2>4, <3>2 DEF EndRefresh, StaysInv
  <2>5. ASSUME NEW s \in Refreshers, NEW u \in Members, NEW level \in LevelRange, UpdateCommunity(s, u, level)
        PROVE  StaysInv'
    <3>1. /\ \A t \in Refreshers \ {s} : refresh'[t] = refresh[t]
          /\ refresh'[s].todo = refresh[s].todo \ {u} /\ refresh'[s].unlocked = refresh[s].unlocked
      BY <1>2, <2>5 DEF UpdateCommunity, LevelsTypeOK, RefreshState
    <3>2. \A w : Overwriting(w)' => Overwriting(w)
      BY <3>1 DEF Overwriting
    <3>3. u \in refresh[s].unlocked => Overwriting(u)
      BY <2>5 DEF UpdateCommunity, Overwriting
    <3>4. \A w \in Members : w # u => member'[w] = member[w]
      BY <1>2, <2>5 DEF UpdateCommunity, LevelsTypeOK
    <3>5. ~Overwriting(u) => member' = member
      BY <2>5, <3>3 DEF UpdateCommunity
    <3> QED
      BY <1>2, <2>5, <3>2, <3>4, <3>5 DEF UpdateCommunity, StaysInv
  <2>6. CASE UNCHANGED levelVars
    BY <1>2, <2>6 DEF levelVars, StaysInv, Overwriting
  <2> QED
    BY <1>2, <2>1, <2>2, <2>3, <2>4, <2>5, <2>6
    DEF LevelsNext, CompatAdminVIPUnlock, CompatAdminVIPUpdate
<1>3. StaysInv => GrantedLevelStays
  BY DEF StaysInv, GrantedLevelStays
<1> QED
  BY <1>1, <1>2, <1>3, LevelsTypes, PTL DEF LevelsSpec

-----------------------------------------------------------------------------
(* Balances *)

\* What a request at the desk may still do to its balance.
DeskInv ==
  /\ \A d \in Desks : desk[d].pc \in {"add", "set"} => desk[d].amount >= 0
  /\ NonNegative

LEMMA AtDeskTypes ==
  ASSUME NEW pc \in {"idle", "add", "set", "book"}, NEW p \in Pots, NEW amount \in Int, NEW before \in Int
  PROVE  /\ AtDesk(pc, p, amount, before) \in DeskState
         /\ AtDesk(pc, p, amount, before).pc = pc /\ AtDesk(pc, p, amount, before).amount = amount
BY DEF AtDesk, DeskState

LEMMA IdleDesk == NoRequest \in DeskState /\ NoRequest.pc = "idle"
<1>1. (CHOOSE u \in Holders : TRUE) \in Holders
  BY BalancesAssumption
<1>2. <<CHOOSE u \in Holders : TRUE, "account">> \in Pots
  BY <1>1 DEF Pots, Columns
<1> QED
  BY <1>2 DEF NoRequest, AtDesk, DeskState

LEMMA BookState ==
  ASSUME NEW s \in DeskState
  PROVE  [s EXCEPT !.pc = "book"] \in DeskState /\ [s EXCEPT !.pc = "book"].pc = "book"
BY DEF DeskState

\* The requests of the console.
Arrivals(d) ==
  \E u \in Holders, amount \in Sums :
    \/ AdminRecharge(d, u, amount) \/ CompatAdminDeposit(d, u, amount)
    \/ CompatAdminAddMoneyTwo(d, u, amount) \/ CompatAdminAddMoneyThree(d, u, amount)

\* A request arrives with an amount that fits what it does.
LEMMA ArrivalMoves ==
  ASSUME BalancesTypeOK, NEW d \in Desks, Arrivals(d)
  PROVE  /\ UNCHANGED <<balance, booked, spent, lost, mixed, unbooked>> /\ made' \in 0..MaxRequests
         /\ \E pc \in {"add", "set"}, p \in Pots, amount \in Int, before \in Int :
              amount >= 0 /\ desk' = [desk EXCEPT ![d] = AtDesk(pc, p, amount, before)]
<1>1. PICK u \in Holders, amount \in Sums :
        \/ AdminRecharge(d, u, amount) \/ CompatAdminDeposit(d, u, amount)
        \/ CompatAdminAddMoneyTwo(d, u, amount) \/ CompatAdminAddMoneyThree(d, u, amount)
  BY DEF Arrivals
<1>2. PICK p \in Pots : Parsed(amount) /\ (Deposit(d, p, amount) \/ SetBalanceAbsolute(d, p, amount))
  BY <1>1 DEF AdminRecharge, CompatAdminDeposit, CompatAdminAddMoneyTwo, CompatAdminAddMoneyThree, Pots, Columns
<1>3. amount \in Int /\ made' \in 0..MaxRequests
  BY <1>2, BalancesAssumption DEF Parsed, Deposit, SetBalanceAbsolute, Arrive, BalancesTypeOK
<1>4. CASE Deposit(d, p, amount)
  <2>1. /\ UNCHANGED <<balance, booked, spent, lost, mixed, unbooked>>
        /\ amount >= 0 /\ desk' = [desk EXCEPT ![d] = AtDesk("add", p, amount, 0)]
    BY <1>3, <1>4 DEF Deposit
  <2>2. \E pc \in {"add", "set"}, q \in Pots, sum \in Int, before \in Int :
          sum >= 0 /\ desk' = [desk EXCEPT ![d] = AtDesk(pc, q, sum, before)]
    <3>1. "add" \in {"add", "set"} /\ 0 \in Int /\ amount \in Int
      BY <1>3
    <3> USE <3>1
    <3> WITNESS "add" \in {"add", "set"}, p \in Pots, amount \in Int, 0 \in Int
    <3> QED
      BY <2>1
  <2> QED
    BY <1>3, <2>1, <2>2
<1>5. CASE SetBalanceAbsolute(d, p, amount)
  <2>1. balance[p] \in Int
    BY DEF BalancesTypeOK
  <2> QED
    BY <1>3, <1>5, <2>1 DEF SetBalanceAbsolute
<1> QED
  BY <1>2, <1>4, <1>5

LEMMA StepBalances ==
  ASSUME BalancesTypeOK, DeskInv, [BalancesNext]_balanceVars PROVE BalancesTypeOK' /\ DeskInv'
<1>0. /\ balance \in [Pots -> Int] /\ booked \in [Pots -> Int] /\ spent \in [Pots -> Int]
      /\ desk \in [Desks -> DeskState] /\ \A d \in Desks : desk[d].pot \in Pots /\ desk[d].amount \in Int /\ desk[d].before \in Int
  BY DEF BalancesTypeOK, DeskState
<1>1. ASSUME NEW d \in Desks, Arrivals(d) PROVE BalancesTypeOK' /\ DeskInv'
  <2>1. PICK pc \in {"add", "set"}, p \in Pots, amount \in Int, before \in Int :
          amount >= 0 /\ desk' = [desk EXCEPT ![d] = AtDesk(pc, p, amount, before)]
    BY <1>1, ArrivalMoves
  <2>2. /\ AtDesk(pc, p, amount, before) \in DeskState /\ AtDesk(pc, p, amount, before).amount = amount
    BY <2>1, AtDeskTypes
  <2>3. UNCHANGED <<balance, booked, spent, lost, mixed, unbooked>> /\ made' \in 0..MaxRequests
    BY <1>1, ArrivalMoves
  <2>4. BalancesTypeOK'
    BY <2>1, <2>2, <2>3 DEF BalancesTypeOK
  <2> QED
    BY <1>0, <2>1, <2>2, <2>3, <2>4 DEF DeskInv, NonNegative
<1>2. ASSUME NEW d \in Desks, Credit(d) \/ WriteTarget(d) PROVE BalancesTypeOK' /\ DeskInv'
  <2> DEFINE p == desk[d].pot
             booking == [desk[d] EXCEPT !.pc = "book"]
  <2>1. booking \in DeskState /\ booking.pc = "book"
    BY <1>0, BookState
  <2>2. desk' = [desk EXCEPT ![d] = booking] /\ UNCHANGED <<booked, spent, made, lost, unbooked>>
    BY <1>2 DEF Credit, WriteTarget
  <2> HIDE DEF booking
  <2>3. PICK new \in Int : new >= 0 /\ balance' = [balance EXCEPT ![p] = new]
    <3>1. desk[d].amount >= 0 /\ p \in Pots /\ balance[p] >= 0 /\ balance[p] \in Int /\ desk[d].amount \in Int
      BY <1>0, <1>2 DEF DeskInv, NonNegative, Credit, WriteTarget
    <3>2. CASE Credit(d)
      <4>1. balance[p] + desk[d].amount \in Int /\ balance[p] + desk[d].amount >= 0
        BY <3>1
      <4> QED
        BY <3>2, <4>1 DEF Credit, AddBalance
    <3>3. CASE WriteTarget(d)
      BY <3>1, <3>3 DEF WriteTarget, SetBalance
    <3> QED
      BY <1>2, <3>2, <3>3
  <2>4. mixed' \subseteq Pots
    BY <1>0, <1>2 DEF Credit, WriteTarget, BalancesTypeOK
  <2>5. balance' \in [Pots -> Int] /\ NonNegative'
    BY <1>0, <2>3 DEF DeskInv, NonNegative
  <2>6. desk' \in [Desks -> DeskState] /\ \A e \in Desks : desk'[e].pc \in {"add", "set"} => desk'[e].amount >= 0
    BY <1>0, <2>1, <2>2 DEF DeskInv
  <2> QED
    BY <2>2, <2>4, <2>5, <2>6 DEF BalancesTypeOK, DeskInv
<1>3. ASSUME NEW d \in Desks, Book(d) \/ NotBooked(d) PROVE BalancesTypeOK' /\ DeskInv'
  <2>1. desk' = [desk EXCEPT ![d] = NoRequest] /\ UNCHANGED <<balance, spent, made, mixed>>
    BY <1>3 DEF Book, NotBooked
  <2>2. booked' \in [Pots -> Int]
    <3>1. Difference(d) \in Int /\ desk[d].pot \in Pots
      BY <1>0 DEF Difference
    <3> QED
      BY <1>0, <1>3, <3>1 DEF Book, NotBooked
  <2>3. lost' \in 0..MaxLost
    BY <1>3, BalancesAssumption DEF Book, NotBooked, BalancesTypeOK
  <2>4. unbooked' \subseteq Pots
    BY <1>0, <1>3 DEF Book, NotBooked, BalancesTypeOK
  <2>5. desk' \in [Desks -> DeskState] /\ \A e \in Desks : desk'[e].pc \in {"add", "set"} => desk'[e].amount >= 0
    BY <1>0, <2>1, IdleDesk DEF DeskInv
  <2> QED
    BY <2>1, <2>2, <2>3, <2>4, <2>5 DEF BalancesTypeOK, DeskInv, NonNegative
<1>4. ASSUME NEW p \in Pots, NEW amount \in Sums \ {NoSum}, Spend(p, amount) PROVE BalancesTypeOK' /\ DeskInv'
  <2>1. amount \in Int /\ balance[p] \in Int /\ balance[p] >= amount /\ spent[p] \in Int
    BY <1>0, <1>4, BalancesAssumption DEF Spend, SubBalance
  <2>2. balance' = [balance EXCEPT ![p] = @ - amount] /\ spent' = [spent EXCEPT ![p] = @ + amount]
        /\ UNCHANGED <<booked, desk, lost, mixed, unbooked>>
    BY <1>4 DEF Spend, SubBalance
  <2>3. made' \in 0..MaxRequests
    BY <1>4, BalancesAssumption DEF Spend, Arrive, BalancesTypeOK
  <2>4. balance' \in [Pots -> Int] /\ spent' \in [Pots -> Int] /\ NonNegative'
    BY <1>0, <2>1, <2>2 DEF DeskInv, NonNegative
  <2> QED
    BY <2>2, <2>3, <2>4 DEF BalancesTypeOK, DeskInv
<1>5. CASE UNCHANGED balanceVars
  BY <1>5 DEF balanceVars, BalancesTypeOK, DeskInv, NonNegative
<1> QED
  BY <1>1, <1>2, <1>3, <1>4, <1>5 DEF BalancesNext, Arrivals

\* No balance goes below zero, whatever requests and debits overlap.
THEOREM BalancesStayNonNegative == BalancesSpec => []NonNegative
<1>1. BalancesInit => BalancesTypeOK /\ DeskInv
  BY IdleDesk, BalancesAssumption DEF BalancesInit, BalancesTypeOK, DeskInv, NonNegative
<1>2. BalancesSpec => [](BalancesTypeOK /\ DeskInv)
  BY <1>1, StepBalances, PTL DEF BalancesSpec
<1> QED
  BY <1>2, PTL DEF DeskInv

-----------------------------------------------------------------------------
(* The ledger beside the balances *)

\* What the requests that have moved balance p have still to book for it.
Pending(p) ==
  SumFunctionOnSet([d \in Desks |-> IF desk[d].pc = "book" /\ desk[d].pot = p THEN Difference(d) ELSE 0], Desks)

\* A deposit books its whole amount; what a request has yet to book is all a balance lacks in the ledger.
BooksInv ==
  /\ \A d \in Desks : desk[d].pc = "add" => desk[d].before = 0
  /\ \A p \in Pots \ (mixed \cup unbooked) : balance[p] = booked[p] - spent[p] + Pending(p)

LEMMA PendingInt == ASSUME BalancesTypeOK, NEW p \in Pots PROVE Pending(p) \in Int
<1> DEFINE f == [d \in Desks |-> IF desk[d].pc = "book" /\ desk[d].pot = p THEN Difference(d) ELSE 0]
<1>1. \A d \in Desks : f[d] \in Int
  BY DEF BalancesTypeOK, DeskState, Difference
<1>2. Pending(p) = SumFunctionOnSet(f, Desks)
  BY DEF Pending
<1> HIDE DEF f
<1> QED
  BY <1>1, <1>2, SumInt, BalancesAssumption

\* What is pending for a pot changes with the one request that moves.
LEMMA PendingMoves ==
  ASSUME BalancesTypeOK, NEW p \in Pots, NEW d \in Desks, NEW new \in DeskState, desk' = [desk EXCEPT ![d] = new]
  PROVE  Pending(p)' = Pending(p)
           - (IF desk[d].pc = "book" /\ desk[d].pot = p THEN desk[d].amount - desk[d].before ELSE 0)
           + (IF new.pc = "book" /\ new.pot = p THEN new.amount - new.before ELSE 0)
<1> DEFINE F(e) == IF desk[e].pc = "book" /\ desk[e].pot = p THEN desk[e].amount - desk[e].before ELSE 0
           G(e) == IF desk'[e].pc = "book" /\ desk'[e].pot = p THEN desk'[e].amount - desk'[e].before ELSE 0
           f == [e \in Desks |-> F(e)]
           h == [e \in Desks |-> G(e)]
<1>1. Pending(p) = SumFunctionOnSet(f, Desks) /\ Pending(p)' = SumFunctionOnSet(h, Desks)
  BY DEF Pending, Difference
<1>2. desk \in [Desks -> DeskState] /\ desk' \in [Desks -> DeskState]
  BY DEF BalancesTypeOK
<1>3. \A e \in Desks : f[e] \in Int /\ h[e] \in Int
  BY <1>2 DEF DeskState
<1>4. \A e \in Desks : e # d => h[e] = f[e]
  BY <1>2
<1>5. f[d] = (IF desk[d].pc = "book" /\ desk[d].pot = p THEN desk[d].amount - desk[d].before ELSE 0)
  OBVIOUS
<1>6. h[d] = (IF new.pc = "book" /\ new.pot = p THEN new.amount - new.before ELSE 0)
  BY <1>2
<1> HIDE DEF f, h
<1>7. SumFunctionOnSet(h, Desks) = SumFunctionOnSet(f, Desks) - f[d] + h[d]
  BY <1>3, <1>4, SumChange, BalancesAssumption
<1> QED
  BY <1>1, <1>5, <1>6, <1>7

\* A step of one request from a state with nothing to book to another such.
LEMMA PendingStays ==
  ASSUME BalancesTypeOK, NEW d \in Desks, NEW new \in DeskState, desk' = [desk EXCEPT ![d] = new],
         desk[d].pc # "book", new.pc # "book"
  PROVE  \A p \in Pots : Pending(p)' = Pending(p)
<1> TAKE p \in Pots
<1>1. Pending(p) \in Int
  BY PendingInt
<1>2. Pending(p)' = Pending(p) - 0 + 0
  BY PendingMoves
<1> QED
  BY <1>1, <1>2

LEMMA ArrivalIdle ==
  ASSUME BalancesTypeOK, NEW d \in Desks, Arrivals(d)
  PROVE  /\ desk[d].pc = "idle"
         /\ \E pc \in {"add", "set"}, p \in Pots, amount \in Int, before \in Int :
              desk' = [desk EXCEPT ![d] = AtDesk(pc, p, amount, before)] /\ (pc = "add" => before = 0)
<1>1. PICK u \in Holders, amount \in Sums :
        \/ AdminRecharge(d, u, amount) \/ CompatAdminDeposit(d, u, amount)
        \/ CompatAdminAddMoneyTwo(d, u, amount) \/ CompatAdminAddMoneyThree(d, u, amount)
  BY DEF Arrivals
<1>2. PICK p \in Pots : Parsed(amount) /\ (Deposit(d, p, amount) \/ SetBalanceAbsolute(d, p, amount))
  BY <1>1 DEF AdminRecharge, CompatAdminDeposit, CompatAdminAddMoneyTwo, CompatAdminAddMoneyThree, Pots, Columns
<1>3. amount \in Int /\ balance[p] \in Int /\ 0 \in Int
  BY <1>2, BalancesAssumption DEF Parsed, BalancesTypeOK
<1>4. CASE Deposit(d, p, amount)
  <2>1. "add" \in {"add", "set"} /\ desk[d].pc = "idle" /\ desk' = [desk EXCEPT ![d] = AtDesk("add", p, amount, 0)]
    BY <1>4 DEF Deposit
  <2> QED
    BY <1>3, <2>1
<1>5. CASE SetBalanceAbsolute(d, p, amount)
  <2>1. /\ "set" \in {"add", "set"} /\ desk[d].pc = "idle" /\ "set" # "add"
        /\ desk' = [desk EXCEPT ![d] = AtDesk("set", p, amount, balance[p])]
    BY <1>5 DEF SetBalanceAbsolute
  <2> QED
    BY <1>3, <2>1
<1> QED
  BY <1>2, <1>4, <1>5

LEMMA StepBooks ==
  ASSUME BalancesTypeOK, BooksInv, [BalancesNext]_balanceVars PROVE BooksInv'
<1>0. /\ balance \in [Pots -> Int] /\ booked \in [Pots -> Int] /\ spent \in [Pots -> Int]
      /\ desk \in [Desks -> DeskState]
      /\ \A d \in Desks : desk[d].pot \in Pots /\ desk[d].amount \in Int /\ desk[d].before \in Int
  BY DEF BalancesTypeOK, DeskState
<1>1. ASSUME NEW d \in Desks, Arrivals(d) PROVE BooksInv'
  <2>1. PICK pc \in {"add", "set"}, p \in Pots, amount \in Int, before \in Int :
          desk' = [desk EXCEPT ![d] = AtDesk(pc, p, amount, before)] /\ (pc = "add" => before = 0)
    BY <1>1, ArrivalIdle
  <2> DEFINE new == AtDesk(pc, p, amount, before)
  <2>2. new \in DeskState /\ new.pc = pc /\ new.before = before /\ desk[d].pc = "idle"
    BY <1>1, <2>1, ArrivalIdle, AtDeskTypes DEF AtDesk
  <2>3. UNCHANGED <<balance, booked, spent, lost, mixed, unbooked>>
    BY <1>1, ArrivalMoves
  <2> HIDE DEF new
  <2>4. \A q \in Pots : Pending(q)' = Pending(q)
    BY <2>1, <2>2, PendingStays DEF new
  <2>5. \A e \in Desks : desk'[e].pc = "add" => desk'[e].before = 0
    BY <1>0, <2>1, <2>2 DEF BooksInv, new
  <2> QED
    BY <2>3, <2>4, <2>5 DEF BooksInv
<1>2. ASSUME NEW d \in Desks, Credit(d) \/ WriteTarget(d) PROVE BooksInv'
  <2> DEFINE p == desk[d].pot
             diff == desk[d].amount - desk[d].before
             booking == [desk[d] EXCEPT !.pc = "book"]
  <2>1. booking \in DeskState /\ booking.pc = "book" /\ booking.pot = p
        /\ booking.amount = desk[d].amount /\ booking.before = desk[d].before
    BY <1>0, BookState DEF DeskState
  <2>2. desk' = [desk EXCEPT ![d] = booking] /\ UNCHANGED <<booked, spent, unbooked>>
    BY <1>2 DEF Credit, WriteTarget
  <2>3. desk[d].pc # "book" /\ p \in Pots /\ diff \in Int
    BY <1>0, <1>2 DEF Credit, WriteTarget
  <2> HIDE DEF booking
  <2>4. \A q \in Pots : Pending(q)' = Pending(q) + (IF q = p THEN diff ELSE 0)
    <3> TAKE q \in Pots
    <3>1. Pending(q) \in Int
      BY PendingInt
    <3>2. Pending(q)' = Pending(q) - 0 + (IF q = p THEN diff ELSE 0)
      BY <2>1, <2>2, <2>3, PendingMoves
    <3> QED
      BY <2>3, <3>1, <3>2
  <2>5. \A e \in Desks : desk'[e].pc = "add" => desk'[e].before = 0
    BY <1>0, <2>1, <2>2 DEF BooksInv
  <2>6. ASSUME NEW q \in Pots \ (mixed' \cup unbooked')
        PROVE  q \in Pots \ (mixed \cup unbooked) /\ balance'[q] = balance[q] + (IF q = p THEN diff ELSE 0)
    <3>1. CASE Credit(d)
      <4>1. mixed' = mixed /\ desk[d].before = 0 /\ balance' = [balance EXCEPT ![p] = @ + desk[d].amount]
        BY <3>1 DEF Credit, AddBalance, BooksInv
      <4>2. diff = desk[d].amount
        BY <1>0, <4>1
      <4> HIDE DEF diff
      <4>3. balance'[q] = balance[q] + (IF q = p THEN diff ELSE 0)
        BY <1>0, <2>3, <4>1, <4>2
      <4> QED
        BY <2>2, <2>6, <4>1, <4>3
    <3>2. CASE WriteTarget(d)
      <4>1. /\ mixed' = IF balance[p] = desk[d].before THEN mixed ELSE mixed \cup {p}
            /\ balance' = [balance EXCEPT ![p] = desk[d].amount]
        BY <3>2 DEF WriteTarget, SetBalance
      <4>2. q \in Pots \ (mixed \cup unbooked)
        BY <2>2, <2>6, <4>1
      <4>3. q = p => balance[p] = desk[d].before
        BY <2>6, <4>1
      <4>4. balance'[q] = balance[q] + (IF q = p THEN diff ELSE 0)
        BY <1>0, <2>3, <4>1, <4>3
      <4> QED
        BY <4>2, <4>4
    <3> QED
      BY <1>2, <3>1, <3>2
  <2>7. ASSUME NEW q \in Pots \ (mixed' \cup unbooked')
        PROVE  balance'[q] = booked'[q] - spent'[q] + Pending(q)'
    <3>1. balance[q] = booked[q] - spent[q] + Pending(q)
      BY <2>6, <2>7 DEF BooksInv
    <3>2. balance[q] \in Int /\ booked[q] \in Int /\ spent[q] \in Int /\ Pending(q) \in Int
      BY <1>0, <2>7, PendingInt
    <3> DEFINE more == IF q = p THEN diff ELSE 0
    <3>3. more \in Int
      BY <2>3
    <3>4. balance'[q] = balance[q] + more /\ Pending(q)' = Pending(q) + more
      BY <2>4, <2>6, <2>7
    <3>5. booked'[q] = booked[q] /\ spent'[q] = spent[q]
      BY <2>2
    <3> HIDE DEF more
    <3> QED
      BY <3>1, <3>2, <3>3, <3>4, <3>5
  <2> QED
    BY <2>5, <2>7 DEF BooksInv
<1>3. ASSUME NEW d \in Desks, Book(d) PROVE BooksInv'
  <2> DEFINE p == desk[d].pot
             diff == desk[d].amount - desk[d].before
  <2>1. /\ desk' = [desk EXCEPT ![d] = NoRequest] /\ desk[d].pc = "book"
        /\ booked' = [booked EXCEPT ![p] = @ + diff] /\ UNCHANGED <<balance, spent, mixed, unbooked>>
    BY <1>3 DEF Book, Difference
  <2>2. p \in Pots /\ diff \in Int
    BY <1>0
  <2>3. \A e \in Desks : desk'[e].pc = "add" => desk'[e].before = 0
    BY <1>0, <2>1, IdleDesk DEF BooksInv
  <2>4. ASSUME NEW q \in Pots \ (mixed' \cup unbooked')
        PROVE  balance'[q] = booked'[q] - spent'[q] + Pending(q)'
    <3> DEFINE more == IF q = p THEN diff ELSE 0
    <3>1. q \in Pots \ (mixed \cup unbooked) /\ balance[q] = booked[q] - spent[q] + Pending(q)
      BY <2>1, <2>4 DEF BooksInv
    <3>2. balance[q] \in Int /\ booked[q] \in Int /\ spent[q] \in Int /\ Pending(q) \in Int
      BY <1>0, <2>4, PendingInt
    <3>3. Pending(q)' = Pending(q) - more + 0
      BY <2>1, <2>4, IdleDesk, PendingMoves
    <3>4. booked'[q] = booked[q] + more
      BY <1>0, <2>1, <2>2, <3>2
    <3>5. more \in Int /\ balance'[q] = balance[q] /\ spent'[q] = spent[q]
      BY <2>1, <2>2
    <3> HIDE DEF more
    <3> QED
      BY <3>1, <3>2, <3>3, <3>4, <3>5
  <2> QED
    BY <2>3, <2>4 DEF BooksInv
<1>4. ASSUME NEW d \in Desks, NotBooked(d) PROVE BooksInv'
  <2>1. desk' = [desk EXCEPT ![d] = NoRequest] /\ UNCHANGED <<balance, booked, spent, mixed>>
        /\ unbooked' = IF desk[d].pc = "book" THEN unbooked \cup {desk[d].pot} ELSE unbooked
    BY <1>4 DEF NotBooked
  <2>2. \A e \in Desks : desk'[e].pc = "add" => desk'[e].before = 0
    BY <1>0, <2>1, IdleDesk DEF BooksInv
  <2>3. ASSUME NEW q \in Pots \ (mixed' \cup unbooked')
        PROVE  q \in Pots \ (mixed \cup unbooked) /\ Pending(q)' = Pending(q)
    <3>1. q \in Pots \ (mixed \cup unbooked) /\ ~(desk[d].pc = "book" /\ desk[d].pot = q)
      BY <2>1, <2>3
    <3>2. Pending(q)' = Pending(q) - 0 + 0
      BY <2>1, <3>1, IdleDesk, PendingMoves
    <3>3. Pending(q) \in Int
      BY <3>1, PendingInt
    <3> QED
      BY <3>1, <3>2, <3>3
  <2> QED
    BY <2>1, <2>2, <2>3 DEF BooksInv
<1>5. ASSUME NEW p \in Pots, NEW amount \in Sums \ {NoSum}, Spend(p, amount) PROVE BooksInv'
  <2>1. amount \in Int /\ balance[p] \in Int /\ spent[p] \in Int
    BY <1>0, BalancesAssumption
  <2>2. balance' = [balance EXCEPT ![p] = @ - amount] /\ spent' = [spent EXCEPT ![p] = @ + amount]
        /\ UNCHANGED <<booked, desk, mixed, unbooked>>
    BY <1>5 DEF Spend, SubBalance
  <2>3. \A q \in Pots : Pending(q)' = Pending(q)
    BY <2>2 DEF Pending, Difference
  <2>4. ASSUME NEW q \in Pots \ (mixed' \cup unbooked')
        PROVE  balance'[q] = booked'[q] - spent'[q] + Pending(q)'
    <3> DEFINE less == IF q = p THEN amount ELSE 0
    <3>1. balance[q] = booked[q] - spent[q] + Pending(q)
      BY <2>2, <2>4 DEF BooksInv
    <3>2. balance[q] \in Int /\ booked[q] \in Int /\ spent[q] \in Int /\ Pending(q) \in Int /\ less \in Int
      BY <1>0, <2>1, <2>4, PendingInt
    <3>3. balance'[q] = balance[q] - less /\ spent'[q] = spent[q] + less
      BY <1>0, <2>1, <2>2, <3>2
    <3>4. booked'[q] = booked[q] /\ Pending(q)' = Pending(q)
      BY <2>2, <2>3
    <3> HIDE DEF less
    <3> QED
      BY <3>1, <3>2, <3>3, <3>4
  <2> QED
    BY <2>2, <2>4 DEF BooksInv
<1>6. CASE UNCHANGED balanceVars
  <2>1. \A q \in Pots : Pending(q)' = Pending(q)
    BY <1>6 DEF balanceVars, Pending, Difference
  <2> QED
    BY <1>6, <2>1 DEF balanceVars, BooksInv
<1> QED
  BY <1>1, <1>2, <1>3, <1>4, <1>5, <1>6 DEF BalancesNext, Arrivals

\* The ledger explains every balance between requests, but for one set to a target after it had moved or
\* an entry that was lost, however many requests overlap.
THEOREM LedgerExplainsBalances == BalancesSpec => []BooksBalance
<1>1. BalancesInit => BalancesTypeOK /\ DeskInv /\ BooksInv
  <2> SUFFICES ASSUME BalancesInit PROVE BalancesTypeOK /\ DeskInv /\ BooksInv
    OBVIOUS
  <2>1. BalancesTypeOK /\ DeskInv
    BY IdleDesk, BalancesAssumption DEF BalancesInit, BalancesTypeOK, DeskInv, NonNegative
  <2>2. ASSUME NEW p \in Pots PROVE Pending(p) = 0
    <3> DEFINE f == [d \in Desks |-> IF desk[d].pc = "book" /\ desk[d].pot = p THEN Difference(d) ELSE 0]
    <3>1. \A d \in Desks : f[d] = 0
      BY IdleDesk DEF BalancesInit
    <3>2. Pending(p) = SumFunctionOnSet(f, Desks)
      BY DEF Pending
    <3> HIDE DEF f
    <3> QED
      BY <3>1, <3>2, SumZero, BalancesAssumption
  <2>3. \A p \in Pots : balance[p] = booked[p] - spent[p] + Pending(p)
    BY <2>2 DEF BalancesInit
  <2>4. \A d \in Desks : desk[d].pc # "add"
    BY IdleDesk DEF BalancesInit
  <2> QED
    BY <2>1, <2>3, <2>4 DEF BooksInv
<1>2. BalancesTypeOK /\ BooksInv => BooksBalance
  <2> SUFFICES ASSUME BalancesTypeOK, BooksInv, NEW p \in Pots \ (mixed \cup unbooked),
                      \A d \in Desks : desk[d].pc = "book" => desk[d].pot # p
               PROVE  balance[p] = booked[p] - spent[p]
    BY DEF BooksBalance
  <2> DEFINE f == [d \in Desks |-> IF desk[d].pc = "book" /\ desk[d].pot = p THEN Difference(d) ELSE 0]
  <2>1. \A d \in Desks : f[d] = 0
    OBVIOUS
  <2>2. Pending(p) = SumFunctionOnSet(f, Desks)
    BY DEF Pending
  <2> HIDE DEF f
  <2>3. Pending(p) = 0
    BY <2>1, <2>2, SumZero, BalancesAssumption
  <2>4. booked[p] \in Int /\ spent[p] \in Int
    BY DEF BalancesTypeOK
  <2> QED
    BY <2>3, <2>4 DEF BooksInv
<1>3. BalancesSpec => [](BalancesTypeOK /\ DeskInv /\ BooksInv)
  BY <1>1, StepBalances, StepBooks, PTL DEF BalancesSpec
<1> QED
  BY <1>2, <1>3, PTL

-----------------------------------------------------------------------------
(* Params *)

LEMMA JobTypes ==
  /\ NoJob \in JobState /\ NoJob.pc = "idle" /\ NoJob.at = NoProcess /\ ~NoJob.stale /\ Default \in Maps
  /\ NoJob.map = Default
<1>1. PICK k \in Keys : TRUE
  BY ParamsAssumption
<1>2. Default[k] \in Values /\ Default \in Maps
  BY <1>1, ParamsAssumption DEF Maps
<1>3. (CHOOSE x \in Keys : TRUE) \in Keys /\ (CHOOSE x \in Values : TRUE) \in Values
  BY <1>1, <1>2
<1> QED
  BY <1>2, <1>3 DEF NoJob, JobState

\* What a goroutine carries: values that passed, once they were validated, and the table or the
\* defaults, once they were read.
JobHolds(s, current, given) ==
  /\ s.pc = "write" => s.value \in Valid[s.key]
  /\ s.pc \in {"list", "write"} => s.updating
  /\ Validated(s.map)
  /\ s.pc = "publish" /\ ~s.stale => s.map = current
  /\ given => s.pc # "seed"
  /\ s.pc # "idle" => s.at \in Processes

ParamsInv ==
  /\ ParamsTypeOK
  /\ ConfigValid
  /\ provisioned => seeded /\ table = wanted
  /\ ActiveIsFresh
  /\ \A j \in Jobs : JobHolds(job[j], table, provisioned)

\* A step in which goroutine j alone goes on, to the state s, and the tables stay.
LEMMA JobMoves ==
  ASSUME ParamsInv, NEW j \in Jobs, NEW s \in JobState, JobHolds(s, table, provisioned),
         job' = [job EXCEPT ![j] = s], errors' \in 0..MaxErrors,
         UNCHANGED <<table, seeded, active, started, updates, provisioned, wanted, behind>>,
         \* an update that has written its row goes on until it has made it active
         job[j].pc # "idle" /\ ~job[j].updating => s.pc # "idle" /\ ~s.updating /\ s.at = job[j].at
  PROVE  ParamsInv'
<1>1. job \in [Jobs -> JobState] /\ \A i \in Jobs : job'[i] = IF i = j THEN s ELSE job[i]
  BY DEF ParamsInv, ParamsTypeOK
<1>2. job' \in [Jobs -> JobState]
  BY <1>1
<1>3. ParamsTypeOK'
  BY <1>2 DEF ParamsInv, ParamsTypeOK
<1>4. ConfigValid'
  BY DEF ParamsInv, ConfigValid, Validated
<1>5. \A i \in Jobs : JobHolds(job'[i], table', provisioned')
  BY <1>1 DEF ParamsInv
<1>6. ActiveIsFresh'
  <2> SUFFICES ASSUME NEW p \in started \ behind, ~Reloading(p)' PROVE active[p] = table
    BY DEF ActiveIsFresh
  <2>1. ~Reloading(p)
    BY <1>1 DEF Reloading
  <2> QED
    BY <2>1 DEF ParamsInv, ActiveIsFresh
<1> QED
  BY <1>3, <1>4, <1>5, <1>6 DEF ParamsInv

LEMMA StepJobs ==
  ASSUME ParamsInv, NEW j \in Jobs,
         \/ \E p \in Processes : Boot(j, p)
         \/ \E p \in Processes, k \in Keys, v \in Values : UpdateConfig(j, p, k, v)
         \/ CountRows(j) \/ ListConfigs(j) \/ LoadMap(j) \/ GetDefaults(j) \/ UpdateFails(j)
         \/ UpdateUnchanged(j)
  PROVE  ParamsInv'
<1> DEFINE s == job[j]
<1>0. /\ s \in JobState /\ JobHolds(s, table, provisioned) /\ errors \in 0..MaxErrors /\ MaxErrors \in Nat
      /\ table \in Maps /\ Validated(table) /\ Validated(Default) /\ Validated(NoJob.map)
  BY JobTypes, ParamsAssumption DEF ParamsInv, ParamsTypeOK, ConfigValid, Validated
<1>1. ASSUME NEW p \in Processes, Boot(j, p) PROVE ParamsInv'
  <2> DEFINE new == [NoJob EXCEPT !.pc = "count", !.at = p]
  <2>1. new \in JobState /\ new.pc = "count" /\ new.at = p /\ new.map = NoJob.map
    BY JobTypes DEF JobState
  <2>2. job' = [job EXCEPT ![j] = new] /\ job[j].pc = "idle"
    BY <1>1 DEF Boot
  <2> HIDE DEF new
  <2>3. JobHolds(new, table, provisioned)
    BY <1>0, <2>1 DEF JobHolds
  <2> QED
    BY <1>0, <1>1, <2>1, <2>2, <2>3, JobMoves DEF Boot
<1>2. ASSUME NEW p \in Processes, NEW k \in Keys, NEW v \in Values, UpdateConfig(j, p, k, v) PROVE ParamsInv'
  <2> DEFINE new == [NoJob EXCEPT !.pc = "count", !.at = p, !.updating = TRUE, !.key = k, !.value = v]
  <2>1. new \in JobState /\ new.pc = "count" /\ new.at = p /\ new.map = NoJob.map
    BY JobTypes DEF JobState
  <2>2. job' = [job EXCEPT ![j] = new] /\ job[j].pc = "idle"
    BY <1>2 DEF UpdateConfig
  <2> HIDE DEF new
  <2>3. JobHolds(new, table, provisioned)
    BY <1>0, <2>1 DEF JobHolds
  <2> QED
    BY <1>0, <1>2, <2>1, <2>2, <2>3, JobMoves DEF UpdateConfig
<1>3. CASE CountRows(j)
  <2> DEFINE pc == IF seeded THEN Seeded(j) ELSE "seed"
             new == [s EXCEPT !.pc = pc]
  <2>1. pc \in {"list", "load", "seed"} /\ (provisioned => pc # "seed") /\ (pc = "list" => s.updating)
    BY <1>0 DEF Seeded, ParamsInv
  <2>2. job' = [job EXCEPT ![j] = new] /\ s.pc = "count"
    BY <1>3 DEF CountRows
  <2> HIDE DEF pc
  <2>3. new \in JobState /\ new.pc = pc /\ new.at = s.at /\ new.map = s.map /\ new.updating = s.updating
    BY <1>0, <2>1 DEF JobState
  <2> HIDE DEF new
  <2>4. JobHolds(new, table, provisioned)
    BY <1>0, <2>1, <2>2, <2>3 DEF JobHolds
  <2> QED
    BY <1>0, <1>3, <2>1, <2>2, <2>3, <2>4, JobMoves DEF CountRows
<1>4. CASE ListConfigs(j)
  <2> DEFINE new == [s EXCEPT !.pc = "write"]
  <2>1. s.pc = "list" /\ s.updating
    BY <1>0, <1>4 DEF ListConfigs, JobHolds
  <2>2. CASE Validated(Merged(j))
    <3>1. /\ new \in JobState /\ new.pc = "write" /\ new.at = s.at /\ new.map = s.map
          /\ new.updating = s.updating /\ new.value = s.value /\ new.key = s.key
      BY <1>0 DEF JobState
    <3>2. s.key \in Keys /\ table \in [Keys -> Values]
      BY <1>0 DEF JobState, Maps
    <3>3. s.value \in Valid[s.key]
      BY <2>2, <3>2 DEF Validated, Merged
    <3>4. job' = [job EXCEPT ![j] = new]
      BY <1>4, <2>2 DEF ListConfigs
    <3> HIDE DEF new
    <3>5. JobHolds(new, table, provisioned)
      BY <1>0, <2>1, <3>1, <3>3 DEF JobHolds
    <3> QED
      BY <1>0, <1>4, <2>1, <3>1, <3>4, <3>5, JobMoves DEF ListConfigs
  <2>3. CASE ~Validated(Merged(j))
    <3>1. job' = [job EXCEPT ![j] = NoJob]
      BY <1>4, <2>3 DEF ListConfigs
    <3>2. JobHolds(NoJob, table, provisioned)
      BY <1>0, JobTypes DEF JobHolds
    <3> QED
      BY <1>0, <1>4, <2>1, <3>1, <3>2, JobTypes, JobMoves DEF ListConfigs
  <2> QED
    BY <2>2, <2>3
<1>5. CASE LoadMap(j)
  <2> DEFINE new == [s EXCEPT !.pc = "publish", !.map = table]
  <2>1. new \in JobState /\ new.pc = "publish" /\ new.at = s.at /\ new.map = table /\ new.updating = s.updating
    BY <1>0 DEF JobState
  <2>2. job' = [job EXCEPT ![j] = new] /\ s.pc = "load"
    BY <1>5 DEF LoadMap
  <2> HIDE DEF new
  <2>3. JobHolds(new, table, provisioned)
    BY <1>0, <2>1, <2>2 DEF JobHolds
  <2> QED
    BY <1>0, <1>5, <2>1, <2>2, <2>3, JobMoves DEF LoadMap
<1>6. CASE GetDefaults(j)
  <2> DEFINE new == [s EXCEPT !.pc = "publish", !.map = Default, !.stale = TRUE]
  <2>1. /\ new \in JobState /\ new.pc = "publish" /\ new.at = s.at /\ new.map = Default /\ new.stale
        /\ new.updating = s.updating
    BY <1>0, JobTypes DEF JobState
  <2>2. job' = [job EXCEPT ![j] = new]
    BY <1>6 DEF GetDefaults, ParamsInv, ParamsTypeOK
  <2>a. s.pc # "idle" /\ s.pc \notin {"list", "write"}
    BY <1>6 DEF GetDefaults
  <2>b. errors' \in 0..MaxErrors
    BY <1>0, <1>6 DEF GetDefaults
  <2> HIDE DEF new
  <2>3. JobHolds(new, table, provisioned)
    BY <1>0, <2>1, <2>a DEF JobHolds
  <2> QED
    BY <1>0, <1>6, <2>1, <2>2, <2>a, <2>b, <2>3, JobMoves DEF GetDefaults
<1>7. CASE UpdateFails(j)
  <2>1. job' = [job EXCEPT ![j] = NoJob] /\ s.updating /\ errors' \in 0..MaxErrors
    BY <1>0, <1>7 DEF UpdateFails
  <2>2. JobHolds(NoJob, table, provisioned)
    BY <1>0, JobTypes DEF JobHolds
  <2> QED
    BY <1>0, <1>7, <2>1, <2>2, JobTypes, JobMoves DEF UpdateFails
<1>8. CASE UpdateUnchanged(j)
  <2>1. job' = [job EXCEPT ![j] = NoJob] /\ s.updating
    BY <1>0, <1>8 DEF UpdateUnchanged, JobHolds
  <2>2. JobHolds(NoJob, table, provisioned)
    BY <1>0, JobTypes DEF JobHolds
  <2> QED
    BY <1>0, <1>8, <2>1, <2>2, JobTypes, JobMoves DEF UpdateUnchanged
<1> QED
  BY <1>1, <1>2, <1>3, <1>4, <1>5, <1>6, <1>7, <1>8

\* The goroutines when one of them writes the table and goes on to s.
LEMMA WriteMoves ==
  ASSUME ParamsInv, NEW j \in Jobs, NEW s \in JobState,
         s.pc \in {"count", "list", "load"}, s.pc = "list" => s.updating, s.map = job[j].map,
         s.at \in Processes, job' = [Outdated(j) EXCEPT ![j] = s], provisioned' = provisioned
  PROVE  /\ job' \in [Jobs -> JobState] /\ job'[j] = s
         /\ \A i \in Jobs : JobHolds(job'[i], table', provisioned')
<1>0. /\ job \in [Jobs -> JobState]
      /\ \A i \in Jobs : job[i] \in JobState /\ JobHolds(job[i], table, provisioned)
  BY DEF ParamsInv, ParamsTypeOK
<1>1. ASSUME NEW i \in Jobs
      PROVE  LET o == [job[i] EXCEPT !.stale = TRUE]
             IN /\ o \in JobState /\ o.pc = job[i].pc /\ o.at = job[i].at /\ o.updating = job[i].updating
                /\ o.value = job[i].value /\ o.key = job[i].key /\ o.map = job[i].map /\ o.stale
  BY <1>0 DEF JobState
<1>2. ASSUME NEW i \in Jobs
      PROVE  /\ Outdated(j)[i] \in JobState /\ Outdated(j)[i].pc = job[i].pc
             /\ Outdated(j)[i].at = job[i].at /\ Outdated(j)[i].updating = job[i].updating
             /\ Outdated(j)[i].value = job[i].value /\ Outdated(j)[i].key = job[i].key
             /\ Outdated(j)[i].map = job[i].map
             /\ i # j /\ job[i].pc = "publish" => Outdated(j)[i].stale
  <2>1. Outdated(j)[i] = IF i # j /\ job[i].pc = "publish" THEN [job[i] EXCEPT !.stale = TRUE] ELSE job[i]
    BY DEF Outdated
  <2> QED
    BY <1>0, <1>1, <2>1
<1>3. /\ job' \in [Jobs -> JobState] /\ \A i \in Jobs : job'[i] = IF i = j THEN s ELSE Outdated(j)[i]
  <2>1. DOMAIN Outdated(j) = Jobs
    BY DEF Outdated
  <2>2. Outdated(j) \in [Jobs -> JobState]
    BY <1>2, <2>1 DEF Outdated
  <2> QED
    BY <2>2
<1>4. ASSUME NEW i \in Jobs PROVE JobHolds(job'[i], table', provisioned')
  <2>1. CASE i = j
    BY <1>0, <1>3, <2>1 DEF JobHolds
  <2>2. CASE i # j
    BY <1>0, <1>2, <1>3, <2>2 DEF JobHolds
  <2> QED
    BY <2>1, <2>2
<1> QED
  BY <1>3, <1>4

LEMMA StepSave ==
  ASSUME ParamsInv, NEW j \in Jobs, Save(j) PROVE ParamsInv'
<1> DEFINE new == [job[j] EXCEPT !.pc = Seeded(j)]
<1>0. /\ job[j] \in JobState /\ JobHolds(job[j], table, provisioned)
      /\ Validated(Default) /\ Default \in Maps
  BY JobTypes, ParamsAssumption DEF ParamsInv, ParamsTypeOK, Validated
<1>1. /\ ~provisioned /\ job[j].pc = "seed" /\ table' = Default /\ seeded' = TRUE
      /\ UNCHANGED <<active, started, updates, errors, provisioned, wanted>> /\ behind' = behind \cup started
      /\ job[j].at \in Processes
  BY <1>0 DEF Save, JobHolds
<1>2. Seeded(j) \in {"list", "load"} /\ (Seeded(j) = "list" => job[j].updating)
  BY DEF Seeded
<1>3. /\ new \in JobState /\ new.pc = Seeded(j) /\ new.at = job[j].at /\ new.map = job[j].map
      /\ new.updating = job[j].updating
  BY <1>0, <1>2 DEF JobState
<1>4. job' = [Outdated(j) EXCEPT ![j] = new]
  <2>1. Outdated(j)[j] = job[j]
    BY DEF Outdated
  <2> QED
    BY <2>1 DEF Save
<1> HIDE DEF new
<1>5. job' \in [Jobs -> JobState] /\ \A i \in Jobs : JobHolds(job'[i], table', provisioned')
  BY <1>1, <1>2, <1>3, <1>4, WriteMoves
<1>6. ParamsTypeOK'
  BY <1>0, <1>1, <1>5 DEF ParamsInv, ParamsTypeOK
<1>7. ConfigValid' /\ ActiveIsFresh'
  BY <1>0, <1>1 DEF ParamsInv, ConfigValid, Validated, ActiveIsFresh
<1> QED
  BY <1>1, <1>5, <1>6, <1>7 DEF ParamsInv

LEMMA StepUpdateValue ==
  ASSUME ParamsInv, NEW j \in Jobs, UpdateValue(j) PROVE ParamsInv'
<1> DEFINE s == job[j]
           new == [s EXCEPT !.pc = "count", !.updating = FALSE]
<1>0. /\ s \in JobState /\ JobHolds(s, table, provisioned) /\ table \in Maps /\ wanted \in Maps
      /\ updates \in 0..MaxUpdates /\ MaxUpdates \in Nat
  BY ParamsAssumption DEF ParamsInv, ParamsTypeOK
<1>1. /\ s.pc = "write" /\ s.value \in Valid[s.key] /\ s.at \in Processes /\ s.key \in Keys /\ s.value \in Values
      /\ table' = [table EXCEPT ![s.key] = s.value] /\ wanted' = [wanted EXCEPT ![s.key] = s.value]
      /\ UNCHANGED <<seeded, active, started, errors, provisioned>>
      /\ behind' = behind \cup (started \ {s.at})
  BY <1>0 DEF UpdateValue, JobHolds, JobState, Merged
<1>2. updates' \in 0..MaxUpdates
  BY <1>0 DEF UpdateValue
<1>3. /\ new \in JobState /\ new.pc = "count" /\ new.at = s.at /\ new.map = s.map /\ ~new.updating
  BY <1>0 DEF JobState
<1>4. job' = [Outdated(j) EXCEPT ![j] = new]
  <2>1. Outdated(j)[j] = s /\ DOMAIN Outdated(j) = Jobs
    BY DEF Outdated
  <2> QED
    BY <2>1 DEF UpdateValue
<1> HIDE DEF new
<1>5. job' \in [Jobs -> JobState] /\ job'[j] = new /\ \A i \in Jobs : JobHolds(job'[i], table', provisioned')
  BY <1>1, <1>3, <1>4, WriteMoves
<1>6. table' \in Maps /\ wanted' \in Maps /\ Validated(table')
  BY <1>0, <1>1 DEF Maps, ParamsInv, ConfigValid, Validated
<1>7. ParamsTypeOK'
  BY <1>1, <1>2, <1>5, <1>6 DEF ParamsInv, ParamsTypeOK
<1>8. ConfigValid'
  BY <1>1, <1>6 DEF ParamsInv, ConfigValid, Validated
<1>9. ActiveIsFresh'
  <2> SUFFICES ASSUME NEW p \in started \ behind' PROVE Reloading(p)'
    BY <1>1 DEF ActiveIsFresh
  <2>1. p = s.at
    BY <1>1
  <2> QED
    BY <1>3, <1>5, <2>1 DEF Reloading
<1>a. provisioned' => seeded' /\ table' = wanted'
  BY <1>1 DEF ParamsInv
<1> QED
  BY <1>5, <1>7, <1>8, <1>9, <1>a DEF ParamsInv

LEMMA StepSetActive ==
  ASSUME ParamsInv, NEW j \in Jobs, SetActiveParams(j) PROVE ParamsInv'
<1> DEFINE s == job[j]
<1>0. /\ job \in [Jobs -> JobState] /\ s \in JobState /\ JobHolds(s, table, provisioned)
      /\ active \in [Processes -> Maps]
  BY DEF ParamsInv, ParamsTypeOK
<1>1. /\ s.pc = "publish" /\ s.at \in Processes /\ s.map \in Maps /\ Validated(s.map)
      /\ (~s.stale => s.map = table)
      /\ active' = [active EXCEPT ![s.at] = s.map] /\ started' = started \cup {s.at}
      /\ behind' = (IF s.stale THEN behind \cup {s.at} ELSE behind \ {s.at})
      /\ job' = [job EXCEPT ![j] = NoJob]
      /\ UNCHANGED <<table, seeded, updates, errors, provisioned, wanted>>
  BY <1>0 DEF SetActiveParams, JobHolds, JobState
<1>2. job' \in [Jobs -> JobState] /\ \A i \in Jobs : job'[i] = IF i = j THEN NoJob ELSE job[i]
  BY <1>0, <1>1, JobTypes
<1>3. ParamsTypeOK'
  BY <1>0, <1>1, <1>2 DEF ParamsInv, ParamsTypeOK
<1>4. ConfigValid'
  BY <1>0, <1>1 DEF ParamsInv, ConfigValid, Validated
<1>5. \A i \in Jobs : JobHolds(job'[i], table', provisioned')
  <2>1. JobHolds(NoJob, table, provisioned)
    BY JobTypes, ParamsAssumption DEF JobHolds, Validated
  <2> QED
    BY <1>1, <1>2, <2>1 DEF ParamsInv
<1>6. ActiveIsFresh'
  <2> SUFFICES ASSUME NEW p \in started' \ behind', ~Reloading(p)' PROVE active'[p] = table
    BY <1>1 DEF ActiveIsFresh
  <2>1. CASE p = s.at
    BY <1>0, <1>1, <2>1
  <2>2. CASE p # s.at
    <3>1. p \in started \ behind /\ active'[p] = active[p]
      BY <1>0, <1>1, <2>2
    <3>2. ~Reloading(p)
      BY <1>2, <2>2 DEF Reloading
    <3> QED
      BY <3>1, <3>2 DEF ParamsInv, ActiveIsFresh
  <2> QED
    BY <2>1, <2>2
<1> QED
  BY <1>1, <1>3, <1>4, <1>5, <1>6 DEF ParamsInv

LEMMA StepStop ==
  ASSUME ParamsInv, NEW p \in Processes, Stop(p) PROVE ParamsInv'
<1>0. /\ job \in [Jobs -> JobState] /\ active \in [Processes -> Maps] /\ errors \in 0..MaxErrors /\ MaxErrors \in Nat
      /\ Validated(Default)
  BY ParamsAssumption DEF ParamsInv, ParamsTypeOK, Validated
<1>1. /\ started' = started \ {p} /\ behind' = behind \ {p} /\ active' = [active EXCEPT ![p] = Default]
      /\ job' = [i \in Jobs |-> IF job[i].at = p THEN NoJob ELSE job[i]]
      /\ UNCHANGED <<table, seeded, updates, provisioned, wanted>>
  BY DEF Stop
<1>2. errors' \in 0..MaxErrors
  BY <1>0 DEF Stop
<1>3. job' \in [Jobs -> JobState]
  BY <1>0, <1>1, JobTypes
<1>4. ParamsTypeOK'
  BY <1>0, <1>1, <1>2, <1>3, JobTypes DEF ParamsInv, ParamsTypeOK
<1>5. ConfigValid'
  BY <1>0, <1>1 DEF ParamsInv, ConfigValid, Validated
<1>6. \A i \in Jobs : JobHolds(job'[i], table', provisioned')
  <2>1. JobHolds(NoJob, table, provisioned)
    BY <1>0, JobTypes DEF JobHolds
  <2> QED
    BY <1>1, <2>1 DEF ParamsInv
<1>7. ActiveIsFresh'
  <2> SUFFICES ASSUME NEW q \in started' \ behind', ~Reloading(q)' PROVE active'[q] = table
    BY <1>1 DEF ActiveIsFresh
  <2>1. q # p /\ q \in started \ behind /\ q \in Processes
    BY <1>1 DEF ParamsInv, ParamsTypeOK
  <2>2. ~Reloading(q)
    BY <1>1, <2>1 DEF Reloading
  <2> QED
    BY <1>0, <1>1, <2>1, <2>2 DEF ParamsInv, ActiveIsFresh
<1> QED
  BY <1>1, <1>4, <1>5, <1>6, <1>7 DEF ParamsInv

LEMMA ParamsInvariant == ParamsSpec => []ParamsInv
<1>1. ParamsInit => ParamsInv
  <2> SUFFICES ASSUME ParamsInit PROVE ParamsInv
    OBVIOUS
  <2>1. Validated(Default)
    BY ParamsAssumption DEF Validated
  <2>2. ParamsTypeOK
    BY JobTypes, ParamsAssumption DEF ParamsInit, ParamsTypeOK
  <2>3. ConfigValid
    BY <2>1 DEF ParamsInit, ConfigValid
  <2>4. \A j \in Jobs : JobHolds(job[j], table, provisioned)
    BY <2>1, JobTypes DEF ParamsInit, JobHolds
  <2> QED
    BY <2>2, <2>3, <2>4 DEF ParamsInit, ParamsInv, ActiveIsFresh
<1>2. ASSUME ParamsInv, [ParamsNext]_paramVars PROVE ParamsInv'
  <2>1. CASE ParamsNext
    <3>1. ASSUME NEW j \in Jobs, NEW p \in Processes, NEW k \in Keys \cup {NoKey}, NEW v \in Values,
                 CompatAdminConfigUpdate(j, p, k, v) \/ AdminUpdateConfig(j, p, k, v)
          PROVE  ParamsInv'
      <4>1. UpdateConfig(j, p, k, v) /\ k \in Keys
        BY <3>1 DEF CompatAdminConfigUpdate, AdminUpdateConfig
      <4> QED
        BY <1>2, <4>1, StepJobs
    <3> QED
      BY <1>2, <2>1, <3>1, StepJobs, StepSave, StepUpdateValue, StepSetActive, StepStop DEF ParamsNext
  <2>2. CASE UNCHANGED paramVars
    BY <1>2, <2>2 DEF paramVars, ParamsInv, ParamsTypeOK, ConfigValid, Validated, ActiveIsFresh, Reloading
  <2> QED
    BY <1>2, <2>1, <2>2
<1> QED
  BY <1>1, <1>2, PTL DEF ParamsSpec

\* Every value in the table and in every copy passes validation, whatever updates overlap.
THEOREM ConfigStaysValid == ParamsSpec => []ConfigValid
BY ParamsInvariant, PTL DEF ParamsInv

\* Where schema.sql has created the rows, the defaults never overwrite a value.
THEOREM SeedingKeepsValues == ParamsSpec => []SeedNeverOverwrites
<1>1. ParamsInv => SeedNeverOverwrites
  BY DEF ParamsInv, SeedNeverOverwrites
<1> QED
  BY <1>1, ParamsInvariant, PTL

\* A process works with the values of the table, but for the writes it cannot know of.
THEOREM ActiveStaysFresh == ParamsSpec => []ActiveIsFresh
BY ParamsInvariant, PTL DEF ParamsInv

-----------------------------------------------------------------------------
(* Reports: rows and their places *)

\* The rows are finitely many, no two have the same place in time, and later ones are not of an earlier day.
RowsInv ==
  /\ IsFiniteSet(rows) /\ IsFiniteSet(Taken) /\ \A r \in Taken : r.at \in 1..Cardinality(Taken) /\ r.day <= day
  /\ \A r, s \in Taken : (r.at = s.at => r = s) /\ (r.at <= s.at => r.day <= s.day)

LEMMA PlaceBounds ==
  ASSUME NEW T, IsFiniteSet(T), T \subseteq RowType, NEW r \in T
  PROVE  Place(T, r) \in Nat /\ 1 <= Place(T, r) /\ Place(T, r) <= Cardinality(T)
<1> DEFINE S == {s \in T : s.at >= r.at}
<1>1. IsFiniteSet(S) /\ Cardinality(S) <= Cardinality(T)
  BY FS_Subset
<1>2. r \in S
  BY DEF RowType
<1>3. Cardinality(S) \in Nat /\ Cardinality(S) # 0
  BY <1>1, <1>2, FS_CardinalityType, FS_EmptySet
<1> QED
  BY <1>1, <1>3 DEF Place

\* A row keeps its place or moves down the list as others come.
LEMMA PlaceGrows ==
  ASSUME NEW U, IsFiniteSet(U), NEW T \in SUBSET U, NEW r
  PROVE  Place(T, r) \in Nat /\ Place(U, r) \in Nat /\ Place(T, r) <= Place(U, r)
<1> DEFINE S == {s \in T : s.at >= r.at}
           V == {s \in U : s.at >= r.at}
<1>1. S \in SUBSET V /\ IsFiniteSet(V)
  BY FS_Subset
<1>2. IsFiniteSet(S) /\ Cardinality(S) <= Cardinality(V)
  BY <1>1, FS_Subset
<1> QED
  BY <1>1, <1>2, FS_CardinalityType DEF Place

LEMMA IdleReaders == NoWalk \in WalkState /\ NoBoard \in BoardState
<1>1. OrderList \in Lists
  BY DEF Lists
<1>2. NoWalk \in WalkState
  BY <1>1 DEF NoWalk, WalkState
<1>3. NoBoard \in BoardState
  BY ReportsAssumption DEF NoBoard, BoardState, Statements
<1> QED BY <1>2, <1>3

LEMMA ReportsStart == ReportsInit => ReportsTypeOK /\ RowsInv
<1> SUFFICES ASSUME ReportsInit PROVE ReportsTypeOK /\ RowsInv
  OBVIOUS
<1>1. PICK kind \in Kinds : rows = {Row(i, kind, 0) : i \in 1..Before}
  BY DEF ReportsInit
<1>2. rows \subseteq RowType /\ Taken = rows
  BY <1>1, ReportsAssumption DEF ReportsInit, Row, RowType, Taken
<1> DEFINE f == [i \in 1..Before |-> Row(i, kind, 0)]
<1>3. f \in Bijection(1..Before, rows)
  BY <1>1 DEF Row, Bijection, Injection, Surjection, IsInjective
<1>4. IsFiniteSet(1..Before) /\ Cardinality(1..Before) = Before
  BY FS_Interval, ReportsAssumption
<1>5. IsFiniteSet(rows) /\ Cardinality(rows) = Before
  BY <1>3, <1>4, FS_Bijection DEF ExistsBijection
<1>6. RowsInv
  <2>1. day = 0
    BY DEF ReportsInit
  <2> QED
    BY <1>1, <1>2, <1>5, <2>1 DEF RowsInv, Row
<1> QED
  BY <1>2, <1>6, IdleReaders, ReportsAssumption DEF ReportsInit, ReportsTypeOK

\* What is shown of finitely many rows.
LEMMA ShownRows ==
  ASSUME ReportsTypeOK, RowsInv, NEW list
  PROVE  /\ Shown(list) \subseteq rows /\ Shown(list) \subseteq RowType /\ IsFiniteSet(Shown(list))
         /\ Cardinality(Shown(list)) \in Nat
<1>1. Shown(list) \in SUBSET rows
  BY DEF Shown
<1>2. IsFiniteSet(Shown(list))
  BY <1>1, FS_Subset DEF RowsInv
<1> QED
  BY <1>1, <1>2, FS_CardinalityType DEF ReportsTypeOK

LEMMA PageTypes ==
  ASSUME ReportsTypeOK, RowsInv, NEW count \in Nat, ShowPage(count), UNCHANGED <<rows, writing, day, board>>
  PROVE  ReportsTypeOK'
<1> DEFINE pc == IF walk.page * PageSize < count THEN "count" ELSE "end"
           seen == walk.seen \cup Page(Shown(walk.list), walk.page)
           page == walk.page + 1
<1>1. pc \in {"idle", "count", "select", "end"}
  OBVIOUS
<1>2. seen \in SUBSET RowType /\ page \in Nat
  BY ShownRows DEF ReportsTypeOK, WalkState, Page
<1>3. walk' = [walk EXCEPT !.pc = pc, !.page = page, !.seen = seen]
  BY DEF ShowPage
<1> HIDE DEF pc, seen, page
<1>4. walk' \in WalkState
  BY <1>1, <1>2, <1>3 DEF ReportsTypeOK, WalkState
<1> QED
  BY <1>4 DEF ReportsTypeOK

LEMMA StatementFacts ==
  /\ DOMAIN Statements = 1..3 /\ Len(Statements) = 3
  /\ \A i \in 1..3 : Statements[i].name \in Names
  /\ Statements[1] = Figure("todayOne", {"static"}, TRUE)
  /\ Statements[2] = Figure("todayTwo", Dynamic, TRUE)
  /\ Statements[3] = Figure("totalReward", Earnings, FALSE)
<1>1. DOMAIN Statements = 1..3 /\ Len(Statements) = 3
  BY DEF Statements
<1>2. \A i \in 1..3 : Statements[i].name \in Names
  BY <1>1 DEF Names
<1> QED
  BY <1>1, <1>2 DEF Statements

LEMMA BoardTypes ==
  ASSUME ReportsTypeOK, RowsInv, ReadFigure
  PROVE  /\ ReportsTypeOK' /\ UNCHANGED <<rows, writing, day, walk>> /\ board.pc \in 1..3
         /\ \E n \in Nat :
              /\ n = Cardinality({r \in rows : /\ r.kind \in Statements[board.pc].kinds
                                               /\ Statements[board.pc].today => r.day = board.day})
              /\ board' = [pc |-> board.pc + 1, day |-> board.day,
                           figures |-> [board.figures EXCEPT ![Statements[board.pc].name] = n]]
<1> DEFINE name == Statements[board.pc].name
           read == {r \in rows : /\ r.kind \in Statements[board.pc].kinds
                                 /\ Statements[board.pc].today => r.day = board.day}
           n == Cardinality(read)
<1>1. board.pc \in 1..3 /\ name \in Names
  BY StatementFacts DEF ReadFigure
<1>2. n \in Nat
  <2>1. read \in SUBSET rows
    OBVIOUS
  <2>2. IsFiniteSet(read)
    BY <2>1, FS_Subset DEF RowsInv
  <2> QED
    BY <2>2, FS_CardinalityType
<1>3. board' = [board EXCEPT !.pc = @ + 1, !.figures[name] = n] /\ UNCHANGED <<rows, writing, day, walk>>
  BY DEF ReadFigure
<1>4. board \in BoardState
  BY DEF ReportsTypeOK
<1>5. n = Cardinality({r \in rows : /\ r.kind \in Statements[board.pc].kinds
                                    /\ Statements[board.pc].today => r.day = board.day})
  OBVIOUS
<1> HIDE DEF name, n
<1>6. board' = [pc |-> board.pc + 1, day |-> board.day, figures |-> [board.figures EXCEPT ![name] = n]]
  BY <1>3, <1>4 DEF BoardState
<1>7. board' \in BoardState
  BY <1>1, <1>2, <1>4, <1>6, StatementFacts DEF BoardState
<1>8. ReportsTypeOK'
  BY <1>3, <1>7 DEF ReportsTypeOK
<1> QED
  BY <1>1, <1>2, <1>3, <1>5, <1>6, <1>8 DEF name

LEMMA BoardOpens ==
  ASSUME ReportsTypeOK, NEW z \in BoardState
  PROVE  [z EXCEPT !.pc = 1, !.day = day] \in BoardState /\ [z EXCEPT !.pc = 1, !.day = day].pc = 1
<1>1. 1 \in 0..(Len(Statements) + 1) /\ day \in 0..MaxDay
  BY StatementFacts DEF ReportsTypeOK
<1> QED
  BY <1>1 DEF BoardState

LEMMA NoBoardTypes == NoBoard \in BoardState /\ NoBoard.pc = 0
BY StatementFacts, ReportsAssumption DEF NoBoard, BoardState

LEMMA StepReports ==
  ASSUME ReportsTypeOK, RowsInv, [ReportsNext]_reportVars PROVE ReportsTypeOK' /\ RowsInv'
<1>0. /\ rows \subseteq RowType /\ writing \subseteq RowType /\ day \in 0..MaxDay
      /\ walk \in WalkState /\ board \in BoardState
  BY DEF ReportsTypeOK
<1>1. ASSUME NEW kind \in Kinds, Stamp(kind) PROVE ReportsTypeOK' /\ RowsInv'
  <2> DEFINE new == Row(Cardinality(Taken) + 1, kind, day)
  <2>1. writing' = writing \cup {new} /\ UNCHANGED <<rows, day, walk, board>> /\ Taken' = Taken \cup {new}
    BY <1>1 DEF Stamp, Taken
  <2>2. Cardinality(Taken) \in Nat /\ Cardinality(Taken) < Before + MaxRows
    BY <1>1, FS_CardinalityType DEF Stamp, RowsInv
  <2>3. new \in RowType /\ new.at = Cardinality(Taken) + 1 /\ new.day = day
    BY <1>0, <2>2, ReportsAssumption DEF Row, RowType
  <2>4. new \notin Taken /\ \A r \in Taken : r.at # new.at
    BY <2>2, <2>3 DEF RowsInv
  <2> HIDE DEF new
  <2>5. IsFiniteSet(Taken') /\ Cardinality(Taken') = Cardinality(Taken) + 1
    BY <2>1, <2>4, FS_AddElement DEF RowsInv
  <2>6. \A r \in Taken' : r.at \in 1..Cardinality(Taken') /\ r.day <= day'
    BY <1>0, <2>1, <2>2, <2>3, <2>5 DEF RowsInv
  <2>7. ASSUME NEW r \in Taken', NEW s \in Taken'
        PROVE  (r.at = s.at => r = s) /\ (r.at <= s.at => r.day <= s.day)
    <3>1. CASE r \in Taken /\ s \in Taken
      BY <3>1 DEF RowsInv
    <3>2. CASE r = new /\ s \in Taken
      BY <2>2, <2>3, <3>2 DEF RowsInv
    <3>3. CASE s = new
      BY <1>0, <2>1, <2>3, <2>4, <2>6, <3>3
    <3> QED BY <2>1, <3>1, <3>2, <3>3
  <2>8. RowsInv'
    BY <2>1, <2>5, <2>6, <2>7 DEF RowsInv
  <2> QED
    BY <1>0, <2>1, <2>3, <2>8 DEF ReportsTypeOK
<1>2. ASSUME NEW r \in writing, Insert(r) PROVE ReportsTypeOK' /\ RowsInv'
  <2>1. rows' = rows \cup {r} /\ writing' = writing \ {r} /\ Taken' = Taken /\ UNCHANGED <<day, board>>
    BY <1>2 DEF Insert, Taken
  <2>2. IsFiniteSet(rows')
    BY <2>1, FS_AddElement DEF RowsInv
  <2>3. RowsInv'
    BY <2>1, <2>2 DEF RowsInv
  <2>4. walk' \in WalkState
    BY <1>0, <1>2 DEF Insert, WalkState
  <2> QED
    BY <1>0, <2>1, <2>3, <2>4 DEF ReportsTypeOK
<1>3. ASSUME UNCHANGED <<rows, writing, day>> PROVE RowsInv'
  BY <1>3 DEF RowsInv, Taken
<1>4. CASE Midnight
  <2>1. UNCHANGED <<rows, writing, walk, board>> /\ Taken' = Taken /\ day' = day + 1 /\ day' \in 0..MaxDay
    BY <1>0, <1>4, ReportsAssumption DEF Midnight, Taken
  <2>2. \A r \in Taken : r.day \in Int /\ r.day <= day'
    BY <1>0, <2>1 DEF RowsInv, RowType, Taken
  <2> QED
    BY <1>0, <2>1, <2>2 DEF ReportsTypeOK, RowsInv
<1>5. ASSUME NEW list \in Lists, Open(list) PROVE ReportsTypeOK' /\ RowsInv'
  <2>1. walk' = [pc |-> "count", list |-> list, page |-> 1, count |-> 0, there |-> Shown(list),
                 seen |-> {}, torn |-> FALSE]
    BY <1>5 DEF Open, NoWalk
  <2>2. walk' \in WalkState
    BY <2>1, ShownRows DEF WalkState
  <2> QED
    BY <1>0, <1>3, <1>5, <2>2 DEF Open, ReportsTypeOK
<1>6. CASE Count
  <2> DEFINE n == Cardinality(Shown(walk.list))
  <2>1. n \in Nat /\ walk' = [walk EXCEPT !.pc = "select", !.count = n, !.torn = FALSE]
    BY <1>6, ShownRows DEF Count
  <2> HIDE DEF n
  <2>2. walk' \in WalkState
    BY <1>0, <2>1 DEF WalkState
  <2> QED
    BY <1>0, <1>3, <1>6, <2>2 DEF Count, ReportsTypeOK
<1>7. CASE Select
  <2>1. walk.count \in Nat
    BY <1>0 DEF WalkState
  <2> QED
    BY <1>3, <1>7, <2>1, PageTypes DEF Select
<1>8. CASE PaginateSlice
  BY <1>3, <1>8, PageTypes, ShownRows DEF PaginateSlice
<1>9. CASE Close
  <2>1. OrderList \in Lists
    BY DEF Lists
  <2>2. NoWalk \in WalkState
    BY <2>1 DEF NoWalk, WalkState
  <2> QED
    BY <1>0, <1>3, <1>9, <2>2 DEF Close, ReportsTypeOK
<1>10. CASE OpenBoard \/ CloseBoard
  <2>1. board' \in BoardState
    BY <1>10, NoBoardTypes, BoardOpens DEF OpenBoard, CloseBoard
  <2> QED
    BY <1>0, <1>3, <1>10, <2>1 DEF OpenBoard, CloseBoard, ReportsTypeOK
<1>11. CASE ReadFigure
  BY <1>3, <1>11, BoardTypes
<1>12. CASE UNCHANGED reportVars
  BY <1>3, <1>12 DEF reportVars, ReportsTypeOK
<1> QED
  BY <1>1, <1>2, <1>4, <1>5, <1>6, <1>7, <1>8, <1>9, <1>10, <1>11, <1>12 DEF ReportsNext

\* Every variable of Reports has its type, and the rows are finitely many, each at a time of its own.
THEOREM ReportsTypeCorrect == ReportsSpec => [](ReportsTypeOK /\ RowsInv)
BY ReportsStart, StepReports, PTL DEF ReportsSpec

-----------------------------------------------------------------------------
(* Reports: who looks through a list *)

\* What the reader has not seen yet of what was there when he began, and still is, is ahead of him: it
\* stands below the pages he has read.  What he compares with at the last page counts all there is.
WalkInv ==
  /\ walk.there \subseteq rows
  /\ walk.pc \in {"count", "select"} =>
       /\ walk.page >= 1
       /\ \A r \in (walk.there \cap Shown(walk.list)) \ walk.seen :
            Place(Shown(walk.list), r) > (walk.page - 1) * PageSize
  /\ walk.pc = "select" => walk.list.counts
  /\ walk.pc = "select" /\ ~walk.torn => walk.count = Cardinality(Shown(walk.list))
  /\ NothingMissed

LEMMA TimesNat == ASSUME NEW m \in Nat, NEW n \in Nat PROVE m * n \in Nat
OBVIOUS

\* The page that is shown takes what stands on it out of what is unseen.
LEMMA StepPage ==
  ASSUME ReportsTypeOK, RowsInv, WalkInv, walk.pc \in {"count", "select"}, NEW count \in Nat,
         ShowPage(count), UNCHANGED <<rows, day>>,
         ~walk.torn => count = Cardinality(Shown(walk.list))
  PROVE  WalkInv'
<1> DEFINE T == Shown(walk.list)
           k == walk.page * PageSize
<1>1. walk \in WalkState /\ walk.page \in Nat /\ PageSize \in Nat
  BY ReportsAssumption DEF ReportsTypeOK, WalkState
<1>2. T \subseteq RowType /\ IsFiniteSet(T) /\ walk.there \subseteq rows
  BY ShownRows DEF WalkInv
<1>3. k \in Nat
  BY <1>1, TimesNat
<1>4. /\ walk'.pc = IF k < count THEN "count" ELSE "end"
      /\ walk'.page = walk.page + 1 /\ walk'.seen = walk.seen \cup Page(T, walk.page)
      /\ walk'.there = walk.there /\ walk'.list = walk.list /\ walk'.torn = walk.torn
  BY <1>1 DEF ShowPage, WalkState
<1>5. Shown(walk.list)' = T
  BY <1>4 DEF Shown
<1>6. ASSUME NEW r \in (walk.there \cap T) \ walk'.seen PROVE Place(T, r) > k /\ Place(T, r) <= Cardinality(T)
  <2>1. r \in T /\ r \notin Page(T, walk.page) /\ Place(T, r) > (walk.page - 1) * PageSize
    BY <1>2, <1>4, <1>6 DEF WalkInv
  <2>2. Place(T, r) \in Nat /\ Place(T, r) <= Cardinality(T)
    BY <1>2, <2>1, PlaceBounds
  <2> HIDE DEF T
  <2>3. ~(Place(T, r) <= walk.page * PageSize)
    BY <2>1 DEF Page
  <2>4. Place(T, r) > k
    BY <1>3, <2>2, <2>3
  <2> QED
    BY <2>2, <2>4
<1>7. walk'.page - 1 = walk.page /\ walk'.page >= 1
  BY <1>1, <1>4
<1>8. ASSUME walk'.pc = "end", ~walk'.torn PROVE walk.there \cap T \subseteq walk'.seen
  <2>1. count = Cardinality(T) /\ ~(k < count)
    BY <1>4, <1>8
  <2>2. SUFFICES ASSUME NEW r \in (walk.there \cap T) \ walk'.seen PROVE FALSE
    OBVIOUS
  <2>3. Place(T, r) > k /\ Place(T, r) <= Cardinality(T) /\ Place(T, r) \in Nat
    BY <1>2, <1>6, <2>2, PlaceBounds
  <2> HIDE DEF T, k
  <2> QED
    BY <1>3, <2>1, <2>3
<1>9. walk'.pc \in {"count", "select"} =>
        /\ walk'.page >= 1
        /\ \A r \in (walk'.there \cap Shown(walk.list)') \ walk'.seen :
             Place(Shown(walk.list)', r) > (walk'.page - 1) * PageSize
  <2>1. (walk'.page - 1) * PageSize = k
    BY <1>7
  <2> HIDE DEF T, k
  <2> QED
    BY <1>4, <1>5, <1>6, <1>7, <2>1
<1>10. walk'.pc # "select"
  BY <1>4
<1>11. \A U, r : Place(U, r)' = Place(U, r)
  BY DEF Place
<1>12. NothingMissed'
  BY <1>4, <1>5, <1>8 DEF NothingMissed
<1>13. (walk.there \subseteq rows)'
  BY <1>2, <1>4
<1> QED
  BY <1>9, <1>10, <1>11, <1>12, <1>13 DEF WalkInv

\* What is shown the last year only: at midnight rows leave from the end of the list, and those that stay
\* keep their places.  Every other list stays as it is.
LEMMA PlacesAtMidnight ==
  ASSUME ReportsTypeOK, RowsInv, Midnight
  PROVE  /\ Shown(walk.list)' \subseteq Shown(walk.list)
         /\ walk.list.counts => Shown(walk.list)' = Shown(walk.list)
         /\ \A r \in Shown(walk.list)' : Place(Shown(walk.list)', r) = Place(Shown(walk.list), r)
<1> DEFINE T == Shown(walk.list)
           U == Shown(walk.list)'
<1>1. /\ day \in Nat /\ day' = day + 1 /\ rows' = rows /\ walk' = walk /\ Window \in Nat
      /\ \A r \in rows : r.day \in Nat /\ r.at \in Nat
  BY ReportsAssumption DEF Midnight, ReportsTypeOK, RowType
<1>2. U \subseteq T
  BY <1>1 DEF Shown
<1>3. walk.list \in Lists
  BY DEF ReportsTypeOK, WalkState
<1>4. walk.list.counts => ~walk.list.recent
  <2>1. PICK kinds : walk.list \in {Sliced(kinds), Recent(kinds), Counted(kinds)}
    BY <1>3 DEF Lists, OrderList, WithdrawList, RewardList, DepositList,
                AdminWithdrawList, AdminUserList, AdminBuyList, AdminRewardList, AdminRecordList
  <2> QED
    BY <2>1 DEF Sliced, Recent, Counted
<1>5. walk.list.counts => U = T
  BY <1>1, <1>4 DEF Shown
<1>6. ASSUME NEW r \in U PROVE Place(U, r) = Place(T, r)
  <2>1. ASSUME NEW s \in T, s.at >= r.at PROVE s \in U
    <3>1. r \in rows /\ s \in rows /\ s.kind \in walk.list.kinds /\ (walk.list.recent => day' - r.day < Window)
      BY <1>1, <2>1 DEF Shown
    <3>2. r.day <= s.day
      BY <1>1, <2>1, <3>1 DEF RowsInv, Taken
    <3>3. walk.list.recent => day' - s.day < Window
      BY <1>1, <3>1, <3>2
    <3> QED
      BY <1>1, <3>1, <3>3 DEF Shown
  <2>2. {s \in U : s.at >= r.at} = {s \in T : s.at >= r.at}
    BY <1>2, <2>1
  <2> HIDE DEF T, U
  <2> QED
    BY <2>2 DEF Place
<1> QED
  BY <1>2, <1>5, <1>6

LEMMA StepWalk ==
  ASSUME ReportsTypeOK, RowsInv, WalkInv, [ReportsNext]_reportVars PROVE WalkInv'
<1>0. walk \in WalkState /\ rows \subseteq RowType
  BY DEF ReportsTypeOK
<1>1. ASSUME UNCHANGED <<rows, day, walk>> PROVE WalkInv'
  <2>1. Shown(walk.list)' = Shown(walk.list) /\ \A U, r : Place(U, r)' = Place(U, r)
    BY <1>1 DEF Shown, Place
  <2> QED
    BY <1>1, <2>1 DEF WalkInv, NothingMissed
<1>2. ASSUME NEW r \in writing, Insert(r) PROVE WalkInv'
  <2> DEFINE T == Shown(walk.list)
             U == Shown(walk.list)'
  <2>1. /\ rows' = rows \cup {r} /\ day' = day
        /\ walk' = IF walk.pc = "select" THEN [walk EXCEPT !.torn = TRUE] ELSE walk
    BY <1>2 DEF Insert
  <2>2. /\ walk'.pc = walk.pc /\ walk'.list = walk.list /\ walk'.page = walk.page /\ walk'.count = walk.count
        /\ walk'.there = walk.there /\ walk'.seen = walk.seen
        /\ walk'.torn = IF walk.pc = "select" THEN TRUE ELSE walk.torn
    BY <1>0, <2>1 DEF WalkState
  <2>3. T \subseteq U /\ U \subseteq rows'
    BY <2>1, <2>2 DEF Shown
  <2>4. IsFiniteSet(U)
    <3>1. IsFiniteSet(rows')
      BY <2>1, FS_AddElement DEF RowsInv
    <3> HIDE DEF U
    <3> QED
      BY <2>3, <3>1, FS_Subset
  <2>a. ASSUME NEW s \in rows, s \in U PROVE s \in T
    BY <2>1, <2>2, <2>a DEF Shown
  <2>5. ASSUME walk.pc \in {"count", "select"}, NEW s \in (walk.there \cap U) \ walk.seen
        PROVE  Place(U, s) > (walk.page - 1) * PageSize
    <3> DEFINE k == (walk.page - 1) * PageSize
    <3>1. walk.page - 1 \in Nat /\ PageSize \in Nat
      BY <1>0, <2>5, ReportsAssumption DEF WalkInv, WalkState
    <3>2. k \in Nat
      BY <3>1, TimesNat
    <3>3. Place(T, s) > k
      BY <2>5, <2>a DEF WalkInv
    <3> HIDE DEF T, U, k
    <3>4. Place(T, s) \in Nat /\ Place(U, s) \in Nat /\ Place(T, s) <= Place(U, s)
      BY <2>3, <2>4, PlaceGrows
    <3>5. Place(U, s) > k
      BY <3>2, <3>3, <3>4
    <3> QED
      BY <3>5 DEF k
  <2>6. \A V, s : Place(V, s)' = Place(V, s)
    BY DEF Place
  <2>7. (walk.pc \in {"count", "select"} => walk.page >= 1) /\ (walk.pc = "select" => walk.list.counts)
    BY DEF WalkInv
  <2>b. walk.there \subseteq rows /\ walk.there \subseteq rows'
    BY <2>1 DEF WalkInv
  <2>8. NothingMissed'
    <3>1. SUFFICES ASSUME walk.pc = "end", ~walk.torn, NEW s \in walk.there, s \in U PROVE s \in walk.seen
      BY <2>2 DEF NothingMissed
    <3>2. s \in T
      BY <2>a, <2>b, <3>1
    <3> QED
      BY <3>1, <3>2 DEF WalkInv, NothingMissed
  <2>9. U = Shown(walk.list)'
    OBVIOUS
  <2> HIDE DEF T, U
  <2> QED
    BY <2>2, <2>5, <2>6, <2>7, <2>8, <2>9, <2>b DEF WalkInv
<1>3. ASSUME NEW list \in Lists, Open(list) PROVE WalkInv'
  <2>1. walk' = [pc |-> "count", list |-> list, page |-> 1, count |-> 0, there |-> Shown(list),
                 seen |-> {}, torn |-> FALSE] /\ rows' = rows /\ day' = day
    BY <1>3 DEF Open, NoWalk
  <2>2. Shown(walk.list)' = Shown(list) /\ \A V, s : Place(V, s)' = Place(V, s)
    BY <2>1 DEF Shown, Place
  <2>3. (walk'.page - 1) * PageSize = 0
    BY <2>1, ReportsAssumption
  <2>4. Shown(list) \subseteq rows /\ \A r \in Shown(list) : Place(Shown(list), r) > 0
    BY ShownRows, PlaceBounds
  <2> QED
    BY <2>1, <2>2, <2>3, <2>4 DEF WalkInv, NothingMissed
<1>4. CASE Count
  <2>1. /\ walk'.pc = "select" /\ walk'.list = walk.list /\ walk'.page = walk.page /\ walk.pc = "count"
        /\ walk'.count = Cardinality(Shown(walk.list)) /\ rows' = rows /\ day' = day
        /\ walk'.there = walk.there /\ walk'.seen = walk.seen /\ walk.list.counts
    BY <1>0, <1>4 DEF Count, WalkState
  <2>2. Shown(walk.list)' = Shown(walk.list) /\ \A V, s : Place(V, s)' = Place(V, s)
    BY <2>1 DEF Shown, Place
  <2> QED
    BY <2>1, <2>2 DEF WalkInv, NothingMissed
<1>5. CASE Select
  <2>1. walk.count \in Nat /\ walk.pc = "select" /\ ShowPage(walk.count) /\ UNCHANGED <<rows, day>>
    BY <1>0, <1>5 DEF Select, WalkState
  <2>2. ~walk.torn => walk.count = Cardinality(Shown(walk.list))
    BY <2>1 DEF WalkInv
  <2> QED
    BY <2>1, <2>2, StepPage
<1>6. CASE PaginateSlice
  <2> DEFINE n == Cardinality(Shown(walk.list))
  <2>1. n \in Nat /\ walk.pc = "count" /\ ShowPage(n) /\ UNCHANGED <<rows, day>>
    BY <1>6, ShownRows DEF PaginateSlice
  <2>2. n = Cardinality(Shown(walk.list))
    OBVIOUS
  <2> HIDE DEF n
  <2> QED
    BY <2>1, <2>2, StepPage
<1>7. CASE Close
  BY <1>7 DEF Close, NoWalk, WalkInv, NothingMissed
<1>8. CASE UNCHANGED reportVars
  BY <1>1, <1>8 DEF reportVars
<1>9. CASE Midnight
  <2> DEFINE T == Shown(walk.list)
             U == Shown(walk.list)'
  <2>1. rows' = rows /\ walk' = walk
    BY <1>9 DEF Midnight
  <2>2. U \subseteq T /\ (walk.list.counts => U = T) /\ \A r \in U : Place(U, r) = Place(T, r)
    BY <1>9, PlacesAtMidnight
  <2>3. \A V, s : Place(V, s)' = Place(V, s)
    BY DEF Place
  <2>4. U = Shown(walk.list)' /\ T = Shown(walk.list)
    OBVIOUS
  <2> HIDE DEF T, U
  <2>5. NothingMissed'
    BY <2>1, <2>2, <2>4 DEF WalkInv, NothingMissed
  <2>6. walk.pc = "select" /\ ~walk.torn => walk.count = Cardinality(U)
    BY <2>2, <2>4 DEF WalkInv
  <2>7. walk.pc \in {"count", "select"} =>
          \A r \in (walk.there \cap U) \ walk.seen : Place(U, r) > (walk.page - 1) * PageSize
    BY <2>2, <2>4 DEF WalkInv
  <2>8. /\ walk.there \subseteq rows
        /\ walk.pc \in {"count", "select"} => walk.page >= 1
        /\ walk.pc = "select" => walk.list.counts
    BY DEF WalkInv
  <2> QED
    BY <2>1, <2>3, <2>4, <2>5, <2>6, <2>7, <2>8 DEF WalkInv
<1> QED
  BY <1>1, <1>2, <1>3, <1>4, <1>5, <1>6, <1>7, <1>8, <1>9
  DEF ReportsNext, Stamp, OpenBoard, ReadFigure, CloseBoard

\* Whoever looks through a list to its end has seen all that was in it when he began and still is, whatever
\* is inserted meanwhile and wherever and whatever grows too old for it, at any page size; unless a row came between the COUNT and the SELECT of his
\* last page.
THEOREM ReadersMissNothing == ReportsSpec => []NothingMissed
<1>1. ReportsInit => WalkInv
  BY DEF ReportsInit, WalkInv, NothingMissed, NoWalk
<1>2. ReportsSpec => [](ReportsTypeOK /\ RowsInv /\ WalkInv)
  BY <1>1, ReportsStart, StepReports, StepWalk, PTL DEF ReportsSpec
<1> QED
  BY <1>2, PTL DEF WalkInv

-----------------------------------------------------------------------------
(* Reports: the dashboard *)

Today(kinds) == {r \in rows : r.kind \in kinds /\ r.day = board.day}

\* Rows stay, so today's figures are never more than what could be counted now; the total is read after them.
BoardInv ==
  /\ board.pc \in {2, 3} => board.figures["todayOne"] <= Cardinality(Today({"static"}))
  /\ board.pc = 3 => board.figures["todayTwo"] <= Cardinality(Today(Dynamic))
  /\ board.pc = 4 => board.figures["todayOne"] + board.figures["todayTwo"] <= board.figures["totalReward"]

LEMMA TodayGrows ==
  ASSUME RowsInv', rows \subseteq rows', board'.day = board.day, NEW kinds
  PROVE  /\ Cardinality(Today(kinds)) \in Nat /\ Cardinality(Today(kinds)') \in Nat
         /\ Cardinality(Today(kinds)) <= Cardinality(Today(kinds)')
<1> DEFINE T == Today(kinds)
           U == Today(kinds)'
<1>1. T \in SUBSET U /\ U \in SUBSET rows'
  BY DEF Today
<1>2. IsFiniteSet(rows')
  BY DEF RowsInv
<1> HIDE DEF T, U
<1>3. IsFiniteSet(U)
  BY <1>1, <1>2, FS_Subset
<1>4. IsFiniteSet(T) /\ Cardinality(T) <= Cardinality(U)
  BY <1>1, <1>3, FS_Subset
<1>5. Cardinality(T) \in Nat /\ Cardinality(U) \in Nat
  BY <1>3, <1>4, FS_CardinalityType
<1> QED
  BY <1>4, <1>5 DEF T, U

LEMMA SomeNames == {"todayOne", "todayTwo", "totalReward"} \subseteq Names
<1>1. Statements[1].name = "todayOne" /\ Statements[2].name = "todayTwo" /\ Statements[3].name = "totalReward"
  BY StatementFacts DEF Figure
<1>2. \A i \in 1..3 : Statements[i].name \in Names
  BY StatementFacts
<1> QED
  BY <1>1, <1>2

\* The earnings of today, of both sorts, are among all earnings.
LEMMA TodayAmongAll ==
  ASSUME RowsInv
  PROVE  /\ Cardinality(Today({"static"})) \in Nat /\ Cardinality(Today(Dynamic)) \in Nat
         /\ Cardinality({r \in rows : r.kind \in Earnings}) \in Nat
         /\ Cardinality(Today({"static"})) + Cardinality(Today(Dynamic))
              <= Cardinality({r \in rows : r.kind \in Earnings})
<1> DEFINE S == Today({"static"})
           D == Today(Dynamic)
           E == {r \in rows : r.kind \in Earnings}
<1>1. S \in SUBSET E /\ D \in SUBSET E /\ E \in SUBSET rows /\ S \cap D = {} /\ S \cup D \in SUBSET E
  BY DEF Today, Dynamic, Earnings
<1> HIDE DEF S, D, E
<1>2. IsFiniteSet(E) /\ Cardinality(E) \in Nat
  BY <1>1, FS_Subset, FS_CardinalityType DEF RowsInv
<1>3. IsFiniteSet(S) /\ IsFiniteSet(D)
  BY <1>1, <1>2, FS_Subset
<1>4. Cardinality(S) \in Nat /\ Cardinality(D) \in Nat
  BY <1>3, FS_CardinalityType
<1>5. Cardinality(S \cup D) = Cardinality(S) + Cardinality(D) - Cardinality(S \cap D) /\ Cardinality(S \cap D) = 0
  BY <1>1, <1>3, FS_Union, FS_EmptySet
<1>6. Cardinality(S \cup D) <= Cardinality(E)
  BY <1>1, <1>2, FS_Subset
<1>7. Cardinality(S) + Cardinality(D) <= Cardinality(E)
  BY <1>4, <1>5, <1>6
<1> QED
  BY <1>2, <1>4, <1>7 DEF S, D, E

LEMMA StepBoard ==
  ASSUME ReportsTypeOK, RowsInv, BoardInv, RowsInv', [ReportsNext]_reportVars PROVE BoardInv'
<1>0. board \in BoardState /\ board.pc \in 0..4
  BY StatementFacts DEF ReportsTypeOK, BoardState
<1>1. ASSUME rows \subseteq rows', UNCHANGED board PROVE BoardInv'
  <2>1. board.figures["todayOne"] \in Nat /\ board.figures["todayTwo"] \in Nat
    BY <1>0, SomeNames DEF BoardState
  <2>2. /\ Cardinality(Today({"static"})) \in Nat /\ Cardinality(Today({"static"})') \in Nat
        /\ Cardinality(Today({"static"})) <= Cardinality(Today({"static"})')
    BY <1>1, TodayGrows
  <2>3. /\ Cardinality(Today(Dynamic)) \in Nat /\ Cardinality(Today(Dynamic)') \in Nat
        /\ Cardinality(Today(Dynamic)) <= Cardinality(Today(Dynamic)')
    BY <1>1, TodayGrows
  <2>4. Dynamic' = Dynamic
    BY DEF Dynamic
  <2>5. ASSUME board'.pc \in {2, 3} PROVE board'.figures["todayOne"] <= Cardinality(Today({"static"})')
    <3>1. board.figures["todayOne"] <= Cardinality(Today({"static"}))
      BY <1>1, <2>5 DEF BoardInv
    <3>2. board.figures["todayOne"] <= Cardinality(Today({"static"})')
      BY <2>1, <2>2, <3>1
    <3> QED
      BY <1>1, <3>2
  <2>6. ASSUME board'.pc = 3 PROVE board'.figures["todayTwo"] <= Cardinality(Today(Dynamic)')
    <3>1. board.figures["todayTwo"] <= Cardinality(Today(Dynamic))
      BY <1>1, <2>6 DEF BoardInv
    <3>2. board.figures["todayTwo"] <= Cardinality(Today(Dynamic)')
      BY <2>1, <2>3, <3>1
    <3> QED
      BY <1>1, <3>2
  <2> QED
    BY <1>1, <2>5, <2>6 DEF BoardInv
<1>2. ASSUME NEW r \in writing, Insert(r) PROVE BoardInv'
  BY <1>1, <1>2 DEF Insert
<1>3. CASE OpenBoard \/ CloseBoard
  <2>1. board'.pc \in {0, 1}
    BY <1>3, NoBoardTypes, BoardOpens DEF OpenBoard, CloseBoard
  <2> QED
    BY <2>1 DEF BoardInv
<1>4. CASE ReadFigure
  <2>1. /\ UNCHANGED <<rows, writing, day, walk>> /\ board.pc \in 1..3
        /\ \E n \in Nat :
             /\ n = Cardinality({r \in rows : /\ r.kind \in Statements[board.pc].kinds
                                              /\ Statements[board.pc].today => r.day = board.day})
             /\ board' = [pc |-> board.pc + 1, day |-> board.day,
                          figures |-> [board.figures EXCEPT ![Statements[board.pc].name] = n]]
    BY <1>4, BoardTypes
  <2>2. PICK n \in Nat :
          /\ n = Cardinality({r \in rows : /\ r.kind \in Statements[board.pc].kinds
                                           /\ Statements[board.pc].today => r.day = board.day})
          /\ board' = [pc |-> board.pc + 1, day |-> board.day,
                       figures |-> [board.figures EXCEPT ![Statements[board.pc].name] = n]]
    BY <2>1
  <2>3. board'.pc = board.pc + 1 /\ board'.figures = [board.figures EXCEPT ![Statements[board.pc].name] = n]
    BY <2>2
  <2>4. board.figures \in [Names -> Nat]
    BY <1>0 DEF BoardState
  <2>5. Today({"static"})' = Today({"static"}) /\ Today(Dynamic)' = Today(Dynamic)
    BY <2>1, <2>2 DEF Today, Dynamic
  <2>6. CASE board.pc = 1
    <3>1. n = Cardinality(Today({"static"})) /\ Statements[1].name = "todayOne"
      BY <2>2, <2>6, StatementFacts DEF Figure, Today
    <3>2. board'.figures["todayOne"] = n /\ board'.pc = 2
      BY <2>3, <2>4, <2>6, <3>1, SomeNames
    <3> QED
      BY <2>5, <3>1, <3>2 DEF BoardInv
  <2>7. CASE board.pc = 2
    <3>1. n = Cardinality(Today(Dynamic)) /\ Statements[2].name = "todayTwo"
      BY <2>2, <2>7, StatementFacts DEF Figure, Today
    <3>2. board'.figures["todayTwo"] = n /\ board'.figures["todayOne"] = board.figures["todayOne"] /\ board'.pc = 3
      BY <2>3, <2>4, <2>7, <3>1, SomeNames
    <3> QED
      BY <2>5, <2>7, <3>1, <3>2 DEF BoardInv
  <2>8. CASE board.pc = 3
    <3> DEFINE all == Cardinality({r \in rows : r.kind \in Earnings})
    <3>1. n = all /\ Statements[3].name = "totalReward"
      BY <2>2, <2>8, StatementFacts DEF Figure
    <3>2. /\ board'.figures["todayTwo"] = board.figures["todayTwo"] /\ board'.pc = 4
          /\ board'.figures["todayOne"] = board.figures["todayOne"] /\ board'.figures["totalReward"] = n
      BY <2>3, <2>4, <2>8, <3>1, SomeNames
    <3>3. board.figures["todayOne"] \in Nat /\ board.figures["todayTwo"] \in Nat
      BY <2>4, SomeNames
    <3>4. /\ board.figures["todayOne"] <= Cardinality(Today({"static"}))
          /\ board.figures["todayTwo"] <= Cardinality(Today(Dynamic))
      BY <2>8 DEF BoardInv
    <3>5. /\ Cardinality(Today({"static"})) \in Nat /\ Cardinality(Today(Dynamic)) \in Nat /\ all \in Nat
          /\ Cardinality(Today({"static"})) + Cardinality(Today(Dynamic)) <= all
      BY TodayAmongAll
    <3> HIDE DEF all
    <3>6. board.figures["todayOne"] + board.figures["todayTwo"] <= all
      BY <3>3, <3>4, <3>5
    <3> QED
      BY <3>1, <3>2, <3>6 DEF BoardInv
  <2> QED
    BY <2>1, <2>6, <2>7, <2>8
<1>5. ASSUME UNCHANGED <<rows, board>> PROVE BoardInv'
  BY <1>1, <1>5
<1> QED
  BY <1>2, <1>3, <1>4, <1>5
  DEF ReportsNext, reportVars, Stamp, Midnight, Open, Count, Select, PaginateSlice, Close

\* On a finished dashboard today's earnings of both sorts are no more than all earnings beside them,
\* however many rows settlements write between the statements that count them.
THEOREM TodayIsWithinTotal == ReportsSpec => []TodayWithinTotal
<1>1. ReportsInit => BoardInv
  BY DEF ReportsInit, BoardInv, NoBoard
<1>2. BoardInv => TodayWithinTotal
  <2>1. Len(Statements) + 1 = 4
    BY StatementFacts
  <2> QED
    BY <2>1 DEF BoardInv, TodayWithinTotal
<1>3. ReportsSpec => [](ReportsTypeOK /\ RowsInv /\ BoardInv)
  BY <1>1, ReportsStart, StepReports, StepBoard, PTL DEF ReportsSpec
<1> QED
  BY <1>2, <1>3, PTL

-----------------------------------------------------------------------------
(* Rules: gap rates along a chain of inviters *)

\* A set of numbers up to m that is not empty has a largest one, and Max is it.
LEMMA MaxUpTo ==
  ASSUME NEW m \in Nat, NEW S \in SUBSET (0..m), S # {}
  PROVE  Max(S) \in S /\ \A x \in S : x <= Max(S)
<1> DEFINE B == {m - x : x \in S}
<1>1. B \in SUBSET Nat /\ B # {}
  <2>1. \A x \in S : x \in 0..m /\ m - x \in Nat
    OBVIOUS
  <2> QED BY <2>1
<1>2. PICK b \in B : \A c \in B : b <= c
  <2> HIDE DEF B
  <2> QED BY <1>1, NatMinimal
<1>3. PICK y \in S : b = m - y
  BY <1>2
<1>4. \A x \in S : x <= y
  <2> TAKE x \in S
  <2>1. m - x \in B
    OBVIOUS
  <2>2. b <= m - x
    BY <1>2, <2>1
  <2> QED BY <1>3, <2>2
<1>5. \E z \in S : \A x \in S : z >= x
  BY <1>4
<1> QED BY <1>5 DEF Max

LEMMA RewardsMax == ASSUME NEW S PROVE Rewards!Max(S) = Max(S)
BY DEF Rewards!Max, Max

LEMMA RewardsCardinality == ASSUME NEW S PROVE Rewards!Cardinality(S) = Cardinality(S)
BY DEF Rewards!Cardinality, Cardinality

LEMMA LastOfChain == ASSUME NEW n \in Nat \ {0}, Chain = 1..n PROVE Source = n
<1>1. Chain \in SUBSET (0..n) /\ n \in Chain
  OBVIOUS
<1>2. Max(Chain) \in Chain /\ \A x \in Chain : x <= Max(Chain)
  BY <1>1, MaxUpTo
<1>3. n <= Max(Chain) /\ Max(Chain) <= n /\ Max(Chain) \in Nat
  BY <1>1, <1>2
<1> QED BY <1>3 DEF Source

\* The function Above recurs with, and what it is: the k people next above.
Host == [u \in Chain |-> u - 1]

Climbing(up, n) ==
  up = [k \in 0..n |-> [u \in Chain |-> IF k = 0 \/ Host[u] = 0 THEN {} ELSE {Host[u]} \cup up[k - 1][Host[u]]]]

NextAbove(u, k) == {w \in Chain : w < u /\ u - w <= k}

LEMMA NextAboveGrows ==
  ASSUME NEW n \in Nat \ {0}, Chain = 1..n, NEW k \in 0..n, NEW u \in Chain
  PROVE  NextAbove(u, k) = IF k = 0 \/ Host[u] = 0 THEN {} ELSE {Host[u]} \cup NextAbove(Host[u], k - 1)
<1> Host[u] = u - 1
  BY DEF Host
<1>1. CASE k = 0 \/ u - 1 = 0
  BY <1>1 DEF NextAbove
<1>2. CASE ~(k = 0 \/ u - 1 = 0)
  <2>1. u - 1 \in Chain /\ k \in Nat /\ u \in Nat
    BY <1>2
  <2>2. ASSUME NEW w \in Chain
        PROVE  w \in NextAbove(u, k) <=> w = u - 1 \/ w \in NextAbove(u - 1, k - 1)
    <3>1. w \in Nat
      OBVIOUS
    <3>2. (w < u /\ u - w <= k) <=> (w = u - 1 \/ (w < u - 1 /\ (u - 1) - w <= k - 1))
      BY <1>2, <2>1, <3>1
    <3> QED BY <3>2 DEF NextAbove
  <2> QED BY <1>2, <2>1, <2>2 DEF NextAbove
<1> QED BY <1>1, <1>2

LEMMA AboveInChain ==
  ASSUME NEW n \in Nat \ {0}, Chain = 1..n, NEW v \in Chain
  PROVE  Rewards!Above[v] = 1..(v - 1)
<1>0. \A u \in Chain : Host[u] = u - 1 /\ (Host[u] # 0 => Host[u] \in Chain)
  BY DEF Host
<1> DEFINE U == CHOOSE up : Climbing(up, n)
           F == [k \in 0..n |-> [u \in Chain |-> NextAbove(u, k)]]
<1>1. Climbing(F, n)
  <2> DEFINE G(k, u) == IF k = 0 \/ Host[u] = 0 THEN {} ELSE {Host[u]} \cup F[k - 1][Host[u]]
  <2>1. ASSUME NEW k \in 0..n, NEW u \in Chain PROVE NextAbove(u, k) = G(k, u)
    <3>1. CASE k = 0 \/ Host[u] = 0
      BY <3>1, NextAboveGrows
    <3>2. CASE ~(k = 0 \/ Host[u] = 0)
      <4>1. k - 1 \in 0..n /\ Host[u] \in Chain
        BY <1>0, <3>2
      <4>2. F[k - 1][Host[u]] = NextAbove(Host[u], k - 1)
        BY <4>1
      <4> QED BY <3>2, <4>2, NextAboveGrows
    <3> QED BY <3>1, <3>2
  <2>2. F = [k \in 0..n |-> [u \in Chain |-> G(k, u)]]
    <3> HIDE DEF G
    <3> QED BY <2>1
  <2> QED BY <2>2 DEF Climbing
<1>2. Climbing(U, n)
  BY <1>1
<1>3. Rewards!Above = U[n]
  <2>1. Rewards!Cardinality(Chain) = n
    BY RewardsCardinality, FS_Interval
  <2> QED BY <2>1 DEF Rewards!Above, Climbing, Host
<1> HIDE DEF U
<1> DEFINE Wrong == {k \in 0..n : \E u \in Chain : U[k][u] # NextAbove(u, k)}
<1>4. Wrong = {}
  <2>1. SUFFICES ASSUME Wrong # {} PROVE FALSE
    OBVIOUS
  <2>2. PICK k \in Wrong : \A j \in Wrong : k <= j
    <3>1. Wrong \in SUBSET Nat
      OBVIOUS
    <3> HIDE DEF Wrong
    <3> QED BY <2>1, <3>1, NatMinimal
  <2>3. PICK u \in Chain : U[k][u] # NextAbove(u, k)
    BY <2>2
  <2>4. U[k][u] = IF k = 0 \/ Host[u] = 0 THEN {} ELSE {Host[u]} \cup U[k - 1][Host[u]]
    <3>1. U[k] = [w \in Chain |-> IF k = 0 \/ Host[w] = 0 THEN {} ELSE {Host[w]} \cup U[k - 1][Host[w]]]
      BY <1>2, <2>2 DEF Climbing
    <3> QED BY <3>1
  <2>5. ~(k = 0 \/ Host[u] = 0)
    BY <2>2, <2>3, <2>4, NextAboveGrows
  <2>6. k - 1 \in 0..n /\ k - 1 \notin Wrong /\ Host[u] \in Chain
    <3>1. k \in 0..n /\ k # 0 /\ Host[u] # 0
      BY <2>2, <2>5
    <3>2. k - 1 \in 0..n /\ ~(k <= k - 1)
      BY <3>1
    <3>3. Host[u] \in Chain
      BY <1>0, <3>1
    <3> HIDE DEF Wrong
    <3> QED BY <2>2, <3>2, <3>3
  <2>7. U[k - 1][Host[u]] = NextAbove(Host[u], k - 1)
    BY <2>6
  <2> QED BY <2>2, <2>3, <2>4, <2>5, <2>7, NextAboveGrows
<1>5. U[n][v] = NextAbove(v, n)
  <2>1. n \in 0..n
    OBVIOUS
  <2> QED BY <1>4, <2>1
<1>6. NextAbove(v, n) = 1..(v - 1)
  BY DEF NextAbove
<1> QED BY <1>3, <1>5, <1>6

LEMMA BetweenInChain ==
  ASSUME NEW n \in Nat \ {0}, Chain = 1..n, NEW u \in Chain
  PROVE  Rewards!Between(n, u) = (u + 1)..(n - 1)
<1>1. Rewards!Above[n] = 1..(n - 1)
  BY AboveInChain
<1>2. {w \in Chain : u \in Rewards!Above[w]} = (u + 1)..n
  <2>1. \A w \in Chain : Rewards!Above[w] = 1..(w - 1)
    BY AboveInChain
  <2> QED BY <2>1
<1>3. Rewards!Between(n, u) = Rewards!Above[n] \cap {w \in Chain : u \in Rewards!Above[w]}
  BY DEF Rewards!Between, Rewards!Below
<1> QED BY <1>1, <1>2, <1>3

\* The question about rewards, as it is asked, and rates that do not fall.
Asking(rates, level) ==
  /\ asked.rates = rates /\ rates \in [1..TopLevel -> Nat]
  /\ \A l, k \in 1..TopLevel : l <= k => rates[l] <= rates[k]
  /\ level \in [Chain \ {Source} -> 0..TopLevel]

RateOf(rates, l) == IF l \in 1..TopLevel THEN rates[l] ELSE 0

LEMMA RateGrows ==
  ASSUME NEW rates, NEW level, Asking(rates, level)
  PROVE  /\ \A l \in 0..TopLevel : RateOf(rates, l) \in Nat /\ Rewards!RateForLevel(l) = RateOf(rates, l)
         /\ \A l, k \in 0..TopLevel : l <= k => RateOf(rates, l) <= RateOf(rates, k)
<1>1. DOMAIN rates = 1..TopLevel /\ TopLevel \in Nat
  BY RulesAssumption DEF Asking
<1>2. ASSUME NEW l \in 0..TopLevel
      PROVE  RateOf(rates, l) \in Nat /\ Rewards!RateForLevel(l) = RateOf(rates, l)
  <2>1. RateOf(rates, l) \in Nat
    BY <1>1 DEF Asking, RateOf
  <2>2. Rewards!RateForLevel(l) = IF l \in DOMAIN rates THEN rates[l] ELSE 0
    BY DEF Rewards!RateForLevel, Asking
  <2> QED BY <1>1, <2>1, <2>2 DEF RateOf
<1>3. ASSUME NEW l \in 0..TopLevel, NEW k \in 0..TopLevel, l <= k
      PROVE  RateOf(rates, l) <= RateOf(rates, k)
  <2>1. CASE l = 0
    BY <1>1, <1>2, <2>1 DEF RateOf
  <2>2. CASE l # 0
    <3>1. l \in 1..TopLevel /\ k \in 1..TopLevel
      BY <1>1, <1>3, <2>2
    <3> QED BY <1>3, <3>1 DEF RateOf, Asking
  <2> QED BY <2>1, <2>2
<1> QED BY <1>2, <1>3

\* The highest level of those from k on, up to the inviter of the source.
TopOf(level, k, n) == Max({0} \cup {level[w] : w \in k..(n - 1)})

LEMMA TopOfSome ==
  ASSUME NEW n \in Nat \ {0}, NEW level \in [1..(n - 1) -> 0..TopLevel], NEW k \in 1..n
  PROVE  /\ TopOf(level, k, n) \in 0..TopLevel
         /\ TopOf(level, k, n) = 0 \/ \E w \in k..(n - 1) : TopOf(level, k, n) = level[w]
         /\ \A w \in k..(n - 1) : level[w] <= TopOf(level, k, n)
<1> DEFINE S == {0} \cup {level[w] : w \in k..(n - 1)}
<1>0. TopLevel \in Nat
  BY RulesAssumption
<1>1. \A w \in k..(n - 1) : w \in 1..(n - 1) /\ level[w] \in 0..TopLevel
  OBVIOUS
<1>2. S \in SUBSET (0..TopLevel) /\ S # {} /\ 0 \in S
  BY <1>0, <1>1
<1>3. Max(S) \in S /\ \A x \in S : x <= Max(S)
  <2> HIDE DEF S
  <2> QED BY <1>0, <1>2, MaxUpTo
<1>4. TopOf(level, k, n) = Max(S)
  BY DEF TopOf
<1>5. \A w \in k..(n - 1) : level[w] \in S
  OBVIOUS
<1>6. Max(S) = 0 \/ \E w \in k..(n - 1) : Max(S) = level[w]
  BY <1>3
<1> HIDE DEF S
<1> QED BY <1>2, <1>3, <1>4, <1>5, <1>6

\* One person more on the way up: either somebody below holds his level already and he gets nothing,
\* or his level is the highest so far and he gets what his rate is above the rate of the one before.
LEMMA GapStep ==
  ASSUME NEW n \in Nat \ {0}, Chain = 1..n, NEW rates, NEW level, Asking(rates, level), NEW k \in 1..(n - 1)
  PROVE  LET gap == Rewards!GapRate(n, k, level)
             below == RateOf(rates, TopOf(level, k + 1, n))
             here == RateOf(rates, TopOf(level, k, n))
         IN  gap \in Int /\ below \in Nat /\ here \in Nat /\ below <= here
             /\ (k = n - 1 => below = 0)
             /\ Max({0, gap}) \in Nat /\ Max({0, gap}) <= here - below
<1> DEFINE gap == Rewards!GapRate(n, k, level)
           t == TopOf(level, k + 1, n)
           s == TopOf(level, k, n)
<1>0. Source = n /\ Chain \ {Source} = 1..(n - 1) /\ level \in [1..(n - 1) -> 0..TopLevel]
      /\ k \in Chain /\ n \in Chain /\ TopLevel \in Nat
  <2>1. Source = n
    BY LastOfChain
  <2>2. Chain \ {Source} = 1..(n - 1)
    BY <2>1
  <2> QED BY <2>1, <2>2, RulesAssumption DEF Asking
<1>1. /\ t \in 0..TopLevel /\ s \in 0..TopLevel
      /\ t = 0 \/ \E w \in (k + 1)..(n - 1) : t = level[w]
      /\ s = 0 \/ \E w \in k..(n - 1) : s = level[w]
      /\ \A w \in (k + 1)..(n - 1) : level[w] <= t
      /\ \A w \in k..(n - 1) : level[w] <= s
  <2>1. k \in 1..n /\ k + 1 \in 1..n
    OBVIOUS
  <2> HIDE DEF Asking
  <2> QED BY <1>0, <2>1, TopOfSome
<1>2. level[k] \in 0..TopLevel /\ level[k] <= s /\ t <= s
  <2>1. k \in k..(n - 1) /\ \A w \in (k + 1)..(n - 1) : w \in k..(n - 1)
    OBVIOUS
  <2>2. level[k] \in 0..TopLevel
    BY <1>0
  <2> HIDE DEF s, t
  <2> QED BY <1>1, <2>1, <2>2
<1>3. s = t \/ s = level[k]
  <2>1. CASE s = 0
    BY <1>1, <1>2, <2>1
  <2>2. ASSUME NEW w \in (k + 1)..(n - 1), s = level[w] PROVE s = t
    <3>1. s <= t
      BY <1>1, <2>2
    <3> HIDE DEF s, t
    <3> QED BY <1>1, <1>2, <3>1
  <2>3. \A w \in k..(n - 1) : w = k \/ w \in (k + 1)..(n - 1)
    OBVIOUS
  <2> HIDE DEF s, t
  <2> QED BY <1>1, <2>1, <2>2, <2>3
<1>4. /\ RateOf(rates, s) \in Nat /\ RateOf(rates, t) \in Nat /\ RateOf(rates, level[k]) \in Nat
      /\ RateOf(rates, t) <= RateOf(rates, s) /\ RateOf(rates, level[k]) <= RateOf(rates, s)
      /\ Rewards!RateForLevel(level[k]) = RateOf(rates, level[k])
      /\ Rewards!RateForLevel(t) = RateOf(rates, t)
  <2> HIDE DEF s, t
  <2> QED BY <1>1, <1>2, RateGrows
<1>5. Rewards!Between(n, k) = (k + 1)..(n - 1)
  BY <1>0, BetweenInChain
<1>6. Rewards!GovernedRate(n, k, level) = RateOf(rates, t)
  BY <1>4, <1>5, RewardsMax DEF Rewards!GovernedRate, TopOf
<1>7. Rewards!Breaks(n, k, level) <=> \E w \in (k + 1)..(n - 1) : level[w] >= level[k]
  BY <1>5 DEF Rewards!Breaks
<1>8. gap = IF n - 1 = k THEN RateOf(rates, level[k])
            ELSE IF k \in Rewards!Above[n] /\ ~Rewards!Breaks(n, k, level)
                 THEN RateOf(rates, level[k]) - RateOf(rates, t) ELSE 0
  BY <1>0, <1>4, <1>6 DEF Rewards!GapRate
<1>9. k = n - 1 => t = 0
  <2>1. k = n - 1 => ~ \E w \in (k + 1)..(n - 1) : TRUE
    OBVIOUS
  <2> HIDE DEF t
  <2> QED BY <1>1, <2>1
<1>10. RateOf(rates, 0) = 0
  BY <1>0 DEF RateOf
<1>11. gap \in Int /\ gap <= RateOf(rates, s) - RateOf(rates, t)
  <2>1. CASE n - 1 = k
    <3>1. RateOf(rates, t) = 0
      BY <1>9, <1>10, <2>1
    <3> HIDE DEF gap, s, t
    <3> QED BY <1>4, <1>8, <2>1, <3>1
  <2>2. CASE n - 1 # k
    <3> HIDE DEF gap, s, t
    <3> QED BY <1>4, <1>8, <2>2
  <2> QED BY <2>1, <2>2
<1>12. Max({0, gap}) \in Nat /\ (Max({0, gap}) = 0 \/ Max({0, gap}) = gap)
  <2> HIDE DEF gap
  <2>1. \E x \in {0, gap} : \A y \in {0, gap} : x >= y
    <3>1. CASE gap <= 0
      BY <1>11, <3>1
    <3>2. CASE gap > 0
      BY <1>11, <3>2
    <3> QED BY <1>11, <3>1, <3>2
  <2>2. Max({0, gap}) \in {0, gap} /\ \A y \in {0, gap} : Max({0, gap}) >= y
    BY <2>1 DEF Max
  <2> DEFINE m == Max({0, gap})
  <2>3. (m = 0 \/ m = gap) /\ m >= 0 /\ m >= gap
    BY <2>2
  <2> HIDE DEF m
  <2>4. m \in Nat
    BY <1>11, <2>3
  <2> QED BY <2>3, <2>4 DEF m
<1> HIDE DEF gap, s, t
<1>13. Max({0, gap}) <= RateOf(rates, s) - RateOf(rates, t)
  BY <1>4, <1>11, <1>12
<1>14. k = n - 1 => RateOf(rates, t) = 0
  BY <1>9, <1>10
<1> QED BY <1>4, <1>11, <1>12, <1>13, <1>14 DEF gap, s, t

\* What the people from k on get of one yield, each what is above zero.
LEMMA GapsUpTo ==
  ASSUME NEW n \in Nat \ {0}, Chain = 1..n, NEW rates, NEW level, Asking(rates, level),
         NEW gap, gap = [u \in Chain \ {Source} |-> Max({0, Rewards!GapRate(n, u, level)})],
         NEW k \in 1..n
  PROVE  SumFunctionOnSet(gap, k..(n - 1)) <= RateOf(rates, TopOf(level, k, n))
<1> DEFINE Part(j) == (n - j)..(n - 1)
           Within(j) == SumFunctionOnSet(gap, Part(j)) <= RateOf(rates, TopOf(level, n - j, n))
           Wrong == {j \in 0..(n - 1) : ~Within(j)}
<1>0. Source = n /\ Chain \ {Source} = 1..(n - 1) /\ level \in [1..(n - 1) -> 0..TopLevel]
  <2>1. Source = n
    BY LastOfChain
  <2>2. Chain \ {Source} = 1..(n - 1)
    BY <2>1
  <2> QED BY <2>1, <2>2 DEF Asking
<1>1. \A u \in 1..(n - 1) : gap[u] \in Nat
        /\ RateOf(rates, TopOf(level, u + 1, n)) \in Nat /\ RateOf(rates, TopOf(level, u, n)) \in Nat
        /\ gap[u] <= RateOf(rates, TopOf(level, u, n)) - RateOf(rates, TopOf(level, u + 1, n))
  BY <1>0, GapStep
<1>2. \A u \in 1..(n - 1) : gap[u] \in Int
  <2> TAKE u \in 1..(n - 1)
  <2>1. gap[u] \in Nat
    BY <1>1
  <2> QED BY <2>1
<1>3. Within(0)
  <2>1. Part(0) = {}
    OBVIOUS
  <2>2. TopOf(level, n, n) = 0
    <3>1. n \in 1..n /\ ~ \E w \in n..(n - 1) : TRUE
      OBVIOUS
    <3> QED BY <1>0, <3>1, TopOfSome
  <2>3. RateOf(rates, 0) = 0 /\ n - 0 = n
    BY RulesAssumption DEF RateOf
  <2> QED BY <2>1, <2>2, <2>3, SumEmpty
<1>4. ASSUME NEW j \in 0..(n - 1), j # 0, Within(j - 1) PROVE Within(j)
  <2> DEFINE u == n - j
             R == (u + 1)..(n - 1)
  <2>1. u \in 1..(n - 1) /\ n - (j - 1) = u + 1 /\ Part(j) = R \cup {u} /\ Part(j - 1) = R
        /\ u \notin R /\ R \in SUBSET (1..(n - 1))
    BY <1>4
  <2>2. IsFiniteSet(R)
    BY FS_Interval
  <2>3. \A y \in R \cup {u} : gap[y] \in Int
    <3>1. R \cup {u} \in SUBSET (1..(n - 1))
      BY <2>1
    <3> HIDE DEF R, u
    <3> QED BY <1>2, <3>1
  <2>4. SumFunctionOnSet(gap, R \cup {u}) = gap[u] + SumFunctionOnSet(gap, R)
        /\ SumFunctionOnSet(gap, R) \in Int
    <3> HIDE DEF R, u
    <3> QED BY <2>1, <2>2, <2>3, SumAdd, SumInt
  <2>5. SumFunctionOnSet(gap, R) <= RateOf(rates, TopOf(level, u + 1, n))
    BY <1>4, <2>1
  <2>6. /\ gap[u] \in Nat
        /\ RateOf(rates, TopOf(level, u + 1, n)) \in Nat /\ RateOf(rates, TopOf(level, u, n)) \in Nat
        /\ gap[u] <= RateOf(rates, TopOf(level, u, n)) - RateOf(rates, TopOf(level, u + 1, n))
    <3> HIDE DEF u
    <3> QED BY <1>1, <2>1
  <2>7. SumFunctionOnSet(gap, R \cup {u}) <= RateOf(rates, TopOf(level, u, n))
    <3> HIDE DEF R, u
    <3> QED BY <2>4, <2>5, <2>6
  <2> QED BY <2>1, <2>7
<1>5. Wrong = {}
  <2>1. SUFFICES ASSUME Wrong # {} PROVE FALSE
    OBVIOUS
  <2>2. PICK j \in Wrong : \A i \in Wrong : j <= i
    <3>1. Wrong \in SUBSET Nat
      OBVIOUS
    <3> HIDE DEF Wrong
    <3> QED BY <2>1, <3>1, NatMinimal
  <2>3. j \in 0..(n - 1) /\ ~Within(j)
    BY <2>2
  <2> HIDE DEF Within
  <2>4. j # 0
    BY <1>3, <2>3
  <2>5. j - 1 \in 0..(n - 1) /\ ~(j <= j - 1)
    BY <2>3, <2>4
  <2>6. Within(j - 1)
    BY <2>2, <2>5
  <2> QED BY <1>4, <2>3, <2>4, <2>6
<1>6. n - k \in 0..(n - 1) /\ n - (n - k) = k
  OBVIOUS
<1>7. Within(n - k)
  <2> HIDE DEF Within
  <2> QED BY <1>5, <1>6
<1> QED BY <1>6, <1>7

\* The answer to a question about rewards stays within the top rate.
StaysWithin(rates, gaps) ==
  (\A l, k \in DOMAIN rates : l <= k => rates[l] <= rates[k]) =>
    SumFunctionOnSet([u \in DOMAIN gaps |-> Max({0, gaps[u]})], DOMAIN gaps) <= Max(Range(rates))

LEMMA RewardsWithin ==
  ASSUME asked.rates \in LevelRates, asked.level \in [Chain \ {Source} -> 0..TopLevel]
  PROVE  StaysWithin(asked.rates, [u \in Chain \ {Source} |-> Rewards!GapRate(Source, u, asked.level)])
<1> PICK n \in Nat \ {0} : Chain = 1..n
  BY RulesAssumption
<1> DEFINE rates == asked.rates
           level == asked.level
           gaps == [u \in Chain \ {Source} |-> Rewards!GapRate(Source, u, level)]
           gap == [u \in DOMAIN gaps |-> Max({0, gaps[u]})]
<1>0. rates \in [1..TopLevel -> Nat] /\ DOMAIN rates = 1..TopLevel /\ TopLevel \in 1..9
  BY RulesAssumption
<1>1. SUFFICES ASSUME \A l, k \in DOMAIN rates : l <= k => rates[l] <= rates[k]
               PROVE  SumFunctionOnSet(gap, DOMAIN gaps) <= Max(Range(rates))
  BY DEF StaysWithin
<1>2. Asking(rates, level)
  BY <1>0, <1>1 DEF Asking
<1>3. Source = n /\ DOMAIN gaps = 1..(n - 1) /\ DOMAIN gaps = Chain \ {Source}
  BY LastOfChain
<1>4. gap = [u \in Chain \ {Source} |-> Max({0, Rewards!GapRate(n, u, level)})]
  BY <1>3
<1>5. SumFunctionOnSet(gap, 1..(n - 1)) <= RateOf(rates, TopOf(level, 1, n))
  <2>1. n \in Nat \ {0} /\ Chain = 1..n /\ 1 \in 1..n
    OBVIOUS
  <2> HIDE DEF gap, rates, level
  <2> QED BY <1>2, <1>4, <2>1, GapsUpTo
<1>6. TopOf(level, 1, n) \in 0..TopLevel
  <2>1. level \in [1..(n - 1) -> 0..TopLevel] /\ 1 \in 1..n
    <3>1. Chain \ {Source} = 1..(n - 1) /\ 1 \in 1..n
      BY <1>3
    <3>2. level \in [Chain \ {Source} -> 0..TopLevel]
      OBVIOUS
    <3> HIDE DEF level
    <3> QED BY <3>1, <3>2
  <2> HIDE DEF level
  <2> QED BY <2>1, TopOfSome
<1>7. /\ \A l \in 1..TopLevel : rates[l] \in Range(rates)
      /\ Range(rates) \in SUBSET (0..rates[TopLevel]) /\ Range(rates) # {} /\ rates[TopLevel] \in Nat
  <2>1. Range(rates) = {rates[l] : l \in 1..TopLevel}
    BY <1>0 DEF Range
  <2>2. TopLevel \in 1..TopLevel /\ \A l \in 1..TopLevel : l <= TopLevel
    BY <1>0
  <2>3. rates[TopLevel] \in Nat /\ \A l \in 1..TopLevel : rates[l] \in Nat
    BY <1>0, <2>2
  <2>4. \A l \in 1..TopLevel : rates[l] <= rates[TopLevel]
    BY <1>0, <1>1, <2>2
  <2> HIDE DEF rates
  <2>5. \A l \in 1..TopLevel : rates[l] \in 0..rates[TopLevel]
    BY <2>3, <2>4
  <2> QED BY <2>1, <2>2, <2>3, <2>5
<1>8. /\ Max(Range(rates)) \in Nat /\ \A x \in Range(rates) : x <= Max(Range(rates))
  <2>1. Max(Range(rates)) \in Range(rates) /\ \A x \in Range(rates) : x <= Max(Range(rates))
    <3> HIDE DEF rates
    <3> QED BY <1>7, MaxUpTo
  <2> QED BY <1>7, <2>1
<1>9. RateOf(rates, TopOf(level, 1, n)) <= Max(Range(rates)) /\ RateOf(rates, TopOf(level, 1, n)) \in Nat
  <2> DEFINE t == TopOf(level, 1, n)
  <2>1. t \in 0..TopLevel
    BY <1>6
  <2> HIDE DEF t, rates
  <2>2. ASSUME t \in 1..TopLevel PROVE RateOf(rates, t) <= Max(Range(rates)) /\ RateOf(rates, t) \in Nat
    <3>1. RateOf(rates, t) = rates[t] /\ rates[t] \in Range(rates) /\ rates[t] \in Nat
      BY <1>0, <1>7, <2>2 DEF RateOf
    <3> QED BY <1>8, <3>1
  <2>3. ASSUME t \notin 1..TopLevel PROVE RateOf(rates, t) <= Max(Range(rates)) /\ RateOf(rates, t) \in Nat
    <3>1. RateOf(rates, t) = 0
      BY <2>3 DEF RateOf
    <3> QED BY <1>8, <3>1
  <2>4. RateOf(rates, t) <= Max(Range(rates)) /\ RateOf(rates, t) \in Nat
    BY <2>2, <2>3
  <2> QED BY <2>4 DEF t
<1>10. SumFunctionOnSet(gap, 1..(n - 1)) \in Int
  <2>1. \A u \in 1..(n - 1) : gap[u] \in Int
    <3> TAKE u \in 1..(n - 1)
    <3>1. Max({0, Rewards!GapRate(n, u, level)}) \in Nat
      <4> HIDE DEF rates, level
      <4> QED BY <1>2, GapStep
    <3> QED BY <1>3, <1>4, <3>1
  <2> DEFINE S == 1..(n - 1)
  <2>2. IsFiniteSet(S)
    BY FS_Interval
  <2>3. \A u \in S : gap[u] \in Int
    BY <2>1
  <2> HIDE DEF gap, S
  <2>4. SumFunctionOnSet(gap, S) \in Int
    BY <2>2, <2>3, SumInt
  <2> QED BY <2>4 DEF S
<1>11. SumFunctionOnSet(gap, DOMAIN gaps) = SumFunctionOnSet(gap, 1..(n - 1))
  BY <1>3
<1> DEFINE sum == SumFunctionOnSet(gap, 1..(n - 1))
           top == RateOf(rates, TopOf(level, 1, n))
           highest == Max(Range(rates))
<1>12. sum \in Int /\ top \in Nat /\ highest \in Nat /\ sum <= top /\ top <= highest
  BY <1>5, <1>8, <1>9, <1>10
<1> HIDE DEF sum, top, highest
<1>13. sum <= highest
  BY <1>12
<1> QED BY <1>11, <1>13 DEF sum, highest

\* The question is asked once, and what an answer about rewards is.
RewardsInv ==
  asked.about = "rewards" =>
    /\ asked.rates \in LevelRates /\ asked.level \in [Chain \ {Source} -> 0..TopLevel]
    /\ answer # Unanswered => StaysWithin(asked.rates, answer)

\* community.go, on any chain of inviters however long, any levels of the people in it and any rates
\* that do not fall with the level: what all of them together get of one yield is no more than the
\* highest rate.
THEOREM GapsStayWithinTop == RulesSpec => []GapWithinTop
<1>1. RulesInit => RewardsInv
  <2> SUFFICES ASSUME RulesInit, asked.about = "rewards" PROVE RewardsInv
    BY DEF RewardsInv
  <2>1. ~(asked \in [about : {"tiers"}, text : Texts]) /\ ~(asked \in [about : {"config"}, table : Tables])
        /\ ~(asked \in [about : {"deposit"}, payment : Payments])
    OBVIOUS
  <2>2. PICK level \in [Chain \ {Source} -> 0..TopLevel] :
          asked \in [about : {"rewards"}, rates : LevelRates, level : {level}]
    BY <2>1 DEF RulesInit
  <2>3. answer = Unanswered
    BY DEF RulesInit
  <2> QED BY <2>2, <2>3 DEF RewardsInv
<1>2. RewardsInv /\ [RulesNext]_ruleVars => RewardsInv'
  <2> SUFFICES ASSUME RewardsInv, [RulesNext]_ruleVars PROVE RewardsInv'
    OBVIOUS
  <2>1. CASE SubscribeTiers \/ Configure \/ Paid
    BY <2>1 DEF RewardsInv, SubscribeTiers, Configure, Paid
  <2>2. CASE Reward
    <3>1. asked' = asked /\ answer' = [u \in Chain \ {Source} |-> Rewards!GapRate(Source, u, asked.level)]
      BY <2>2 DEF Reward
    <3>2. asked.about = "rewards" /\ asked.rates \in LevelRates /\ asked.level \in [Chain \ {Source} -> 0..TopLevel]
      BY <2>2 DEF Reward, RewardsInv
    <3>3. StaysWithin(asked.rates, answer')
      BY <3>1, <3>2, RewardsWithin
    <3> QED BY <3>1, <3>2, <3>3 DEF RewardsInv, StaysWithin
  <2>3. CASE UNCHANGED ruleVars
    BY <2>3 DEF RewardsInv, ruleVars, StaysWithin
  <2> QED BY <2>1, <2>2, <2>3 DEF RulesNext
<1>3. RewardsInv => GapWithinTop
  BY DEF RewardsInv, GapWithinTop, Answered, StaysWithin
<1> QED BY <1>1, <1>2, <1>3, PTL DEF RulesSpec

-----------------------------------------------------------------------------
(* Rules: what is read from subscribe_tiers *)

Amount == Nat \ {0}
Token == Int \cup {Blank, Bad}
Wrong(token) == token # Blank /\ (token = Bad \/ token <= 0)

\* What has been read of a text up to its part k.
ReadUpTo(out, text, k) ==
  IF \E i \in 1..k : Wrong(text[i]) THEN out = Refused
  ELSE /\ out \in Seq(Amount) /\ out # Refused
       /\ Range(out) = {text[i] : i \in 1..k} \ {Blank}
       /\ \A i, j \in DOMAIN out : out[i] = out[j] => i = j

LEMMA RefusedApart == \A s \in Seq(Amount) : s # Refused
<1> TAKE s \in Seq(Amount)
<1>1. s \in Seq(Int)
  <2>1. \A a \in Amount : a \in Int
    BY DEF Amount
  <2>2. Len(s) \in Nat /\ s \in [1..Len(s) -> Amount]
    OBVIOUS
  <2>3. s \in [1..Len(s) -> Int]
    BY <2>1, <2>2
  <2> QED BY <2>2, <2>3
<1> QED BY <1>1, RulesAssumption

LEMMA ReadOne ==
  ASSUME NEW out \in Seq(Amount) \cup {Refused}, NEW token \in Token
  PROVE  ReadTier(out, token) \in Seq(Amount) \cup {Refused}
<1>1. CASE out = Refused \/ token = Blank
  BY <1>1 DEF ReadTier
<1>2. CASE ~(out = Refused \/ token = Blank) /\ (token = Bad \/ token <= 0)
  BY <1>2 DEF ReadTier
<1>3. CASE ~(out = Refused \/ token = Blank) /\ ~(token = Bad \/ token <= 0)
  <2>1. token \in Amount /\ out \in Seq(Amount)
    BY <1>3 DEF Token, Amount
  <2>2. Append(out, token) \in Seq(Amount)
    BY <2>1
  <2> QED BY <1>3, <2>1, <2>2 DEF ReadTier
<1> QED BY <1>1, <1>2, <1>3

LEMMA ReadNext ==
  ASSUME NEW text \in Seq(Token), NEW k \in 1..Len(text), NEW out, ReadUpTo(out, text, k - 1)
  PROVE  ReadUpTo(ReadTier(out, text[k]), text, k)
<1> DEFINE token == text[k]
<1>1. /\ token \in Token /\ k \in Nat
      /\ \A i : i \in 1..k <=> i \in 1..(k - 1) \/ i = k
  OBVIOUS
<1>2. (\E i \in 1..k : Wrong(text[i])) <=> (\E i \in 1..(k - 1) : Wrong(text[i])) \/ Wrong(token)
  BY <1>1
<1>3. {text[i] : i \in 1..k} = {text[i] : i \in 1..(k - 1)} \cup {token}
  BY <1>1
<1> DEFINE some == {text[i] : i \in 1..(k - 1)}
           more == {text[i] : i \in 1..k}
           wrong == \E i \in 1..(k - 1) : Wrong(text[i])
<1>4. CASE wrong
  <2>1. out = Refused
    BY <1>4 DEF ReadUpTo
  <2>2. ReadTier(out, token) = Refused
    BY <2>1 DEF ReadTier
  <2> QED BY <1>2, <1>4, <2>2 DEF ReadUpTo
<1>5. CASE ~wrong /\ Wrong(token)
  <2>1. out # Refused /\ token # Blank /\ (token = Bad \/ token <= 0)
    BY <1>5 DEF ReadUpTo, Wrong
  <2>2. ReadTier(out, token) = Refused
    <3> HIDE DEF token
    <3> QED BY <2>1 DEF ReadTier
  <2> QED BY <1>2, <1>5, <2>2 DEF ReadUpTo
<1>6. CASE ~wrong /\ ~Wrong(token)
  <2>1. /\ out \in Seq(Amount) /\ out # Refused /\ Range(out) = some \ {Blank}
        /\ \A i, j \in DOMAIN out : out[i] = out[j] => i = j
    BY <1>6 DEF ReadUpTo
  <2> DEFINE new == ReadTier(out, token)
  <2>2. SUFFICES /\ new \in Seq(Amount) /\ new # Refused /\ Range(new) = more \ {Blank}
                 /\ \A i, j \in DOMAIN new : new[i] = new[j] => i = j
    BY <1>2, <1>6 DEF ReadUpTo
  <2>3. more = some \cup {token}
    BY <1>3
  <2> HIDE DEF some, more, token, wrong
  <2>4. CASE token = Blank
    BY <2>1, <2>3, <2>4 DEF ReadTier
  <2>5. CASE token # Blank /\ token \in Range(out)
    <3>1. ~(token = Bad \/ token <= 0)
      BY <1>6, <2>5 DEF Wrong
    <3>2. new = out
      BY <2>1, <2>5, <3>1 DEF ReadTier
    <3> QED BY <2>1, <2>3, <2>5, <3>2
  <2>6. CASE token # Blank /\ token \notin Range(out)
    <3>1. ~(token = Bad \/ token <= 0)
      BY <1>6, <2>6 DEF Wrong
    <3>2. new = Append(out, token)
      BY <2>1, <2>6, <3>1 DEF ReadTier
    <3>3. token \in Amount
      BY <1>1, <2>6, <3>1 DEF Token, Amount
    <3>4. /\ new \in Seq(Amount) /\ DOMAIN out = 1..Len(out) /\ DOMAIN new = 1..(Len(out) + 1)
          /\ Len(out) \in Nat /\ new[Len(out) + 1] = token /\ \A i \in 1..Len(out) : new[i] = out[i]
      BY <2>1, <3>2, <3>3
    <3>5. new # Refused
      BY <3>4, RefusedApart
    <3> HIDE DEF new
    <3>6. \A i \in 1..(Len(out) + 1) : i \in 1..Len(out) \/ i = Len(out) + 1
      BY <3>4
    <3>7. \A i \in 1..Len(out) : out[i] # token
      BY <2>6, <3>4 DEF Range
    <3>8. \A i, j \in DOMAIN new : new[i] = new[j] => i = j
      BY <2>1, <3>4, <3>6, <3>7
    <3>9. Range(new) = Range(out) \cup {token}
      <4>1. \A i \in 1..Len(out) : i \in 1..(Len(out) + 1)
        BY <3>4
      <4>2. Len(out) + 1 \in 1..(Len(out) + 1)
        BY <3>4
      <4> QED BY <3>4, <3>6, <4>1, <4>2 DEF Range
    <3> QED BY <2>1, <2>3, <2>6, <3>4, <3>5, <3>8, <3>9
  <2> QED BY <2>4, <2>5, <2>6
<1> QED BY <1>4, <1>5, <1>6

LEMMA MentionedOnce ==
  ASSUME NEW text \in Seq(Token)
  PROVE  ReadUpTo(Mentioned(text), text, Len(text))
<1> DEFINE n == Len(text)
           X == Seq(Amount) \cup {Refused}
           step == [k \in 1..n |-> [out \in X |-> ReadTier(out, text[k])]]
           Is(f) == f = [k \in 0..n |-> IF k = 0 THEN <<>> ELSE ReadTier(f[k - 1], text[k])]
<1>1. n \in Nat /\ \A k \in 1..n : text[k] \in Token
  OBVIOUS
<1>2. <<>> \in X /\ step \in [1..n -> [X -> X]]
  <2>1. \A k \in 1..n, out \in X : ReadTier(out, text[k]) \in X
    BY <1>1, ReadOne
  <2>2. <<>> \in X
    OBVIOUS
  <2> HIDE DEF X, n
  <2> QED BY <2>1, <2>2
<1>3. \E f : Is(f)
  <2> DEFINE none == <<>>
  <2>0. none \in X /\ n \in Nat /\ step \in [1..n -> [X -> X]]
    BY <1>1, <1>2
  <2>1. PICK f \in [0..n -> X] : f[0] = none /\ \A k \in 1..n : f[k] = step[k][f[k - 1]]
    <3> HIDE DEF X, n, step, none
    <3>1. Given(n, X, none, step)
      BY <2>0, Recursion
    <3> QED BY <3>1 DEF Given
  <2>2. ASSUME NEW k \in 0..n PROVE f[k] = IF k = 0 THEN <<>> ELSE ReadTier(f[k - 1], text[k])
    <3>1. CASE k = 0
      BY <2>1, <3>1
    <3>2. CASE k # 0
      <4>1. k \in 1..n /\ k - 1 \in 0..n
        BY <1>1, <3>2
      <4>2. f[k - 1] \in X
        BY <2>1, <4>1
      <4> HIDE DEF X, n
      <4> QED BY <2>1, <3>2, <4>1, <4>2
    <3> QED BY <3>1, <3>2
  <2> HIDE DEF X, n
  <2>3. Is(f)
    BY <2>1, <2>2
  <2> QED BY <2>3
<1> DEFINE f == CHOOSE f : Is(f)
<1>4. Is(f)
  BY <1>3
<1>5. Mentioned(text) = f[n]
  BY DEF Mentioned
<1> HIDE DEF f
<1>6. f[0] = <<>> /\ \A k \in 1..n : f[k] = ReadTier(f[k - 1], text[k])
  <2>1. 0 \in 0..n /\ \A k \in 1..n : k \in 0..n /\ k # 0
    BY <1>1
  <2> HIDE DEF n
  <2> QED BY <1>4, <2>1
<1> DEFINE W == {k \in 0..n : ReadUpTo(f[k], text, k)}
<1>7. 0 \in W
  <2>1. ReadUpTo(<<>>, text, 0)
    <3>1. <<>> \in Seq(Amount) /\ DOMAIN <<>> = {} /\ 1..0 = {}
      OBVIOUS
    <3>2. <<>> # Refused
      BY <3>1, RefusedApart
    <3>3. Range(<<>>) = {}
      BY <3>1 DEF Range
    <3> QED BY <3>1, <3>2, <3>3 DEF ReadUpTo
  <2> QED BY <1>1, <1>6, <2>1
<1>8. ASSUME NEW k \in 1..n, k - 1 \in W PROVE k \in W
  <2>1. ReadUpTo(f[k - 1], text, k - 1) /\ k \in 0..n
    BY <1>8
  <2>2. ReadUpTo(ReadTier(f[k - 1], text[k]), text, k)
    BY <2>1, ReadNext
  <2> QED BY <1>6, <2>1, <2>2
<1>9. W = 0..n
  <2>1. W \in SUBSET (0..n)
    OBVIOUS
  <2> HIDE DEF W, n
  <2> QED BY <1>1, <1>7, <1>8, <2>1, Steps
<1>10. n \in 0..n
  BY <1>1
<1> QED BY <1>5, <1>9, <1>10

-----------------------------------------------------------------------------
(* Rules: how the amounts are sorted *)

Distinct(s) == \A i, j \in DOMAIN s : s[i] = s[j] => i = j

\* The first i amounts are where they belong.
InOrder(s, i) == \A a \in 1..i, b \in DOMAIN s : a < b => s[a] < s[b]

LEMMA IntSequence ==
  ASSUME NEW n \in Nat, NEW s \in [1..n -> Int]
  PROVE  s \in Seq(Int) /\ Len(s) = n /\ DOMAIN s = 1..n
OBVIOUS

\* What an exchange leaves of s.
Swapped(y, s, n, i, j) ==
  /\ y \in [1..n -> Int] /\ Distinct(y) /\ Range(y) = Range(s)
  /\ y[i] < y[j] /\ y[i] <= s[i] /\ \A k \in (1..n) \ {i, j} : y[k] = s[k]

LEMMA ExchangeTwo ==
  ASSUME NEW n \in Nat, NEW s \in [1..n -> Int], Distinct(s), NEW i \in 1..n, NEW j \in 1..n, i < j
  PROVE  Swapped(Exchanged(s, i, j), s, n, i, j)
<1> DEFINE y == Exchanged(s, i, j)
<1>1. DOMAIN s = 1..n /\ s[i] \in Int /\ s[j] \in Int /\ i # j /\ s[i] # s[j]
  BY DEF Distinct
<1>2. CASE s[j] < s[i]
  <2>1. y = [s EXCEPT ![i] = s[j], ![j] = s[i]]
    BY <1>2 DEF Exchanged
  <2>2. /\ y \in [1..n -> Int] /\ DOMAIN y = 1..n /\ y[i] = s[j] /\ y[j] = s[i]
        /\ \A k \in (1..n) \ {i, j} : y[k] = s[k]
    BY <1>1, <2>1
  <2>3. Distinct(y)
    BY <1>1, <2>2 DEF Distinct
  <2>4. Range(y) = Range(s)
    <3>1. \A k \in 1..n : k = i \/ k = j \/ k \in (1..n) \ {i, j}
      OBVIOUS
    <3>2. Range(y) \subseteq Range(s)
      BY <1>1, <2>2, <3>1 DEF Range
    <3>3. Range(s) \subseteq Range(y)
      BY <1>1, <2>2, <3>1 DEF Range
    <3> QED BY <3>2, <3>3
  <2> HIDE DEF y
  <2> QED BY <1>1, <1>2, <2>2, <2>3, <2>4 DEF Swapped, y
<1>3. CASE ~(s[j] < s[i])
  <2>1. y = s
    BY <1>3 DEF Exchanged
  <2> QED BY <1>1, <1>3, <2>1 DEF Swapped
<1> QED BY <1>2, <1>3

\* Where the inner loop is after its step j, when it has started with s.
Inner(y, s, n, i, j) ==
  /\ y \in [1..n -> Int] /\ Distinct(y) /\ Range(y) = Range(s)
  /\ \A k \in 1..(i - 1) : y[k] = s[k]
  /\ \A m \in (i + 1)..j : y[i] < y[m]

LEMMA InnerStep ==
  ASSUME NEW n \in Nat, NEW s, NEW i \in 1..n, NEW j \in 1..n, i < j,
         NEW y, Inner(y, s, n, i, j - 1)
  PROVE  Inner(Exchanged(y, i, j), s, n, i, j)
<1> DEFINE z == Exchanged(y, i, j)
<1>1. y \in [1..n -> Int] /\ Distinct(y) /\ Range(y) = Range(s)
  BY DEF Inner
<1>2. /\ z \in [1..n -> Int] /\ Distinct(z) /\ Range(z) = Range(y)
      /\ z[i] < z[j] /\ z[i] <= y[i] /\ \A k \in (1..n) \ {i, j} : z[k] = y[k]
  <2> QED BY <1>1, ExchangeTwo DEF Swapped
<1> HIDE DEF z
<1>3. \A k \in 1..(i - 1) : z[k] = s[k]
  <2> TAKE k \in 1..(i - 1)
  <2>1. k \in (1..n) \ {i, j}
    OBVIOUS
  <2> QED BY <1>2, <2>1 DEF Inner
<1>4. \A m \in (i + 1)..j : z[i] < z[m]
  <2> TAKE m \in (i + 1)..j
  <2>1. CASE m = j
    BY <1>2, <2>1
  <2>2. CASE m # j
    <3>1. m \in (1..n) \ {i, j} /\ m \in (i + 1)..(j - 1)
      BY <2>2
    <3>2. z[m] = y[m] /\ y[i] < y[m]
      BY <1>2, <3>1 DEF Inner
    <3>3. z[i] \in Int /\ y[i] \in Int /\ y[m] \in Int
      BY <1>1, <1>2, <3>1
    <3> QED BY <1>2, <3>2, <3>3
  <2> QED BY <2>1, <2>2
<1> QED BY <1>1, <1>2, <1>3, <1>4 DEF Inner, z

LEMMA PassPlaces ==
  ASSUME NEW n \in Nat, NEW s \in [1..n -> Int], Distinct(s), NEW i \in 1..n
  PROVE  Inner(Pass(s, i), s, n, i, n)
<1> DEFINE X == {y \in [1..n -> Int] : Distinct(y)}
           step == [j \in 1..n |-> [y \in X |-> IF j <= i THEN s ELSE Exchanged(y, i, j)]]
           Is(t) == t = [j \in 0..n |-> IF j <= i THEN s ELSE Exchanged(t[j - 1], i, j)]
<1>1. s \in X /\ step \in [1..n -> [X -> X]]
  <2>1. \A j \in 1..n, y \in X : ~(j <= i) => Exchanged(y, i, j) \in X
    <3> TAKE j \in 1..n, y \in X
    <3> HAVE ~(j <= i)
    <3>1. i < j
      OBVIOUS
    <3>2. Swapped(Exchanged(y, i, j), y, n, i, j)
      BY <3>1, ExchangeTwo
    <3> QED BY <3>2 DEF Swapped
  <2>2. s \in X
    OBVIOUS
  <2> HIDE DEF X
  <2> QED BY <2>1, <2>2
<1>2. \E t : Is(t)
  <2>1. PICK t \in [0..n -> X] : t[0] = s /\ \A j \in 1..n : t[j] = step[j][t[j - 1]]
    <3> HIDE DEF X, step
    <3>1. Given(n, X, s, step)
      BY <1>1, Recursion
    <3> QED BY <3>1 DEF Given
  <2>2. ASSUME NEW j \in 0..n PROVE t[j] = IF j <= i THEN s ELSE Exchanged(t[j - 1], i, j)
    <3>1. CASE j = 0
      BY <2>1, <3>1
    <3>2. CASE j # 0
      <4>1. j \in 1..n /\ j - 1 \in 0..n
        BY <3>2
      <4>2. t[j - 1] \in X
        BY <2>1, <4>1
      <4> HIDE DEF X
      <4> QED BY <2>1, <4>1, <4>2
    <3> QED BY <3>1, <3>2
  <2> HIDE DEF X
  <2>3. Is(t)
    BY <2>1, <2>2
  <2> QED BY <2>3
<1> DEFINE t == CHOOSE t : Is(t)
<1>3. Is(t)
  BY <1>2
<1>4. Pass(s, i) = t[n]
  BY IntSequence DEF Pass
<1> HIDE DEF t
<1>5. \A j \in 0..n : t[j] = IF j <= i THEN s ELSE Exchanged(t[j - 1], i, j)
  BY <1>3
<1> DEFINE W == {j \in 0..n : Inner(t[j], s, n, i, j)}
<1>6. \A j \in 0..n : j <= i => Inner(t[j], s, n, i, j)
  <2> TAKE j \in 0..n
  <2> HAVE j <= i
  <2>1. t[j] = s
    BY <1>5
  <2>2. (i + 1)..j = {}
    OBVIOUS
  <2> QED BY <2>1, <2>2 DEF Inner
<1>7. 0 \in W
  BY <1>6
<1>8. ASSUME NEW j \in 1..n, j - 1 \in W PROVE j \in W
  <2>1. CASE j <= i
    BY <1>6, <2>1
  <2>2. CASE ~(j <= i)
    <3>1. t[j] = Exchanged(t[j - 1], i, j) /\ i < j /\ j \in 0..n
      <4>1. j \in 0..n /\ i < j
        BY <2>2
      <4>2. t[j] = IF j <= i THEN s ELSE Exchanged(t[j - 1], i, j)
        BY <1>5, <4>1
      <4> QED BY <2>2, <4>1, <4>2
    <3>2. Inner(t[j - 1], s, n, i, j - 1)
      BY <1>8
    <3>3. Inner(Exchanged(t[j - 1], i, j), s, n, i, j)
      BY <3>1, <3>2, InnerStep
    <3> QED BY <3>1, <3>3
  <2> QED BY <2>1, <2>2
<1>9. W = 0..n
  <2>1. W \in SUBSET (0..n)
    OBVIOUS
  <2> HIDE DEF W
  <2> QED BY <1>7, <1>8, <2>1, Steps
<1>10. n \in 0..n
  OBVIOUS
<1> QED BY <1>4, <1>9, <1>10

\* Where the outer loop is after its pass i over s.
Outer(y, s, n, i) == y \in [1..n -> Int] /\ Distinct(y) /\ Range(y) = Range(s) /\ InOrder(y, i)

LEMMA OuterStep ==
  ASSUME NEW n \in Nat, NEW s, NEW i \in 1..n, NEW y, Outer(y, s, n, i - 1)
  PROVE  Outer(Pass(y, i), s, n, i)
<1> DEFINE z == Pass(y, i)
<1>1. y \in [1..n -> Int] /\ Distinct(y) /\ Range(y) = Range(s) /\ InOrder(y, i - 1)
  BY DEF Outer
<1>2. Inner(z, y, n, i, n)
  BY <1>1, PassPlaces
<1> HIDE DEF z
<1>3. z \in [1..n -> Int] /\ Distinct(z) /\ Range(z) = Range(y) /\ DOMAIN z = 1..n /\ DOMAIN y = 1..n
  BY <1>1, <1>2 DEF Inner
<1>4. ASSUME NEW a \in 1..i, NEW b \in 1..n, a < b PROVE z[a] < z[b]
  <2>1. CASE a = i
    <3>1. b \in (i + 1)..n
      BY <1>4, <2>1
    <3> QED BY <1>2, <2>1, <3>1 DEF Inner
  <2>2. CASE a # i
    <3>1. a \in 1..(i - 1) /\ z[a] = y[a]
      BY <1>2, <2>2 DEF Inner
    <3>2. PICK c \in 1..n : z[b] = y[c]
      BY <1>3 DEF Range
    <3>3. c > a
      <4>1. SUFFICES ASSUME c <= a PROVE FALSE
        OBVIOUS
      <4>2. c \in 1..(i - 1)
        BY <3>1, <4>1
      <4>3. z[c] = y[c]
        BY <1>2, <4>2 DEF Inner
      <4>4. b = c
        BY <1>3, <3>2, <4>3 DEF Distinct
      <4> QED BY <1>4, <4>1, <4>4
    <3>4. y[a] < y[c]
      BY <1>1, <1>3, <3>1, <3>3 DEF InOrder
    <3> QED BY <3>1, <3>2, <3>4
  <2> QED BY <2>1, <2>2
<1> QED BY <1>1, <1>3, <1>4 DEF Outer, InOrder, z

LEMMA PassesSort ==
  ASSUME NEW n \in Nat, NEW s \in [1..n -> Int], Distinct(s)
  PROVE  Outer(Passes(s), s, n, n)
<1> DEFINE X == {y \in [1..n -> Int] : Distinct(y)}
           step == [i \in 1..n |-> [y \in X |-> Pass(y, i)]]
           Is(t) == t = [i \in 0..n |-> IF i = 0 THEN s ELSE Pass(t[i - 1], i)]
<1>1. s \in X /\ step \in [1..n -> [X -> X]]
  <2>1. \A i \in 1..n, y \in X : Pass(y, i) \in X
    <3> TAKE i \in 1..n, y \in X
    <3>1. Inner(Pass(y, i), y, n, i, n)
      BY PassPlaces
    <3> QED BY <3>1 DEF Inner
  <2>2. s \in X
    OBVIOUS
  <2> HIDE DEF X
  <2> QED BY <2>1, <2>2
<1>2. \E t : Is(t)
  <2>1. PICK t \in [0..n -> X] : t[0] = s /\ \A i \in 1..n : t[i] = step[i][t[i - 1]]
    <3> HIDE DEF X, step
    <3>1. Given(n, X, s, step)
      BY <1>1, Recursion
    <3> QED BY <3>1 DEF Given
  <2>2. ASSUME NEW i \in 0..n PROVE t[i] = IF i = 0 THEN s ELSE Pass(t[i - 1], i)
    <3>1. CASE i = 0
      BY <2>1, <3>1
    <3>2. CASE i # 0
      <4>1. i \in 1..n /\ i - 1 \in 0..n
        BY <3>2
      <4>2. t[i - 1] \in X
        BY <2>1, <4>1
      <4> HIDE DEF X
      <4> QED BY <2>1, <3>2, <4>1, <4>2
    <3> QED BY <3>1, <3>2
  <2> HIDE DEF X
  <2>3. Is(t)
    BY <2>1, <2>2
  <2> QED BY <2>3
<1> DEFINE t == CHOOSE t : Is(t)
<1>3. Is(t)
  BY <1>2
<1>4. Passes(s) = t[n]
  BY IntSequence DEF Passes
<1> HIDE DEF t
<1>5. \A i \in 0..n : t[i] = IF i = 0 THEN s ELSE Pass(t[i - 1], i)
  BY <1>3
<1> DEFINE W == {i \in 0..n : Outer(t[i], s, n, i)}
<1>6. 0 \in W
  <2>1. t[0] = s /\ 1..0 = {} /\ 0 \in 0..n
    <3>1. 0 \in 0..n /\ 1..0 = {}
      OBVIOUS
    <3>2. t[0] = IF 0 = 0 THEN s ELSE Pass(t[0 - 1], 0)
      BY <1>5, <3>1
    <3> QED BY <3>1, <3>2
  <2> QED BY <2>1 DEF Outer, InOrder
<1>7. ASSUME NEW i \in 1..n, i - 1 \in W PROVE i \in W
  <2>1. t[i] = Pass(t[i - 1], i) /\ i \in 0..n
    BY <1>5
  <2>2. Outer(t[i - 1], s, n, i - 1)
    BY <1>7
  <2>3. Outer(Pass(t[i - 1], i), s, n, i)
    BY <2>2, OuterStep
  <2> QED BY <2>1, <2>3
<1>8. W = 0..n
  <2>1. W \in SUBSET (0..n)
    OBVIOUS
  <2> HIDE DEF W
  <2> QED BY <1>6, <1>7, <2>1, Steps
<1>9. n \in 0..n
  OBVIOUS
<1> QED BY <1>4, <1>8, <1>9

\* What ParseSubscribeTiers makes of a text.
ReadAs(text, out) ==
  LET amounts == Range(text) \ {Blank}
  IN IF \E t \in amounts : Wrong(t) THEN out = Refused
     ELSE Range(out) = amounts /\ \A i, j \in DOMAIN out : i < j => out[i] < out[j]

LEMMA TiersRead ==
  ASSUME NEW text \in Seq(Token)
  PROVE  ReadAs(text, ParseSubscribeTiers(text))
<1> DEFINE out == Mentioned(text)
<1>1. ReadUpTo(out, text, Len(text))
  BY MentionedOnce
<1> HIDE DEF out
<1>2. Range(text) = {text[i] : i \in 1..Len(text)}
  BY DEF Range
<1>3. CASE \E i \in 1..Len(text) : Wrong(text[i])
  <2>1. out = Refused
    BY <1>1, <1>3 DEF ReadUpTo
  <2>2. ParseSubscribeTiers(text) = Refused
    BY <2>1 DEF ParseSubscribeTiers, out
  <2>3. \E t \in Range(text) \ {Blank} : Wrong(t)
    BY <1>2, <1>3 DEF Wrong
  <2> QED BY <2>2, <2>3 DEF ReadAs
<1>4. CASE ~(\E i \in 1..Len(text) : Wrong(text[i]))
  <2>1. /\ out \in Seq(Amount) /\ out # Refused /\ Range(out) = Range(text) \ {Blank}
        /\ \A i, j \in DOMAIN out : out[i] = out[j] => i = j
    BY <1>1, <1>2, <1>4 DEF ReadUpTo
  <2> DEFINE n == Len(out)
             sorted == Passes(out)
  <2>2. n \in Nat /\ out \in [1..n -> Int] /\ Distinct(out)
    <3>1. \A a \in Amount : a \in Int
      BY DEF Amount
    <3>2. n \in Nat /\ out \in [1..n -> Amount]
      BY <2>1
    <3>3. out \in [1..n -> Int]
      BY <3>1, <3>2
    <3> QED BY <2>1, <3>2, <3>3 DEF Distinct
  <2> HIDE DEF n
  <2>3. Outer(sorted, out, n, n)
    BY <2>2, PassesSort
  <2>4. ParseSubscribeTiers(text) = sorted
    BY <2>1 DEF ParseSubscribeTiers, out
  <2> HIDE DEF sorted
  <2>5. Range(sorted) = Range(text) \ {Blank} /\ \A i, j \in DOMAIN sorted : i < j => sorted[i] < sorted[j]
    BY <2>1, <2>3 DEF Outer, InOrder
  <2>6. ~(\E t \in Range(text) \ {Blank} : Wrong(t))
    BY <1>2, <1>4
  <2> QED BY <2>4, <2>5, <2>6 DEF ReadAs
<1> QED BY <1>3, <1>4

-----------------------------------------------------------------------------
(* Rules: the rows of business_configs, and the unit of a deposit *)

\* What is made of a table, and the rows that come back of it.
RoundTrip(m, p) ==
  \/ p = Refused /\ \E k \in DOMAIN m : k[1] = "multiplier" /\ m[k] = Empty
  \/ FlattenBusinessParams(p) = m

LEMMA RowsOf ==
  ASSUME NEW m, NEW n \in 1..MaxMultipliers, NEW levels \in SUBSET (1..TopLevel), DOMAIN m = Rows(n, levels)
  PROVE  MultiplierTiers(m) = 1..n /\ CommunityLevels(m) = levels
<1>1. \A j \in Nat : HasTier(m, Multiplier, j) <=> j \in 1..n
  BY DEF HasTier, Multiplier, Rows, Key, CommunityTier
<1>2. \A l \in Nat : HasTier(m, CommunityTier, l) <=> l \in levels
  <2>1. levels \subseteq Nat
    OBVIOUS
  <2> QED BY <2>1 DEF HasTier, Multiplier, Rows, Key, CommunityTier
<1>3. MaxMultipliers \in Nat /\ TopLevel \in Nat
  BY RulesAssumption
<1>4. MultiplierTiers(m) = 1..n
  <2>1. ASSUME NEW i \in 1..MaxMultipliers
        PROVE  (\A j \in 1..i : HasTier(m, Multiplier, j)) <=> i \in 1..n
    <3>1. \A j \in 1..i : j \in Nat /\ (HasTier(m, Multiplier, j) <=> j \in 1..n)
      BY <1>1
    <3>2. i \in 1..i /\ i \in Nat
      BY <1>3
    <3>3. i \in 1..n => \A j \in 1..i : j \in 1..n
      BY <1>3
    <3> QED BY <3>1, <3>2, <3>3
  <2>2. 1..n \subseteq 1..MaxMultipliers
    BY <1>3
  <2> QED BY <2>1, <2>2 DEF MultiplierTiers
<1>5. CommunityLevels(m) = levels
  <2>1. ASSUME NEW l \in 1..TopLevel PROVE l \in Nat /\ (HasTier(m, CommunityTier, l) <=> l \in levels)
    BY <1>2, <1>3
  <2> QED BY <2>1 DEF CommunityLevels
<1> QED BY <1>4, <1>5

LEMMA ConfigsKept ==
  ASSUME NEW m \in Tables
  PROVE  RoundTrip(m, AggregateBusinessParams(m))
<1>0. PICK n \in 1..MaxMultipliers, levels \in SUBSET (1..TopLevel) :
        m = [k \in Rows(n, levels) |-> m[k]]
  BY RulesAssumption
<1>1. DOMAIN m = Rows(n, levels)
  BY <1>0
<1>2. MultiplierTiers(m) = 1..n /\ CommunityLevels(m) = levels
  BY <1>1, RowsOf
<1>3. CASE ~Complete(m)
  <2>1. \A l \in levels : \A name \in CommunityTier : Key(name, l) \in DOMAIN m
    BY <1>1 DEF Rows
  <2>2. \A i \in 1..n : Key("multiplier", i) \in DOMAIN m
    BY <1>1 DEF Rows, Multiplier
  <2>3. PICK i \in 1..n : m[Key("multiplier", i)] = Empty
    BY <1>2, <1>3, <2>1, <2>2 DEF Complete
  <2>4. Key("multiplier", i)[1] = "multiplier"
    BY DEF Key
  <2>5. AggregateBusinessParams(m) = Refused
    BY <1>3 DEF AggregateBusinessParams
  <2> QED BY <2>2, <2>3, <2>4, <2>5 DEF RoundTrip
<1>4. CASE Complete(m)
  <2> DEFINE p == AggregateBusinessParams(m)
             multipliers == [i \in 1..n |-> [lt |-> m[Key("lt", i)], multiplier |-> m[Key("multiplier", i)]]]
             communities == [l \in levels |-> [min_volume |-> m[Key("min_volume", l)], rate |-> m[Key("rate", l)]]]
  <2>1. \A i \in 1..n : Key("lt", i) \in DOMAIN m
    BY <1>1 DEF Rows, Multiplier
  <2>2. p = [plain |-> m[Key("plain", 0)], multipliers |-> multipliers, communities |-> communities]
    BY <1>2, <1>4, <2>1 DEF AggregateBusinessParams
  <2> HIDE DEF p
  <2>3. p.plain = m[Key("plain", 0)] /\ p.multipliers = multipliers /\ p.communities = communities
    BY <2>2
  <2>4. /\ \A i \in 1..n : /\ multipliers[i]["lt"] = m[Key("lt", i)]
                           /\ multipliers[i]["multiplier"] = m[Key("multiplier", i)]
        /\ \A l \in levels : /\ communities[l]["min_volume"] = m[Key("min_volume", l)]
                             /\ communities[l]["rate"] = m[Key("rate", l)]
    OBVIOUS
  <2> DEFINE Back(k) == IF k[1] = "plain" THEN p.plain
                        ELSE IF k[1] \in Multiplier THEN p.multipliers[k[2]][k[1]]
                        ELSE p.communities[k[2]][k[1]]
  <2>5. FlattenBusinessParams(p) = [k \in Rows(n, levels) |-> Back(k)]
    <3>1. DOMAIN p.multipliers = 1..n /\ DOMAIN p.communities = levels
      BY <2>3
    <3> HIDE DEF multipliers, communities
    <3> QED BY <3>1 DEF FlattenBusinessParams, Rows
  <2> HIDE DEF multipliers, communities
  <2>6. ASSUME NEW k \in Rows(n, levels) PROVE Back(k) = m[k]
    <3>1. CASE k = Key("plain", 0)
      BY <2>3, <3>1 DEF Key
    <3>2. ASSUME NEW name \in Multiplier, NEW i \in 1..n, k = Key(name, i) PROVE Back(k) = m[k]
      <4>1. k[1] = name /\ k[2] = i /\ name # "plain"
        BY <3>2 DEF Key, Multiplier
      <4>2. Back(k) = multipliers[i][name]
        BY <2>3, <4>1
      <4> QED BY <2>4, <3>2, <4>2 DEF Multiplier
    <3>3. ASSUME NEW name \in CommunityTier, NEW l \in levels, k = Key(name, l) PROVE Back(k) = m[k]
      <4>1. k[1] = name /\ k[2] = l /\ name # "plain" /\ name \notin Multiplier
        BY <3>3 DEF Key, Multiplier, CommunityTier
      <4>2. Back(k) = communities[l][name]
        BY <2>3, <4>1
      <4> QED BY <2>4, <3>3, <4>2 DEF CommunityTier
    <3> QED BY <2>6, <3>1, <3>2, <3>3 DEF Rows
  <2> HIDE DEF Back
  <2>7. FlattenBusinessParams(p) = m
    BY <1>0, <2>5, <2>6
  <2> QED BY <2>7 DEF RoundTrip, p
<1> QED BY <1>3, <1>4

LEMMA WholeUSDT ==
  ASSUME NEW payment \in Payments, ~(payment.wei /\ payment.whole = 0)
  PROVE  AmountAsUSDT(Reported(payment)) = payment.whole
<1> DEFINE v == payment.whole
           r == payment.rest
<1>1. /\ WeiPerUSDT \in Nat /\ WeiPerUSDT > 0 /\ v \in Nat /\ r \in Nat /\ r < WeiPerUSDT
      /\ payment.wei \in BOOLEAN /\ (~payment.wei => v < WeiPerUSDT)
  BY RulesAssumption
<1>2. CASE payment.wei
  <2>1. Reported(payment) = v * WeiPerUSDT + r /\ v > 0
    BY <1>1, <1>2 DEF Reported
  <2> HIDE DEF v, r
  <2>2. v * WeiPerUSDT + r >= WeiPerUSDT
    BY <1>1, <2>1
  <2>3. (v * WeiPerUSDT + r) \div WeiPerUSDT = v
    BY <1>1, SMTT(20)
  <2> QED BY <2>1, <2>2, <2>3 DEF AmountAsUSDT, v
<1>3. CASE ~payment.wei
  BY <1>1, <1>3 DEF Reported, AmountAsUSDT
<1> QED BY <1>1, <1>2, <1>3

\* The question is asked once, and what its answer is.
ReadInv ==
  /\ asked.about = "tiers" => asked.text \in Texts /\ (answer # Unanswered => ReadAs(asked.text, answer))
  /\ asked.about = "config" => asked.table \in Tables /\ (answer # Unanswered => RoundTrip(asked.table, answer))
  /\ asked.about = "deposit" =>
       /\ asked.payment \in Payments
       /\ answer # Unanswered /\ ~(asked.payment.wei /\ asked.payment.whole = 0) => answer = asked.payment.whole

\* params.go and configs.go: whatever is entered as subscribe_tiers, in whatever order and however often,
\* is read as its amounts, each once and in order, or refused; the rows of any table come back from the
\* parameters made of them; and a deposit of any size counts for the whole USDT it is.
THEOREM RulesReadExactly == RulesSpec => []ReadsExactly
<1>1. RulesInit => ReadInv
  <2> SUFFICES ASSUME RulesInit PROVE ReadInv
    OBVIOUS
  <2>1. answer = Unanswered
    BY DEF RulesInit
  <2>2. CASE asked \in [about : {"tiers"}, text : Texts]
    BY <2>1, <2>2 DEF ReadInv
  <2>3. CASE asked \in [about : {"config"}, table : Tables]
    BY <2>1, <2>3 DEF ReadInv
  <2>4. CASE asked \in [about : {"deposit"}, payment : Payments]
    BY <2>1, <2>4 DEF ReadInv
  <2>5. CASE \E level \in [Chain \ {Source} -> 0..TopLevel] :
               asked \in [about : {"rewards"}, rates : LevelRates, level : {level}]
    BY <2>1, <2>5 DEF ReadInv
  <2> QED BY <2>2, <2>3, <2>4, <2>5 DEF RulesInit
<1>2. ReadInv /\ [RulesNext]_ruleVars => ReadInv'
  <2> SUFFICES ASSUME ReadInv, [RulesNext]_ruleVars PROVE ReadInv'
    OBVIOUS
  <2>1. CASE SubscribeTiers
    <3>1. asked' = asked /\ asked.about = "tiers" /\ answer' = ParseSubscribeTiers(asked.text)
      BY <2>1 DEF SubscribeTiers
    <3>2. asked.text \in Texts
      BY <3>1 DEF ReadInv
    <3>3. asked.text \in Seq(Token)
      BY <3>2, RulesAssumption DEF Token
    <3>4. ReadAs(asked.text, answer')
      BY <3>1, <3>3, TiersRead
    <3> QED BY <3>1, <3>2, <3>4 DEF ReadInv
  <2>2. CASE Configure
    <3>1. asked' = asked /\ asked.about = "config" /\ answer' = AggregateBusinessParams(asked.table)
      BY <2>2 DEF Configure
    <3>2. asked.table \in Tables
      BY <3>1 DEF ReadInv
    <3>3. RoundTrip(asked.table, answer')
      BY <3>1, <3>2, ConfigsKept
    <3> QED BY <3>1, <3>2, <3>3 DEF ReadInv
  <2>3. CASE Paid
    <3>1. asked' = asked /\ asked.about = "deposit" /\ answer' = AmountAsUSDT(Reported(asked.payment))
      BY <2>3 DEF Paid
    <3>2. asked.payment \in Payments
      BY <3>1 DEF ReadInv
    <3>3. ~(asked.payment.wei /\ asked.payment.whole = 0) => answer' = asked.payment.whole
      BY <3>1, <3>2, WholeUSDT
    <3> QED BY <3>1, <3>2, <3>3 DEF ReadInv
  <2>4. CASE Reward
    BY <2>4 DEF ReadInv, Reward
  <2>5. CASE UNCHANGED ruleVars
    BY <2>5 DEF ReadInv, ruleVars
  <2> QED BY <2>1, <2>2, <2>3, <2>4, <2>5 DEF RulesNext
<1>3. ReadInv => ReadsExactly
  <2> SUFFICES ASSUME ReadInv PROVE ReadsExactly
    OBVIOUS
  <2>1. TiersParsed
    <3>1. CASE ~Answered("tiers")
      BY <3>1 DEF TiersParsed
    <3>2. CASE Answered("tiers")
      <4>1. ReadAs(asked.text, answer)
        BY <3>2 DEF ReadInv, Answered
      <4>2. \A t \in Range(asked.text) \ {Blank} : Wrong(t) <=> (t = Bad \/ t <= 0)
        BY DEF Wrong
      <4> QED BY <4>1, <4>2 DEF TiersParsed, ReadAs
    <3> QED BY <3>1, <3>2
  <2>2. ConfigRoundTrip
    BY DEF ReadInv, ConfigRoundTrip, Answered, RoundTrip
  <2>3. AmountExact
    BY DEF ReadInv, AmountExact, Answered
  <2> QED BY <2>1, <2>2, <2>3 DEF ReadsExactly
<1> QED BY <1>1, <1>2, <1>3, PTL DEF RulesSpec

-----------------------------------------------------------------------------
(* The scenes together.  A behaviour of MCBackoffice is one of every component: the *)
(* component of its scene runs, under further conditions, and the others stand      *)
(* still.                                                                           *)

SceneStep ==
  /\ [AccountsNext]_accountVars /\ [LevelsNext]_levelVars /\ [BalancesNext]_balanceVars
  /\ [ParamsNext]_paramVars /\ [ReportsNext]_reportVars /\ [RulesNext]_ruleVars
  /\ scene' = scene /\ (scene # "rules" => UNCHANGED ruleVars)

LEMMA SceneSteps ==
  [Next]_<<scene, accountVars, levelVars, balanceVars, paramVars, reportVars, ruleVars>> => SceneStep
<1> USE DEF rest, SceneStep
<1>1. RegistryStep \/ SessionsStep => SceneStep
  BY DEF RegistryStep, SessionsStep
<1>2. LevelsStep \/ BalancesStep => SceneStep
  BY DEF LevelsStep, BalancesStep
<1>3. ParamsStep \/ ReportsStep \/ RulesStep => SceneStep
  BY DEF ParamsStep, ReportsStep, RulesStep
<1> QED BY <1>1, <1>2, <1>3 DEF Next

(* The run of the back office looks at behaviours of Accounts, Levels, Balances and *)
(* Params, and in their scenes of Reports and Rules, so every theorem about these   *)
(* is one about the run, with any scenes and any parameters.                        *)
THEOREM ScenesAreBehaviours ==
  Spec => /\ AccountsSpec /\ LevelsSpec /\ BalancesSpec /\ ParamsSpec
          /\ scene = "reports" => ReportsSpec
          /\ scene = "rules" => RulesSpec
<1>1. Init => /\ AccountsInit /\ LevelsInit /\ BalancesInit /\ ParamsInit
              /\ scene = "reports" => ReportsInit
              /\ scene = "rules" => RulesInit
  BY DEF Init
<1> QED
  BY <1>1, SceneSteps, PTL
     DEF Spec, SceneStep, AccountsSpec, LevelsSpec, BalancesSpec, ParamsSpec, ReportsSpec, RulesSpec

LEMMA FirstReportsStart == FirstReports => ReportsTypeOK /\ RowsInv /\ WalkInv /\ BoardInv
<1> SUFFICES ASSUME FirstReports PROVE ReportsTypeOK /\ RowsInv /\ WalkInv /\ BoardInv
  OBVIOUS
<1>1. Taken = {} /\ rows = {} /\ writing = {}
  BY DEF FirstReports, Taken
<1>2. ReportsTypeOK
  BY <1>1, ReportsAssumption, IdleReaders DEF FirstReports, ReportsTypeOK
<1>3. RowsInv
  BY <1>1, FS_EmptySet DEF RowsInv
<1>4. WalkInv /\ BoardInv
  BY DEF FirstReports, WalkInv, NothingMissed, NoWalk, BoardInv, NoBoard
<1> QED BY <1>2, <1>3, <1>4

\* What holds of lists and dashboard in ReportsSpec holds in every scene.
LEMMA ReportsAlways == Spec => [](ReportsTypeOK /\ RowsInv /\ WalkInv /\ BoardInv)
<1>1. Init => ReportsTypeOK /\ RowsInv /\ WalkInv /\ BoardInv
  <2>1. ReportsInit => WalkInv /\ BoardInv
    BY DEF ReportsInit, WalkInv, NothingMissed, NoWalk, BoardInv, NoBoard
  <2> QED BY <2>1, FirstReportsStart, ReportsStart DEF Init
<1>2. ReportsTypeOK /\ RowsInv /\ WalkInv /\ BoardInv /\ SceneStep
        => (ReportsTypeOK /\ RowsInv /\ WalkInv /\ BoardInv)'
  BY StepReports, StepWalk, StepBoard DEF SceneStep
<1> QED BY <1>1, <1>2, SceneSteps, PTL DEF Spec

\* Outside their scene the rules answer nothing; in it they are those of RulesSpec.
LEMMA RulesAlways == Spec => [](ReadsExactly /\ GapWithinTop)
<1>1. Init => (scene # "rules" => answer = Unanswered)
  BY DEF Init, FirstRules
<1>2. (scene # "rules" => answer = Unanswered) /\ SceneStep => (scene # "rules" => answer = Unanswered)'
  BY DEF SceneStep, ruleVars
<1>3. answer = Unanswered => ReadsExactly /\ GapWithinTop
  BY DEF ReadsExactly, TiersParsed, ConfigRoundTrip, AmountExact, GapWithinTop, Answered
<1>4. SceneStep => (scene = "rules" <=> (scene = "rules")')
  BY DEF SceneStep
<1>5. Spec => [](scene # "rules" => answer = Unanswered)
  BY <1>1, <1>2, SceneSteps, PTL DEF Spec
<1>6. Spec => (~(scene = "rules") => []~(scene = "rules"))
  BY <1>4, SceneSteps, PTL DEF Spec
<1>7. Spec /\ scene = "rules" => [](ReadsExactly /\ GapWithinTop)
  BY ScenesAreBehaviours, RulesReadExactly, GapsStayWithinTop, PTL
<1>8. ~(scene = "rules") <=> scene # "rules"
  OBVIOUS
<1> QED BY <1>3, <1>5, <1>6, <1>7, <1>8, PTL

(* Each variable of the back office has its type, whichever scene is played.        *)
THEOREM BackofficeTypeCorrect == Spec => []BackofficeTypeOK
<1>1. Spec => []RulesTypeOK
  <2>1. Init => RulesTypeOK
    BY DEF Init, FirstRules, RulesInit, RulesTypeOK
  <2>2. RulesTypeOK /\ SceneStep => RulesTypeOK'
    BY DEF SceneStep, RulesTypeOK, RulesNext, ruleVars, SubscribeTiers, Configure, Paid, Reward
  <2> QED BY <2>1, <2>2, SceneSteps, PTL DEF Spec
<1>2. BalancesSpec => []BalancesTypeOK
  <2>1. BalancesInit => BalancesTypeOK /\ DeskInv
    BY IdleDesk, BalancesAssumption DEF BalancesInit, BalancesTypeOK, DeskInv, NonNegative
  <2> QED BY <2>1, StepBalances, PTL DEF BalancesSpec
<1>3. ParamsSpec => []ParamsTypeOK
  <2>1. ParamsInv => ParamsTypeOK
    BY DEF ParamsInv
  <2> QED BY <2>1, ParamsInvariant, PTL
<1> QED
  BY <1>1, <1>2, <1>3, ReportsAlways, AccountsTypeCorrect, LevelsTypes, ScenesAreBehaviours, PTL
     DEF BackofficeTypeOK

(* Everything the run of the back office checks holds in all of its scenes together, *)
(* for any addresses, goroutines, parameters, rows and texts: user.go, record.go,    *)
(* params.go, ledger.go and community.go keep what their components promise.         *)
THEOREM BackofficeIsSafe ==
  Spec => /\ [](NonceOnce /\ PathIsLineage /\ PathExtendsInviters /\ LineExact /\ LockedOut)
          /\ [](GrantedLevelStays /\ NonNegative /\ BooksBalance)
          /\ [](ConfigValid /\ SeedNeverOverwrites /\ ActiveIsFresh)
          /\ [](NothingMissed /\ TodayWithinTotal)
          /\ [](ReadsExactly /\ GapWithinTop)
<1>1. Spec => [](NonceOnce /\ PathIsLineage /\ PathExtendsInviters /\ LineExact /\ LockedOut)
  BY ScenesAreBehaviours, ChallengesLetOneThrough, PathsNameNoStranger, PathsExtendTheInviters,
     LineLocksAreExact, LocksShutOut, PTL
<1>2. Spec => [](GrantedLevelStays /\ NonNegative /\ BooksBalance)
  BY ScenesAreBehaviours, GrantedLevelsStay, BalancesStayNonNegative, LedgerExplainsBalances, PTL
<1>3. Spec => [](ConfigValid /\ SeedNeverOverwrites /\ ActiveIsFresh)
  BY ScenesAreBehaviours, ConfigStaysValid, SeedingKeepsValues, ActiveStaysFresh, PTL
<1>4. WalkInv /\ BoardInv => NothingMissed /\ TodayWithinTotal
  <2>1. Len(Statements) + 1 = 4
    BY StatementFacts
  <2> QED BY <2>1 DEF WalkInv, BoardInv, TodayWithinTotal
<1>5. Spec => [](NothingMissed /\ TodayWithinTotal)
  BY <1>4, ReportsAlways, PTL
<1> QED BY <1>1, <1>2, <1>3, <1>5, RulesAlways
=============================================================================
