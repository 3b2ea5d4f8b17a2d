---------------------------- MODULE OrdersProofs ----------------------------
(***************************************************************************)
(* Proofs about Orders: types, the exit of an order at its target, that    *)
(* progress is never taken back, and that an extract turns a rate once,    *)
(* for every number of users, orders, settlements and requests.            *)
(***************************************************************************)
EXTENDS Orders, TLAPS

-----------------------------------------------------------------------------
(* Rates and amounts.  Every rate the code computes from a rate lies between       *)
(* rate_min and rate_max, whatever the step.                                       *)

LEMMA FallBounds ==
  ASSUME NEW rate \in Rates \cup {NoRate}
  PROVE  Fall(rate) \in [rate : Rates, dir : {"up", "down"}]
  BY RulesAssumption DEF Rates, NoRate, Fall, AtMostMax

LEMMA TurnBounds ==
  ASSUME NEW rate \in Rates \cup {NoRate}
  PROVE  ExtractRateTurn(rate) \in [rate : Rates, dir : {"up", "down"}]
<1>1. RateMin \in Rates
  BY RulesAssumption DEF Rates
<1> QED BY <1>1, FallBounds DEF ExtractRateTurn

LEMMA AdvanceBounds ==
  ASSUME NEW rate \in Rates, NEW dir
  PROVE  AdvanceRate(rate, dir) \in [rate : Rates, dir : {"up", "down"}]
<1>1. Rise(rate) \in [rate : Rates, dir : {"up", "down"}]
  BY RulesAssumption DEF Rates, Rise, AtLeastMin
<1> QED BY <1>1, FallBounds DEF AdvanceRate

LEMMA Product == \A a, b \in Nat : a * b \in Nat
  OBVIOUS

LEMMA Quotient == \A n \in Nat, d \in Nat \ {0} : n \div d \in Nat
  OBVIOUS

LEMMA ShareNat ==
  ASSUME NEW a \in Nat, NEW r \in Nat
  PROVE  Share(a, r) \in Nat
<1>1. a * r \in Nat
  BY Product
<1>2. Scale \div 2 \in Nat
  BY Quotient, RulesAssumption
<1>3. a * r + Scale \div 2 \in Nat
  BY <1>1, <1>2
<1> QED BY <1>3, Quotient, RulesAssumption DEF Share

LEMMA RewardNat == \A y \in Nat : CalcGenerationReward(y) \in Nat
  BY ShareNat, RulesAssumption DEF CalcGenerationReward

LEMMA YieldNat ==
  ASSUME NEW a \in Nat, NEW r \in Rates
  PROVE  CalcStaticYield(a, r) \in Nat
<1>1. r \in Nat
  BY RulesAssumption DEF Rates
<1> QED BY <1>1, ShareNat DEF CalcStaticYield

LEMMA LevelRange ==
  ASSUME NEW v
  PROVE  LevelFromVolume(v) \in 0..9
<1> DEFINE S == {0} \cup {l \in DOMAIN CommunityTiers : v > 0 /\ v >= CommunityTiers[l].volume}
<1>1. S \subseteq 0..9 /\ 0 \in S
  BY CommunityAssumption
<1>2. \E m \in S : \A x \in S : m >= x
  <2> HIDE DEF S
  <2>1. CASE \E m \in {7, 8, 9} : m \in S
    BY <1>1, <2>1
  <2>2. CASE ~(\E m \in {7, 8, 9} : m \in S) /\ (\E m \in {4, 5, 6} : m \in S)
    BY <1>1, <2>2
  <2>3. CASE ~(\E m \in {4, 5, 6, 7, 8, 9} : m \in S)
    BY <1>1, <2>3
  <2> QED BY <2>1, <2>2, <2>3
<1>3. Max(S) \in S
  BY <1>2 DEF Max
<1> QED BY <1>1, <1>3 DEF LevelFromVolume

LEMMA RateForLevelNat == \A l : RateForLevel(l) \in Nat
  BY CommunityAssumption DEF RateForLevel

LEMMA LinesTyped ==
  ASSUME NEW level, NEW pieces \in [OrderIds -> [by : Users \cup {NoUser}, yield : Nat]]
  PROVE  BaseLines(level, pieces) \in
           SUBSET [to : Users, from : Users \cup {NoUser}, source : OrderIds \cup {0}, amount : Nat]
<1> SUFFICES ASSUME NEW u \in Users, NEW o \in OrderIds,
                    GapRate(pieces[o].by, u, level) > 0
             PROVE  Share(pieces[o].yield, GapRate(pieces[o].by, u, level)) \in Nat
  BY DEF BaseLines, Line
<1>1. /\ RateForLevel(level[u]) \in Nat
      /\ GovernedRate(pieces[o].by, u, level) \in Nat
  BY RateForLevelNat DEF GovernedRate
<1>2. \A v : GapRate(v, u, level) \in {RateForLevel(level[u]), 0,
                                       RateForLevel(level[u]) - GovernedRate(v, u, level)}
  BY DEF GapRate
<1>3. GapRate(pieces[o].by, u, level) \in Nat
  BY <1>1, <1>2
<1> QED BY <1>3, ShareNat

LEMMA PeersTyped ==
  ASSUME NEW level, NEW got \in [Users -> Nat]
  PROVE  PeerLines(level, got) \in
           SUBSET [to : Users, from : Users \cup {NoUser}, source : OrderIds \cup {0}, amount : Nat]
<1>1. \A v \in Users : Share(got[v], PeerRate) \in Nat
  BY ShareNat, CommunityAssumption
<1> QED BY <1>1, CommunityAssumption DEF PeerLines, Line

-----------------------------------------------------------------------------
(* Rows.  A row is sound when it is below its target while active and at it when   *)
(* over; every row the code writes is sound when the one it was read from is,      *)
(* whatever has happened to the table meanwhile.                                   *)

Sound(row) ==
  /\ row \in OrderRow
  /\ row.acc <= row.target
  /\ row.status = "none" => row.acc = 0
  /\ row.status = "active" => row.acc < row.target
  /\ row.status = "exited" => row.acc = row.target
  /\ row.status # "none" => row.by \in Users

LEMMA RowFields ==
  ASSUME NEW row \in OrderRow
  PROVE  /\ row.amount \in Nat /\ row.target \in Nat /\ row.acc \in Nat
         /\ row.status \in {"none", "active", "exited"}
         /\ row.rate \in Rates /\ row.dir \in {"up", "down"}
         /\ row.last \in Rates \cup {NoRate}
  BY DEF OrderRow

LEMMA NoOrderSound == Sound(NoOrder)
<1>1. RateMin \in Rates
  BY RulesAssumption DEF Rates
<1>2. NoOrder \in OrderRow
  BY <1>1 DEF NoOrder, OrderRow
<1> QED BY <1>2 DEF Sound, NoOrder

LEMMA NewOrderSound ==
  ASSUME NEW u \in Users, NEW a \in Amounts
  PROVE  /\ Sound(NewOrder(u, a)) /\ NewOrder(u, a).status = "active"
         /\ NewOrder(u, a).pending = FALSE
<1>1. a \in Nat /\ ExitTarget(a) \in Nat \ {0}
  BY OrdersAssumption
<1>2. NoOrder \in OrderRow
  BY NoOrderSound DEF Sound
<1>3. /\ NewOrder(u, a) \in OrderRow
      /\ NewOrder(u, a).acc = NoOrder.acc /\ NewOrder(u, a).status = "active"
      /\ NewOrder(u, a).target = ExitTarget(a) /\ NewOrder(u, a).by = u
      /\ NewOrder(u, a).pending = NoOrder.pending
  BY <1>1, <1>2 DEF NewOrder, OrderRow
<1>4. NoOrder.acc = 0 /\ NoOrder.pending = FALSE
  BY DEF NoOrder
<1> QED BY <1>1, <1>3, <1>4 DEF Sound

LEMMA TurnedSound ==
  ASSUME NEW row, Sound(row)
  PROVE  /\ Sound(Turned(row))
         /\ Turned(row).acc = row.acc /\ Turned(row).status = row.status
         /\ Turned(row).last = row.last /\ Turned(row).pending = TRUE
         /\ [rate |-> Turned(row).rate, dir |-> Turned(row).dir] = ExtractRateTurn(row.last)
<1>1. row \in OrderRow /\ row.last \in Rates \cup {NoRate}
  BY RowFields DEF Sound
<1>2. /\ ExtractRateTurn(row.last).rate \in Rates
      /\ ExtractRateTurn(row.last).dir \in {"up", "down"}
  BY <1>1, TurnBounds
<1>3. /\ Turned(row) \in OrderRow /\ Turned(row).acc = row.acc
      /\ Turned(row).status = row.status /\ Turned(row).target = row.target
      /\ Turned(row).by = row.by /\ Turned(row).pending = TRUE /\ Turned(row).last = row.last
      /\ Turned(row).rate = ExtractRateTurn(row.last).rate
      /\ Turned(row).dir = ExtractRateTurn(row.last).dir
  BY <1>1, <1>2 DEF Turned, OrderRow
<1>4. ExtractRateTurn(row.last) =
        [rate |-> ExtractRateTurn(row.last).rate, dir |-> ExtractRateTurn(row.last).dir]
  BY <1>1, TurnBounds
<1> QED BY <1>3, <1>4 DEF Sound

LEMMA ProgressSound ==
  ASSUME NEW row, Sound(row), row.status = "active", NEW c \in Nat
  PROVE  /\ Sound(Progress(row, c))
         /\ Progress(row, c).status \in {"active", "exited"}
         /\ Progress(row, c).acc >= row.acc
         /\ Progress(row, c).by = row.by
         /\ Progress(row, c).rate = row.rate /\ Progress(row, c).dir = row.dir
         /\ Progress(row, c).pending = row.pending /\ Progress(row, c).last = row.last
<1> DEFINE q == Progress(row, c)
<1>f. row \in OrderRow /\ row.acc \in Nat /\ row.target \in Nat
  BY RowFields DEF Sound
<1>1. CASE row.acc + c >= row.target
  <2>1. q = [row EXCEPT !.acc = row.target, !.status = "exited"]
    BY <1>1 DEF Progress, Exited
  <2> HIDE DEF q
  <2>2. /\ q \in OrderRow /\ q.acc = row.target /\ q.status = "exited" /\ q.target = row.target
        /\ q.by = row.by /\ q.rate = row.rate /\ q.dir = row.dir /\ q.pending = row.pending
        /\ q.last = row.last
    BY <1>f, <2>1 DEF OrderRow
  <2> QED BY <1>f, <2>2 DEF Sound, q
<1>2. CASE ~(row.acc + c >= row.target)
  <2>1. q = [row EXCEPT !.acc = row.acc + c]
    BY <1>2 DEF Progress
  <2>2. row.acc + c \in Nat /\ row.acc + c < row.target
    BY <1>f, <1>2
  <2> HIDE DEF q
  <2>3. /\ q \in OrderRow /\ q.acc = row.acc + c /\ q.status = "active" /\ q.target = row.target
        /\ q.by = row.by /\ q.rate = row.rate /\ q.dir = row.dir /\ q.pending = row.pending
        /\ q.last = row.last
    BY <1>f, <2>1, <2>2 DEF OrderRow
  <2> QED BY <1>f, <2>2, <2>3 DEF Sound, q
<1> QED BY <1>1, <1>2

LEMMA YieldFits ==
  ASSUME NEW row, Sound(row), row.status = "active"
  PROVE  Yield(row) \in Nat /\ Room(row) \in Nat \ {0} /\ Yield(row) <= Room(row)
<1>1. CalcStaticYield(row.amount, row.rate) \in Nat
  BY YieldNat DEF Sound, OrderRow
<1>2. Room(row) \in Nat \ {0}
  BY DEF Room, Sound, OrderRow
<1> QED BY <1>1, <1>2 DEF Yield, Lesser

LEMMA SettledSound ==
  ASSUME NEW row, Sound(row), row.status = "active"
  PROVE  /\ Sound(Settled(row))
         /\ Settled(row).status \in {"active", "exited"}
         /\ Settled(row).acc >= row.acc
         /\ Settled(row).pending = FALSE
         /\ Settled(row).by = row.by
<1> DEFINE paid == Progress(row, Yield(row))
           next == AdvanceRate(row.rate, row.dir)
<1>1. Yield(row) \in Nat /\ ~(Room(row) <= 0) /\ Room(row) > 0
  BY YieldFits
<1>2. /\ Sound(paid) /\ paid.status \in {"active", "exited"} /\ paid.acc >= row.acc
      /\ paid.by = row.by
  BY <1>1, ProgressSound
<1>3. next \in [rate : Rates, dir : {"up", "down"}]
  BY AdvanceBounds DEF Sound, OrderRow
<1>4. row.rate \in Rates \cup {NoRate}
  BY RowFields DEF Sound
<1>5. \/ Settled(row) = [row EXCEPT !.pending = FALSE, !.last = row.rate]
      \/ Settled(row) = [paid EXCEPT !.pending = FALSE, !.last = row.rate]
      \/ Settled(row) = [paid EXCEPT !.pending = FALSE, !.last = row.rate,
                                     !.rate = next.rate, !.dir = next.dir]
  <2>1. CASE Yield(row) <= 0
    BY <1>1, <2>1 DEF Settled
  <2>2. CASE ~(Yield(row) <= 0) /\ Yield(row) > 0 /\ paid.status = "exited"
    BY <1>1, <2>2 DEF Settled
  <2>3. CASE ~(Yield(row) <= 0) /\ paid.status # "exited"
    BY <1>1, <2>3 DEF Settled
  <2> QED BY <1>1, <2>1, <2>2, <2>3
<1>f. row \in OrderRow /\ paid \in OrderRow /\ next.rate \in Rates /\ next.dir \in {"up", "down"}
  BY <1>2, <1>3 DEF Sound
<1>g. row.acc \in Nat /\ paid.acc \in Nat
  BY <1>f, RowFields
<1> HIDE DEF paid, next
<1> DEFINE q == Settled(row)
<1>6. CASE q = [row EXCEPT !.pending = FALSE, !.last = row.rate]
  <2> HIDE DEF q
  <2>1. /\ q \in OrderRow /\ q.acc = row.acc /\ q.status = row.status /\ q.target = row.target
        /\ q.by = row.by /\ q.pending = FALSE
    BY <1>f, <1>4, <1>6 DEF OrderRow
  <2> QED BY <1>g, <2>1 DEF Sound, q
<1>7. CASE q = [paid EXCEPT !.pending = FALSE, !.last = row.rate]
  <2> HIDE DEF q
  <2>1. /\ q \in OrderRow /\ q.acc = paid.acc /\ q.status = paid.status /\ q.target = paid.target
        /\ q.by = paid.by /\ q.pending = FALSE
    BY <1>f, <1>4, <1>7 DEF OrderRow
  <2> QED BY <1>2, <1>g, <2>1 DEF Sound, q
<1>8. CASE q = [paid EXCEPT !.pending = FALSE, !.last = row.rate, !.rate = next.rate, !.dir = next.dir]
  <2> HIDE DEF q
  <2>1. /\ q \in OrderRow /\ q.acc = paid.acc /\ q.status = paid.status /\ q.target = paid.target
        /\ q.by = paid.by /\ q.pending = FALSE
    BY <1>f, <1>4, <1>8 DEF OrderRow
  <2> QED BY <1>2, <1>g, <2>1 DEF Sound, q
<1> QED BY <1>5, <1>6, <1>7, <1>8 DEF paid, next

-----------------------------------------------------------------------------
(* Types, and the exit of an order.  A settlement or request in any state holds    *)
(* sound rows only, and what its next step needs to know of its own variables.     *)

GoodRun(q) ==
  /\ q \in RunState
  /\ Sound(q.row)
  /\ q.pc \in {"pay", "save"} => q.row.status # "none"
  /\ q.pc = "climb" => q.at \in Users
  /\ q.pc \in {"fill", "write", "credit"} => q.to \in Users
  /\ q.pc \in {"fill", "write", "credit"} /\ q.phase = "static" => q.at \in Users
  /\ q.pc = "lines" => q.phase # "static"
  /\ q.pc = "write" => q.chunk <= q.left

GoodReq(q) ==
  /\ q \in ReqState
  /\ \A o \in OrderIds : Sound(q.rows[o])
  /\ q.pc \in {"sub", "create"} => q.user \in Users /\ q.amount \in Amounts

GoodOrders ==
  /\ orders \in [OrderIds -> OrderRow]
  /\ \A o \in OrderIds : Sound(orders[o])

GoodRuns ==
  /\ run \in [Settlers -> RunState]
  /\ \A s \in Settlers : GoodRun(run[s])

GoodReqs ==
  /\ req \in [Requests -> ReqState]
  /\ \A r \in Requests : GoodReq(req[r])

GoodRest ==
  /\ account \in [Users -> Nat]
  /\ earned \in [Users -> Nat]
  /\ claimed \in BOOLEAN
  /\ settleMu \in [Instances -> Settlers \cup {NoSettler}]
  /\ failed \in Nat

Good == GoodOrders /\ GoodRuns /\ GoodReqs /\ GoodRest

LEMMA IdleRunGood == GoodRun(IdleRun) /\ IdleRun.pc = "idle"
<1>1. IdleRun \in RunState
  BY NoOrderSound DEF IdleRun, RunState, Sound
<1>2. IdleRun.row = NoOrder /\ IdleRun.pc = "idle"
  BY DEF IdleRun
<1> QED BY <1>1, <1>2, NoOrderSound DEF GoodRun

LEMMA IdleReqGood == GoodReq(IdleReq)
<1>1. IdleReq \in ReqState
  BY NoOrderSound DEF IdleReq, NoRows, ReqState, Sound
<1>2. IdleReq.rows = NoRows /\ IdleReq.pc = "idle"
  BY DEF IdleReq
<1> QED BY <1>1, <1>2, NoOrderSound DEF GoodReq, NoRows

LEMMA SetGood ==
  ASSUME GoodRuns, NEW s \in Settlers, NEW q, GoodRun(q), Set(s, q)
  PROVE  GoodRuns'
  BY DEF GoodRuns, GoodRun, Set

LEMMA ReturnGood ==
  ASSUME GoodRuns, GoodRest, NEW s \in Settlers, Return(s)
  PROVE  GoodRuns' /\ settleMu' \in [Instances -> Settlers \cup {NoSettler}]
<1>1. GoodRuns'
  BY IdleRunGood, SetGood DEF Return
<1>2. settleMu' \in [Instances -> Settlers \cup {NoSettler}]
  BY OrdersAssumption DEF Return, GoodRest
<1> QED BY <1>1, <1>2

LEMMA RowWritten ==
  ASSUME GoodOrders, NEW o, NEW row, Sound(row), orders' = [orders EXCEPT ![o] = row]
  PROVE  GoodOrders'
  BY DEF GoodOrders, Sound

LEMMA InitGood == Init => Good
<1> SUFFICES ASSUME Init PROVE Good
  OBVIOUS
<1>1. \A o \in OrderIds : Sound(orders[o])
  <2> TAKE o \in OrderIds
  <2>1. CASE o \in DOMAIN Placed
    <3>1. Placed[o].by \in Users /\ Placed[o].amount \in Amounts
      BY <2>1, OrdersAssumption
    <3> QED BY <2>1, <3>1, NewOrderSound DEF Init, FirstOrders
  <2>2. CASE o \notin DOMAIN Placed
    BY <2>2, NoOrderSound DEF Init, FirstOrders
  <2> QED BY <2>1, <2>2
<1>2. orders \in [OrderIds -> OrderRow]
  BY <1>1 DEF Init, FirstOrders, Sound
<1>3. GoodRuns
  BY IdleRunGood DEF Init, GoodRuns, GoodRun
<1>4. GoodReqs
  BY IdleReqGood DEF Init, GoodReqs, GoodReq
<1>5. GoodRest
  BY OrdersAssumption DEF Init, GoodRest
<1> QED BY <1>1, <1>2, <1>3, <1>4, <1>5 DEF Good, GoodOrders

-----------------------------------------------------------------------------
(* Requests *)

LEMMA ReqSet ==
  ASSUME GoodReqs, NEW r \in Requests, NEW q, GoodReq(q), req' = [req EXCEPT ![r] = q]
  PROVE  GoodReqs'
  BY DEF GoodReqs, GoodReq

LEMMA SubscribeGood ==
  ASSUME Good, NEW r \in Requests, NEW u \in Users, NEW a \in Amounts, Subscribe(r, u, a)
  PROVE  Good'
<1> DEFINE q == [IdleReq EXCEPT !.pc = "sub", !.user = u, !.amount = a]
<1>1. q \in ReqState /\ q.rows = NoRows /\ q.user = u /\ q.amount = a
  BY IdleReqGood DEF GoodReq, ReqState, IdleReq
<1>2. GoodReq(q)
  BY <1>1, NoOrderSound DEF GoodReq, NoRows
<1>3. GoodReqs'
  BY <1>2, ReqSet DEF Subscribe, Good
<1> QED BY <1>3 DEF Subscribe, Good, GoodOrders, GoodRuns, GoodRest

LEMMA SubAccountBalanceGood ==
  ASSUME Good, NEW r \in Requests, SubAccountBalance(r)
  PROVE  Good'
<1>a. Amounts \subseteq Nat
  BY OrdersAssumption
<1>r. GoodReq(req[r]) /\ req[r] \in ReqState /\ req[r].user \in Users /\ req[r].amount \in Amounts
  BY DEF Good, GoodReqs, GoodReq, SubAccountBalance
<1>1. CASE Covers(r) /\ req' = [req EXCEPT ![r].pc = "create"]
           /\ account' = [account EXCEPT ![req[r].user] = @ - req[r].amount]
  <2> DEFINE q == [req[r] EXCEPT !.pc = "create"]
  <2>1. q \in ReqState /\ q.rows = req[r].rows /\ q.user = req[r].user /\ q.amount = req[r].amount
    BY <1>r DEF ReqState
  <2>2. GoodReq(q)
    BY <1>r, <2>1 DEF GoodReq
  <2>3. req' = [req EXCEPT ![r] = q]
    BY <1>1
  <2>4. GoodReqs'
    BY <2>2, <2>3, ReqSet DEF Good
  <2>5. account' \in [Users -> Nat]
    BY <1>1, <1>a, <1>r DEF Covers, Good, GoodRest
  <2> QED BY <2>4, <2>5 DEF SubAccountBalance, Good, GoodOrders, GoodRuns, GoodRest
<1>2. CASE RequestDone(r) /\ UNCHANGED account
  <2>1. GoodReqs'
    BY <1>2, IdleReqGood, ReqSet DEF RequestDone, Good
  <2> QED BY <1>2, <2>1 DEF SubAccountBalance, Good, GoodOrders, GoodRuns, GoodRest
<1> QED BY <1>1, <1>2 DEF SubAccountBalance

LEMMA CreateGood ==
  ASSUME Good, NEW r \in Requests, Create(r)
  PROVE  Good'
<1>1. req[r].user \in Users /\ req[r].amount \in Amounts
  BY DEF Good, GoodReqs, GoodReq, Create
<1>2. PICK o \in OrderIds : orders' = [orders EXCEPT ![o] = NewOrder(req[r].user, req[r].amount)]
  BY DEF Create
<1>3. GoodOrders'
  BY <1>1, <1>2, NewOrderSound, RowWritten DEF Good
<1>4. GoodReqs'
  BY IdleReqGood, ReqSet DEF Create, RequestDone, Good
<1> QED BY <1>3, <1>4 DEF Create, Good, GoodRuns, GoodRest

LEMMA ListTurnsGood ==
  ASSUME Good, NEW r \in Requests, NEW u \in Users, ListTurns(r, u)
  PROVE  Good'
<1> DEFINE rows == [o \in OrderIds |-> IF o \in ToTurn(u) THEN orders[o] ELSE NoOrder]
           q == [IdleReq EXCEPT !.pc = "turn", !.user = u, !.rows = rows]
<1>1. \A o \in OrderIds : Sound(rows[o])
  BY NoOrderSound DEF Good, GoodOrders
<1>2. rows \in [OrderIds -> OrderRow]
  BY <1>1 DEF Sound
<1>3. req' = [req EXCEPT ![r] = q]
  BY DEF ListTurns
<1> HIDE DEF rows
<1>4. q \in ReqState /\ q.rows = rows /\ q.pc = "turn"
  BY <1>2, IdleReqGood DEF GoodReq, ReqState, IdleReq
<1>5. GoodReq(q)
  BY <1>1, <1>4 DEF GoodReq
<1>6. GoodReqs'
  BY <1>3, <1>5, ReqSet DEF Good
<1> QED BY <1>6 DEF ListTurns, Good, GoodOrders, GoodRuns, GoodRest

LEMMA TurnGood ==
  ASSUME Good, NEW r \in Requests, Turn(r)
  PROVE  Good'
<1>r. GoodReq(req[r]) /\ req[r] \in ReqState /\ req[r].pc = "turn"
  BY DEF Good, GoodReqs, GoodReq, Turn
<1>1. PICK o \in Unwritten(r) :
        /\ orders' = [orders EXCEPT ![o] = Turned(req[r].rows[o])]
        /\ RequestDone(r) \/ req' = [req EXCEPT ![r].rows[o] = NoOrder]
  BY DEF Turn
<1>2. o \in OrderIds
  BY DEF Unwritten
<1>3. GoodOrders'
  BY <1>r, <1>1, <1>2, TurnedSound, RowWritten DEF Good, GoodReq
<1>4. CASE RequestDone(r)
  <2>1. GoodReqs'
    BY <1>4, IdleReqGood, ReqSet DEF RequestDone, Good
  <2> QED BY <1>3, <2>1 DEF Turn, Good, GoodRuns, GoodRest
<1>5. CASE req' = [req EXCEPT ![r].rows[o] = NoOrder]
  <2> DEFINE q == [req[r] EXCEPT !.rows[o] = NoOrder]
  <2>1. q \in ReqState /\ q.rows = [req[r].rows EXCEPT ![o] = NoOrder] /\ q.pc = "turn"
    BY <1>r, NoOrderSound DEF ReqState, Sound
  <2>2. GoodReq(q)
    BY <1>r, <2>1, NoOrderSound DEF GoodReq, ReqState
  <2>3. req' = [req EXCEPT ![r] = q]
    BY <1>5
  <2>4. GoodReqs'
    BY <2>2, <2>3, ReqSet DEF Good
  <2> QED BY <1>3, <2>4 DEF Turn, Good, GoodRuns, GoodRest
<1> QED BY <1>1, <1>4, <1>5

LEMMA EndRequestGood ==
  ASSUME Good, NEW r \in Requests, EndRequest(r)
  PROVE  Good'
<1>1. GoodReqs'
  BY IdleReqGood, ReqSet DEF EndRequest, RequestDone, Good
<1> QED BY <1>1 DEF EndRequest, Fails, Good, GoodOrders, GoodRuns, GoodRest

-----------------------------------------------------------------------------
(* Settlements *)

LEMMA LockGood ==
  ASSUME Good, NEW s \in Settlers, Lock(s)
  PROVE  Good'
<1> DEFINE q == [IdleRun EXCEPT !.pc = "claim"]
<1>1. q \in RunState /\ q.row = IdleRun.row /\ q.pc = "claim"
  BY IdleRunGood DEF GoodRun, RunState
<1>2. GoodRun(q)
  BY <1>1, IdleRunGood DEF GoodRun
<1>3. GoodRuns'
  BY <1>2, SetGood DEF Lock, Good
<1>4. settleMu' \in [Instances -> Settlers \cup {NoSettler}]
  BY DEF Lock, Good, GoodRest
<1> QED BY <1>3, <1>4 DEF Lock, Good, GoodOrders, GoodReqs, GoodRest

LEMMA ListingGood ==
  ASSUME NEW q, GoodRun(q)
  PROVE  GoodRun([q EXCEPT !.pc = "list"])
<1> DEFINE p == [q EXCEPT !.pc = "list"]
<1>1. p \in RunState /\ p.row = q.row /\ p.pc = "list"
  BY DEF GoodRun, RunState
<1> QED BY <1>1 DEF GoodRun

LEMMA TryClaimGood ==
  ASSUME Good, NEW s \in Settlers, TryClaim(s)
  PROVE  Good'
<1>1. CASE Set(s, [run[s] EXCEPT !.pc = "list"]) /\ UNCHANGED settleMu
  <2>1. GoodRuns'
    BY <1>1, ListingGood, SetGood DEF Good, GoodRuns
  <2> QED BY <1>1, <2>1 DEF TryClaim, Good, GoodOrders, GoodReqs, GoodRest
<1>2. CASE Return(s)
  BY <1>2, ReturnGood DEF TryClaim, Good, GoodOrders, GoodReqs, GoodRest
<1> QED BY <1>1, <1>2 DEF TryClaim

LEMMA ForceGood ==
  ASSUME Good, NEW s \in Settlers, ForceSettle(s)
  PROVE  Good'
<1>1. GoodRuns'
  BY ListingGood, SetGood DEF ForceSettle, Good, GoodRuns
<1> QED BY <1>1 DEF ForceSettle, Good, GoodOrders, GoodReqs, GoodRest

(* Steps that change the goroutine's own variables only. *)
LEMMA OwnStep ==
  ASSUME Good, NEW s \in Settlers, NEW q, GoodRun(q), Set(s, q),
         UNCHANGED <<orders, account, earned, claimed, settleMu, req, failed>>
  PROVE  Good'
<1>1. GoodRuns'
  BY SetGood DEF Good
<1> QED BY <1>1 DEF Good, GoodOrders, GoodReqs, GoodRest

LEMMA ListActiveGood ==
  ASSUME Good, NEW s \in Settlers, ListActive(s)
  PROVE  Good'
<1>1. PICK only \in (IF s \in Cron THEN {OrderIds} ELSE Named) :
        Set(s, [run[s] EXCEPT !.pc = "next", !.todo = {o \in only : Listed(o)}])
  BY DEF ListActive
<1> DEFINE todo == {o \in only : Listed(o)}
           q == [run[s] EXCEPT !.pc = "next", !.todo = todo]
<1>2. todo \in SUBSET OrderIds
  BY OrdersAssumption DEF OrderIds
<1> HIDE DEF todo
<1>3. GoodRun(run[s])
  BY DEF Good, GoodRuns
<1>4. q \in RunState /\ q.row = run[s].row /\ q.pc = "next"
  BY <1>2, <1>3 DEF GoodRun, RunState
<1>5. GoodRun(q)
  BY <1>3, <1>4 DEF GoodRun
<1> QED BY <1>1, <1>5, OwnStep DEF ListActive, todo

LEMMA LoadGood ==
  ASSUME Good, NEW s \in Settlers, Load(s)
  PROVE  Good'
<1>g. GoodRun(run[s])
  BY DEF Good, GoodRuns
<1>1. PICK o \in run[s].todo :
        \/ /\ Active(o)
           /\ Set(s, [run[s] EXCEPT !.pc = IF Yield(orders[o]) > 0 THEN "pay" ELSE "save",
                                    !.todo = run[s].todo \ {o}, !.id = o, !.row = Settled(orders[o]),
                                    !.yield = Yield(orders[o])])
        \/ Set(s, [run[s] EXCEPT !.todo = run[s].todo \ {o}])
  BY DEF Load
<1>2. o \in OrderIds /\ run[s].todo \ {o} \in SUBSET OrderIds
  BY <1>g DEF GoodRun, RunState
<1>3. CASE /\ Active(o)
           /\ Set(s, [run[s] EXCEPT !.pc = IF Yield(orders[o]) > 0 THEN "pay" ELSE "save",
                                    !.todo = run[s].todo \ {o}, !.id = o, !.row = Settled(orders[o]),
                                    !.yield = Yield(orders[o])])
  <2>1. Sound(orders[o]) /\ orders[o].status = "active"
    BY <1>2, <1>3 DEF Good, GoodOrders, Active
  <2>2. PICK row \in OrderRow : row = Settled(orders[o]) /\ Sound(row) /\ row.status # "none"
    BY <2>1, SettledSound DEF Sound
  <2>3. PICK y \in Nat : y = Yield(orders[o])
    BY <2>1, YieldFits
  <2>4. PICK at \in {"pay", "save"} : at = IF Yield(orders[o]) > 0 THEN "pay" ELSE "save"
    OBVIOUS
  <2> DEFINE q == [run[s] EXCEPT !.pc = at, !.todo = run[s].todo \ {o}, !.id = o, !.row = row,
                                 !.yield = y]
  <2>5. q \in RunState /\ q.row = row /\ q.pc = at
    BY <1>g, <1>2 DEF GoodRun, RunState
  <2>6. GoodRun(q)
    BY <1>g, <2>2, <2>5 DEF GoodRun
  <2>7. Set(s, q)
    BY <1>3, <2>2, <2>3, <2>4
  <2> QED BY <2>6, <2>7, OwnStep DEF Load
<1>4. CASE Set(s, [run[s] EXCEPT !.todo = run[s].todo \ {o}])
  <2> DEFINE q == [run[s] EXCEPT !.todo = run[s].todo \ {o}]
  <2>1. q \in RunState /\ q.row = run[s].row /\ q.pc = "next"
    BY <1>g, <1>2 DEF GoodRun, RunState, Load
  <2>2. GoodRun(q)
    BY <1>g, <2>1 DEF GoodRun
  <2> QED BY <1>4, <2>2, OwnStep DEF Load
<1> QED BY <1>1, <1>3, <1>4

LEMMA PayGood ==
  ASSUME Good, NEW s \in Settlers, Pay(s)
  PROVE  Good'
<1>g. GoodRun(run[s]) /\ run[s].pc = "pay"
  BY DEF Good, GoodRuns, Pay
<1> DEFINE q == [run[s] EXCEPT !.pc = "save"]
<1>1. q \in RunState /\ q.row = run[s].row /\ q.pc = "save"
  BY <1>g DEF GoodRun, RunState
<1>2. GoodRun(q)
  BY <1>g, <1>1 DEF GoodRun
<1>3. GoodRuns'
  BY <1>2, SetGood DEF Pay, Good
<1>4. run[s].yield \in Nat /\ run[s].row.by \in Users
  BY <1>g DEF GoodRun, RunState, Sound
<1>5. earned' \in [Users -> Nat]
  BY <1>4 DEF Pay, Good, GoodRest
<1> QED BY <1>3, <1>5 DEF Pay, Good, GoodOrders, GoodReqs, GoodRest

LEMMA SaveGood ==
  ASSUME Good, NEW s \in Settlers, Save(s)
  PROVE  Good'
<1>g. GoodRun(run[s]) /\ run[s].pc = "save"
  BY DEF Good, GoodRuns, Save
<1>1. GoodOrders'
  BY <1>g, RowWritten DEF Save, Good, GoodRun
<1>b. run[s].row.by \in Users
  BY <1>g DEF GoodRun, Sound
<1>2. PICK to \in {"climb", "next"} :
        Set(s, [run[s] EXCEPT !.pc = to,
                              !.pieces[run[s].id] = [by |-> run[s].row.by, yield |-> run[s].yield],
                              !.at = run[s].row.by, !.depth = 1])
  BY DEF Save
<1> DEFINE pieces == [run[s].pieces EXCEPT ![run[s].id] = [by |-> run[s].row.by, yield |-> run[s].yield]]
           q == [run[s] EXCEPT !.pc = to, !.pieces = pieces, !.at = run[s].row.by, !.depth = 1]
<1>3. pieces \in [OrderIds -> [by : Users \cup {NoUser}, yield : Nat]]
  BY <1>g, <1>b DEF GoodRun, RunState
<1>4. Set(s, q)
  BY <1>2
<1> HIDE DEF pieces
<1>5. q \in RunState /\ q.row = run[s].row /\ q.pc = to /\ q.at = run[s].row.by
  BY <1>g, <1>b, <1>3 DEF GoodRun, RunState
<1>6. GoodRun(q)
  BY <1>g, <1>b, <1>5 DEF GoodRun
<1>7. GoodRuns'
  BY <1>4, <1>6, SetGood DEF Good
<1> QED BY <1>1, <1>7 DEF Save, Good, GoodReqs, GoodRest

LEMMA ClimbGood ==
  ASSUME Good, NEW s \in Settlers, Climb(s)
  PROVE  Good'
<1>g. GoodRun(run[s]) /\ run[s].pc = "climb" /\ run[s].at \in Users
  BY DEF Good, GoodRuns, GoodRun, Climb
<1> DEFINE up == Inviter[run[s].at]
<1>u. up \in Users \cup {NoUser}
  BY <1>g, CommunityAssumption
<1>d. run[s].depth + 1 \in Nat /\ CalcGenerationReward(run[s].yield) \in Nat
  BY <1>g, RewardNat DEF GoodRun, RunState
<1>1. \/ Set(s, [run[s] EXCEPT !.pc = "next"])
      \/ /\ up # NoUser
         /\ \/ Set(s, [[run[s] EXCEPT !.at = up, !.depth = run[s].depth + 1] EXCEPT
                           !.pc = "fill", !.to = up, !.left = CalcGenerationReward(run[s].yield)])
            \/ Set(s, [run[s] EXCEPT !.at = up, !.depth = run[s].depth + 1])
  BY DEF Climb
<1>2. CASE Set(s, [run[s] EXCEPT !.pc = "next"])
  <2> DEFINE q == [run[s] EXCEPT !.pc = "next"]
  <2>1. q \in RunState /\ q.row = run[s].row /\ q.pc = "next"
    BY <1>g DEF GoodRun, RunState
  <2>2. GoodRun(q)
    BY <1>g, <2>1 DEF GoodRun
  <2> QED BY <1>2, <2>2, OwnStep DEF Climb
<1> DEFINE p == [run[s] EXCEPT !.at = up, !.depth = run[s].depth + 1]
<1>p. ASSUME up # NoUser
      PROVE  p \in RunState /\ p.row = run[s].row /\ p.pc = "climb" /\ p.at = up /\ up \in Users
  <2>1. up \in Users
    BY <1>p, <1>u
  <2> HIDE DEF up
  <2> QED BY <1>g, <1>d, <2>1 DEF GoodRun, RunState
<1>3. CASE up # NoUser /\ Set(s, [p EXCEPT !.pc = "fill", !.to = up,
                                          !.left = CalcGenerationReward(run[s].yield)])
  <2> DEFINE q == [p EXCEPT !.pc = "fill", !.to = up, !.left = CalcGenerationReward(run[s].yield)]
  <2>1. /\ p \in RunState /\ p.row = run[s].row /\ p.at = up /\ up \in Users
        /\ CalcGenerationReward(run[s].yield) \in Nat
    BY <1>3, <1>p, <1>d
  <2>s. Set(s, q)
    BY <1>3
  <2> HIDE DEF p, up
  <2>2. q \in RunState /\ q.row = p.row /\ q.pc = "fill" /\ q.at = p.at /\ q.to = up
    BY <2>1 DEF RunState
  <2>3. GoodRun(q)
    BY <1>g, <2>1, <2>2 DEF GoodRun
  <2> QED BY <2>s, <2>3, OwnStep DEF Climb
<1>4. CASE up # NoUser /\ Set(s, p)
  <2>1. GoodRun(p)
    BY <1>g, <1>p, <1>4 DEF GoodRun
  <2> QED BY <1>4, <2>1, OwnStep DEF Climb
<1> QED BY <1>1, <1>2, <1>3, <1>4

(* Where a goroutine goes from the fill is a place it may be.                      *)
LEMMA BackGood ==
  ASSUME NEW q, GoodRun(q), q.pc \in {"fill", "credit"},
         NEW p \in RunState, p.row = q.row, p.phase = q.phase, p.at = q.at,
         p.pc = IF q.phase = "static" THEN "climb" ELSE "lines"
  PROVE  GoodRun(p)
  BY DEF GoodRun

LEMMA FillGood ==
  ASSUME Good, NEW s \in Settlers, Fill(s)
  PROVE  Good'
<1>g. GoodRun(run[s]) /\ run[s].pc = "fill" /\ run[s] \in RunState
  BY DEF Good, GoodRuns, GoodRun, Fill
<1>1. CASE \E o \in ActiveOf(run[s].to) :
             Set(s, [run[s] EXCEPT !.pc = "write", !.id = o,
                                   !.chunk = Lesser(run[s].left, Room(orders[o])),
                                   !.row = Progress(orders[o], Lesser(run[s].left, Room(orders[o])))])
  <2>1. PICK o \in ActiveOf(run[s].to) :
             Set(s, [run[s] EXCEPT !.pc = "write", !.id = o,
                                   !.chunk = Lesser(run[s].left, Room(orders[o])),
                                   !.row = Progress(orders[o], Lesser(run[s].left, Room(orders[o])))])
    BY <1>1
  <2>2. o \in OrderIds /\ Sound(orders[o]) /\ orders[o].status = "active"
    BY DEF ActiveOf, OrdersOf, Active, Good, GoodOrders
  <2>3. Room(orders[o]) \in Nat /\ run[s].left \in Nat
    BY <1>g, <2>2, YieldFits DEF RunState
  <2>4. PICK c \in Nat : c = Lesser(run[s].left, Room(orders[o])) /\ c <= run[s].left
    BY <2>3 DEF Lesser
  <2>5. PICK row \in OrderRow : row = Progress(orders[o], c) /\ Sound(row)
    BY <2>2, ProgressSound DEF Sound
  <2> DEFINE q == [run[s] EXCEPT !.pc = "write", !.id = o, !.chunk = c, !.row = row]
  <2>6. /\ q \in RunState /\ q.row = row /\ q.pc = "write" /\ q.chunk = c
        /\ q.left = run[s].left /\ q.at = run[s].at /\ q.phase = run[s].phase /\ q.to = run[s].to
    BY <1>g, <2>2 DEF RunState
  <2>7. GoodRun(q)
    BY <1>g, <2>4, <2>5, <2>6 DEF GoodRun
  <2>8. Set(s, q)
    BY <2>1, <2>4, <2>5
  <2> QED BY <2>7, <2>8, OwnStep DEF Fill
<1>2. CASE Set(s, [run[s] EXCEPT !.pc = "credit"])
  <2> DEFINE q == [run[s] EXCEPT !.pc = "credit"]
  <2>1. /\ q \in RunState /\ q.row = run[s].row /\ q.pc = "credit" /\ q.at = run[s].at
        /\ q.phase = run[s].phase /\ q.to = run[s].to
    BY <1>g DEF RunState
  <2>2. GoodRun(q)
    BY <1>g, <2>1 DEF GoodRun
  <2> QED BY <1>2, <2>2, OwnStep DEF Fill
<1>3. CASE Set(s, [run[s] EXCEPT !.pc = Caller(s), !.left = 0])
  <2>1. PICK to \in {"climb", "lines"} : to = Caller(s) /\ to = IF run[s].phase = "static" THEN "climb" ELSE "lines"
    BY DEF Caller
  <2> DEFINE q == [run[s] EXCEPT !.pc = to, !.left = 0]
  <2>2. q \in RunState /\ q.row = run[s].row /\ q.pc = to /\ q.at = run[s].at /\ q.phase = run[s].phase
    BY <1>g DEF RunState
  <2>3. GoodRun(q)
    BY <1>g, <2>1, <2>2, BackGood
  <2> QED BY <1>3, <2>1, <2>3, OwnStep DEF Fill
<1> QED BY <1>1, <1>2, <1>3 DEF Fill

LEMMA WriteGood ==
  ASSUME Good, NEW s \in Settlers, Write(s)
  PROVE  Good'
<1>g. GoodRun(run[s]) /\ run[s].pc = "write" /\ run[s] \in RunState
  BY DEF Good, GoodRuns, GoodRun, Write
<1>1. GoodOrders'
  BY <1>g, RowWritten DEF Write, Good, GoodRun
<1>2. run[s].left - run[s].chunk \in Nat /\ run[s].applied + run[s].chunk \in Nat
  BY <1>g DEF GoodRun, RunState
<1> DEFINE q == [run[s] EXCEPT !.pc = "fill", !.left = run[s].left - run[s].chunk, !.chunk = 0,
                               !.applied = run[s].applied + run[s].chunk]
<1>3. /\ q \in RunState /\ q.row = run[s].row /\ q.pc = "fill" /\ q.at = run[s].at
      /\ q.phase = run[s].phase /\ q.to = run[s].to
  BY <1>g, <1>2 DEF RunState
<1>4. GoodRun(q)
  BY <1>g, <1>3 DEF GoodRun
<1>5. GoodRuns'
  BY <1>4, SetGood DEF Write, Good
<1> QED BY <1>1, <1>5 DEF Write, Good, GoodReqs, GoodRest

LEMMA CreditFilledGood ==
  ASSUME Good, NEW s \in Settlers, CreditFilled(s)
  PROVE  Good'
<1>g. GoodRun(run[s]) /\ run[s].pc = "credit" /\ run[s] \in RunState
  BY DEF Good, GoodRuns, GoodRun, CreditFilled
<1>1. run[s].applied \in Nat /\ run[s].to \in Users
  BY <1>g DEF GoodRun, RunState
<1>2. earned' \in [Users -> Nat]
  BY <1>1 DEF CreditFilled, Good, GoodRest
<1>3. PICK to \in {"climb", "lines"} : to = Caller(s) /\ to = IF run[s].phase = "static" THEN "climb" ELSE "lines"
  BY DEF Caller
<1> DEFINE got == [run[s].got EXCEPT ![run[s].to] = IF run[s].phase = "base" THEN @ + run[s].applied ELSE @]
           q == [run[s] EXCEPT !.pc = to, !.left = 0, !.applied = 0, !.got = got]
<1>4. got \in [Users -> Nat]
  BY <1>g, <1>1 DEF RunState
<1>5. Set(s, q)
  BY <1>3 DEF CreditFilled
<1> HIDE DEF got
<1>6. q \in RunState /\ q.row = run[s].row /\ q.pc = to /\ q.at = run[s].at /\ q.phase = run[s].phase
  BY <1>g, <1>4 DEF RunState
<1>7. GoodRun(q)
  BY <1>g, <1>3, <1>6, BackGood
<1>8. GoodRuns'
  BY <1>5, <1>7, SetGood DEF Good
<1> QED BY <1>2, <1>8 DEF CreditFilled, Good, GoodOrders, GoodReqs, GoodRest

LEMMA RefreshLevelsGood ==
  ASSUME Good, NEW s \in Settlers, RefreshLevels(s)
  PROVE  Good'
<1>g. GoodRun(run[s]) /\ run[s] \in RunState
  BY DEF Good, GoodRuns, GoodRun
<1> DEFINE pieces == [o \in OrderIds |->
                        IF run[s].pieces[o].by \in RewardLocked THEN [run[s].pieces[o] EXCEPT !.yield = 0]
                        ELSE run[s].pieces[o]]
           lines == BaseLines(LevelNow, pieces)
           level == LevelNow
<1>1. pieces \in [OrderIds -> [by : Users \cup {NoUser}, yield : Nat]]
  BY <1>g DEF RunState
<1> HIDE DEF pieces
<1>2. lines \in SUBSET [to : Users, from : Users \cup {NoUser}, source : OrderIds \cup {0}, amount : Nat]
  BY <1>1, LinesTyped
<1>3. level \in [Users -> 0..9]
  <2>1. \A u \in DOMAIN LockedLevel : LockedLevel[u] \in 0..9
    BY OrdersAssumption
  <2> QED BY <2>1, LevelRange DEF LevelNow
<1>4. Set(s, [run[s] EXCEPT !.pc = "lines", !.phase = "base", !.level = level, !.lines = lines])
  BY DEF RefreshLevels, pieces
<1> HIDE DEF lines, level
<1> DEFINE q == [run[s] EXCEPT !.pc = "lines", !.phase = "base", !.level = level, !.lines = lines]
<1>5. q \in RunState /\ q.row = run[s].row /\ q.pc = "lines" /\ q.phase = "base"
  BY <1>g, <1>2, <1>3 DEF RunState
<1>6. GoodRun(q)
  BY <1>g, <1>5 DEF GoodRun
<1> QED BY <1>4, <1>6, OwnStep DEF RefreshLevels

LEMMA TakeLineGood ==
  ASSUME Good, NEW s \in Settlers, TakeLine(s)
  PROVE  Good'
<1>g. GoodRun(run[s]) /\ run[s] \in RunState /\ run[s].pc = "lines"
  BY DEF Good, GoodRuns, GoodRun, TakeLine
<1>1. PICK l \in run[s].lines :
        Set(s, [run[s] EXCEPT !.pc = "fill", !.to = l.to, !.left = l.amount, !.lines = run[s].lines \ {l}])
  BY DEF TakeLine
<1> DEFINE lines == run[s].lines \ {l}
<1>2. l \in [to : Users, from : Users \cup {NoUser}, source : OrderIds \cup {0}, amount : Nat]
  BY <1>g, <1>1 DEF RunState
<1>3. lines \in SUBSET [to : Users, from : Users \cup {NoUser}, source : OrderIds \cup {0}, amount : Nat]
  BY <1>g DEF RunState
<1>4. l.to \in Users /\ l.amount \in Nat
  BY <1>2
<1> HIDE DEF lines
<1> DEFINE q == [run[s] EXCEPT !.pc = "fill", !.to = l.to, !.left = l.amount, !.lines = lines]
<1>5. /\ q \in RunState /\ q.row = run[s].row /\ q.pc = "fill" /\ q.phase = run[s].phase
      /\ q.to = l.to
  BY <1>g, <1>3, <1>4 DEF RunState
<1>6. GoodRun(q)
  BY <1>g, <1>4, <1>5 DEF GoodRun
<1> QED BY <1>1, <1>6, OwnStep DEF TakeLine, lines

LEMMA StartPeersGood ==
  ASSUME Good, NEW s \in Settlers, StartPeers(s)
  PROVE  Good'
<1>g. GoodRun(run[s]) /\ run[s] \in RunState /\ run[s].pc = "lines"
  BY DEF Good, GoodRuns, GoodRun, StartPeers
<1> DEFINE lines == PeerLines(run[s].level, run[s].got)
<1>1. lines \in SUBSET [to : Users, from : Users \cup {NoUser}, source : OrderIds \cup {0}, amount : Nat]
  BY <1>g, PeersTyped DEF RunState
<1>2. Set(s, [run[s] EXCEPT !.phase = "peer", !.lines = lines])
  BY DEF StartPeers
<1> HIDE DEF lines
<1> DEFINE q == [run[s] EXCEPT !.phase = "peer", !.lines = lines]
<1>3. q \in RunState /\ q.row = run[s].row /\ q.pc = "lines" /\ q.phase = "peer"
  BY <1>g, <1>1 DEF RunState
<1>4. GoodRun(q)
  BY <1>g, <1>3 DEF GoodRun
<1> QED BY <1>2, <1>4, OwnStep DEF StartPeers

LEMMA ReturningGood ==
  ASSUME Good, NEW s \in Settlers, Finish(s) \/ EndSettlement(s)
  PROVE  Good'
<1>1. GoodRuns' /\ settleMu' \in [Instances -> Settlers \cup {NoSettler}]
  BY ReturnGood DEF Finish, EndSettlement, Good
<1>2. failed' \in Nat
  BY DEF Finish, EndSettlement, Fails, Good, GoodRest
<1> QED BY <1>1, <1>2 DEF Finish, EndSettlement, Good, GoodOrders, GoodReqs, GoodRest

LEMMA ProgressesGood ==
  ASSUME Good, NEW s \in Settlers, Progresses(s)
  PROVE  Good'
  BY ListActiveGood, LoadGood, PayGood, SaveGood, ClimbGood, FillGood, WriteGood, CreditFilledGood,
     RefreshLevelsGood, TakeLineGood, StartPeersGood, ReturningGood DEF Progresses

LEMMA NextGood == Good /\ [Next]_vars => Good'
<1> SUFFICES ASSUME Good, [Next]_vars PROVE Good'
  OBVIOUS
<1>1. CASE \E r \in Requests, u \in Users, a \in Amounts : Subscribe(r, u, a)
  BY <1>1, SubscribeGood
<1>2. CASE \E r \in Requests, u \in Users : ListTurns(r, u)
  BY <1>2, ListTurnsGood
<1>3. CASE \E r \in Requests : SubAccountBalance(r) \/ Create(r) \/ Turn(r) \/ EndRequest(r)
  BY <1>3, SubAccountBalanceGood, CreateGood, TurnGood, EndRequestGood
<1>4. CASE \E s \in Settlers : Lock(s) \/ TryClaim(s) \/ ForceSettle(s) \/ Progresses(s) \/ EndSettlement(s)
  BY <1>4, LockGood, TryClaimGood, ForceGood, ProgressesGood, ReturningGood
<1>5. CASE NextDay
  BY <1>5 DEF NextDay, Good, GoodOrders, GoodRuns, GoodReqs, GoodRest
<1>6. CASE UNCHANGED vars
  BY <1>6 DEF vars, Good, GoodOrders, GoodRuns, GoodReqs, GoodRest
<1> QED BY <1>1, <1>2, <1>3, <1>4, <1>5, <1>6 DEF Next

LEMMA GoodHolds == Spec => []Good
  BY InitGood, NextGood, PTL DEF Spec

(* Types of Orders, for every number of users, orders, settlements and requests,   *)
(* whatever fails and overlaps; the rate of an order stays between rate_min and    *)
(* rate_max for every step.                                                        *)
THEOREM OrdersTypeCorrect == Spec => []OrdersTypeOK
<1>1. Good => OrdersTypeOK
  BY DEF Good, GoodOrders, GoodRuns, GoodReqs, GoodRest, OrdersTypeOK
<1> QED BY <1>1, GoodHolds, PTL

(* An order is over exactly when it has accumulated its target: also with several  *)
(* processes, forced settlements, extracts that overlap settlements, errors and    *)
(* crashes, because every row anyone writes is sound by itself.                    *)
THEOREM ExitExact == Spec => []ExitedIffFull
<1>1. Good => ExitedIffFull
  BY DEF Good, GoodOrders, Sound, OrderRow, ExitedIffFull, Exists
<1> QED BY <1>1, GoodHolds, PTL

-----------------------------------------------------------------------------
(* Progress and turns, when extracts keep away from settlements and at most one    *)
(* settlement works at a time: because there is one process, whose settleMu they   *)
(* share, or because none is forced and the claim of the day admits one.  Then     *)
(* what a settlement has in hand was read from the row as it still is, and the     *)
(* rows an extract listed have at most been turned since.                          *)

Apart    == ~TurnsMayOverlap
OneAtATime == ~AllowForce \/ \A s, t \in Settlers : Home[s] = Home[t]

Works(s) == run[s].pc \notin {"idle", "claim"}

MutexHeld     == \A s \in Settlers : run[s].pc # "idle" => settleMu[Home[s]] = s
DayClaimed    == ~AllowForce => \A s \in Settlers : Works(s) => claimed
AloneAtWork   == \A s, t \in Settlers : Works(s) /\ Works(t) => s = t
TurnsKeepAway == \A s \in Settlers, r \in Requests : ~(Works(s) /\ req[r].pc = "turn")

Exclusive == MutexHeld /\ DayClaimed /\ AloneAtWork /\ TurnsKeepAway

HandIsFresh ==
  \A s \in Settlers :
    /\ run[s].pc \in {"pay", "save"} =>
         run[s].id \in OrderIds /\ Active(run[s].id) /\ run[s].row = Settled(orders[run[s].id])
    /\ run[s].pc = "write" =>
         run[s].id \in OrderIds /\ Active(run[s].id)
           /\ run[s].chunk \in 1..Room(orders[run[s].id])
           /\ run[s].row = Progress(orders[run[s].id], run[s].chunk)

ListedFresh(row, now) ==
  row.status # "none" =>
    /\ row.status = "active" /\ ~row.pending /\ Turns(row.dir, row.last)
    /\ now \in {row, Turned(row)}

ListIsFresh ==
  \A r \in Requests : req[r].pc = "turn" => \A o \in OrderIds : ListedFresh(req[r].rows[o], orders[o])

AloneInv == Good /\ Exclusive /\ HandIsFresh /\ ListIsFresh /\ TurnIsOfLast

LEMMA InitAlone == Init => AloneInv
<1> SUFFICES ASSUME Init PROVE AloneInv
  OBVIOUS
<1>1. /\ \A s \in Settlers : run[s].pc = "idle"
      /\ \A r \in Requests : req[r].pc = "idle"
  BY DEF Init, IdleRun, IdleReq
<1>2. Exclusive /\ HandIsFresh /\ ListIsFresh
  BY <1>1 DEF Exclusive, MutexHeld, DayClaimed, AloneAtWork, TurnsKeepAway, Works, HandIsFresh, ListIsFresh
<1>3. \A o \in OrderIds : orders[o].pending = FALSE
  <2> TAKE o \in OrderIds
  <2>1. CASE o \in DOMAIN Placed
    <3>1. Placed[o].by \in Users /\ Placed[o].amount \in Amounts
      BY <2>1, OrdersAssumption
    <3> QED BY <2>1, <3>1, NewOrderSound DEF Init, FirstOrders
  <2>2. CASE o \notin DOMAIN Placed
    BY <2>2 DEF Init, FirstOrders, NoOrder
  <2> QED BY <2>1, <2>2
<1>4. TurnIsOfLast
  BY <1>3 DEF TurnIsOfLast
<1> QED BY <1>2, <1>4, InitGood DEF AloneInv

(* Who works after a step of a settlement. *)
LEMMA SetOthers ==
  ASSUME GoodRuns, NEW s \in Settlers, NEW q, Set(s, q)
  PROVE  run'[s] = q /\ \A t \in Settlers \ {s} : run'[t] = run[t]
  BY DEF GoodRuns, Set

LEMMA WorkerStep ==
  ASSUME Good, NEW s \in Settlers, Progresses(s)
  PROVE  /\ Works(s)
         /\ \A t \in Settlers \ {s} : run'[t] = run[t]
         /\ \/ UNCHANGED settleMu
            \/ run'[s].pc = "idle" /\ settleMu' = [settleMu EXCEPT ![Home[s]] = NoSettler]
         /\ UNCHANGED req /\ (claimed' = claimed \/ claimed' = TRUE)
<1>g. GoodRuns
  BY DEF Good
<1>1. Works(s)
  BY DEF Progresses, ListActive, Load, Pay, Save, Climb, Fill, Write, CreditFilled, RefreshLevels,
         TakeLine, StartPeers, Finish, Works
<1>2. \E q : Set(s, q)
  BY DEF Progresses, ListActive, Load, Pay, Save, Climb, Fill, Write, CreditFilled, RefreshLevels,
         TakeLine, StartPeers, Finish, Return
<1>3. UNCHANGED req /\ (claimed' = claimed \/ claimed' = TRUE)
  BY DEF Progresses, ListActive, Load, Pay, Save, Climb, Fill, Write, CreditFilled, RefreshLevels,
         TakeLine, StartPeers, Finish
<1>4. CASE Finish(s)
  <2>1. Set(s, IdleRun) /\ settleMu' = [settleMu EXCEPT ![Home[s]] = NoSettler]
    BY <1>4 DEF Finish, Return
  <2> QED BY <1>g, <1>1, <1>3, <2>1, SetOthers, IdleRunGood
<1>5. CASE ~Finish(s)
  <2>1. UNCHANGED settleMu
    BY <1>5 DEF Progresses, ListActive, Load, Pay, Save, Climb, Fill, Write, CreditFilled,
                RefreshLevels, TakeLine, StartPeers
  <2> QED BY <1>g, <1>1, <1>2, <1>3, <2>1, SetOthers
<1> QED BY <1>4, <1>5

LEMMA ExclusiveNext ==
  ASSUME Apart, OneAtATime, Good, Exclusive, [Next]_vars
  PROVE  Exclusive'
<1> USE DEF Exclusive, MutexHeld, DayClaimed, AloneAtWork, TurnsKeepAway, Works
<1>h. /\ settleMu \in [Instances -> Settlers \cup {NoSettler}] /\ NoSettler \notin Settlers
      /\ Home \in [Settlers -> Instances] /\ GoodRuns /\ GoodReqs
  BY OrdersAssumption DEF Good, GoodRest
<1>1. ASSUME NEW r \in Requests, NEW u \in Users, NEW a \in Amounts, Subscribe(r, u, a)
      PROVE  Exclusive'
  <2>1. \A p \in Requests : req'[p].pc = "turn" => req[p].pc = "turn"
    <3>1. [IdleReq EXCEPT !.pc = "sub", !.user = u, !.amount = a].pc = "sub"
      BY DEF IdleReq
    <3> QED BY <1>1, <1>h, <3>1 DEF Subscribe, GoodReqs
  <2> QED BY <1>1, <2>1 DEF Subscribe
<1>2. ASSUME NEW r \in Requests, SubAccountBalance(r) \/ Create(r) \/ Turn(r) \/ EndRequest(r)
      PROVE  Exclusive'
  <2>1. \A p \in Requests : req'[p].pc = "turn" => req[p].pc = "turn"
    <3>1. IdleReq.pc = "idle" /\ \A p \in Requests : req[p] \in ReqState
      BY <1>h DEF IdleReq, GoodReqs
    <3>2. CASE RequestDone(r)
      BY <3>1, <3>2, <1>h DEF RequestDone, GoodReqs
    <3>3. CASE req' = [req EXCEPT ![r].pc = "create"]
      BY <3>1, <3>3, <1>h DEF GoodReqs, ReqState
    <3>4. CASE \E o \in OrderIds : req' = [req EXCEPT ![r].rows[o] = NoOrder]
      BY <3>1, <3>4, <1>h DEF GoodReqs, ReqState
    <3>5. \/ RequestDone(r) \/ req' = [req EXCEPT ![r].pc = "create"]
          \/ \E o \in OrderIds : req' = [req EXCEPT ![r].rows[o] = NoOrder]
      BY <1>2 DEF SubAccountBalance, Create, Turn, EndRequest, Unwritten
    <3> QED BY <3>2, <3>3, <3>4, <3>5
  <2>2. UNCHANGED <<claimed, settleMu, run>>
    BY <1>2 DEF SubAccountBalance, Create, Turn, EndRequest
  <2> QED BY <2>1, <2>2
<1>3. ASSUME NEW r \in Requests, NEW u \in Users, ListTurns(r, u)
      PROVE  Exclusive'
  BY <1>3 DEF ListTurns, Settling, Apart
<1>4. ASSUME NEW s \in Settlers, Lock(s)
      PROVE  Exclusive'
  <2>1. [IdleRun EXCEPT !.pc = "claim"].pc = "claim"
    BY DEF IdleRun
  <2>2. run'[s].pc = "claim" /\ \A t \in Settlers \ {s} : run'[t] = run[t]
    BY <1>4, <1>h, <2>1, SetOthers DEF Lock
  <2>3. settleMu[Home[s]] = NoSettler /\ settleMu' = [settleMu EXCEPT ![Home[s]] = s]
    BY <1>4 DEF Lock, MutexFree
  <2>4. MutexHeld'
    BY <1>h, <2>2, <2>3
  <2> QED BY <1>4, <2>2, <2>4 DEF Lock
<1>5. ASSUME NEW s \in Settlers, TryClaim(s) \/ ForceSettle(s),
             Set(s, [run[s] EXCEPT !.pc = "list"]), UNCHANGED settleMu
      PROVE  Exclusive'
  <2>1. run[s].pc = "claim" /\ run[s] \in RunState
    BY <1>5, <1>h DEF TryClaim, ForceSettle, GoodRuns
  <2>2. [run[s] EXCEPT !.pc = "list"].pc = "list"
    BY <2>1 DEF RunState
  <2>3. run'[s].pc = "list" /\ \A t \in Settlers \ {s} : run'[t] = run[t]
    BY <1>5, <1>h, <2>2, SetOthers
  <2>4. \A t \in Settlers \ {s} : ~Works(t)
    <3>1. CASE AllowForce
      BY <1>h, <2>1, <3>1 DEF OneAtATime
    <3>2. CASE ~AllowForce
      <4>1. ~claimed
        BY <1>5, <1>h, <2>1, <2>3, <3>2, IdleRunGood, SetOthers
           DEF TryClaim, ForceSettle, Claimable, Return
      <4> QED BY <3>2, <4>1
    <3> QED BY <3>1, <3>2
  <2>5. ~Turning /\ UNCHANGED req
    BY <1>5 DEF TryClaim, ForceSettle, Apart
  <2>6. (MutexHeld /\ AloneAtWork /\ TurnsKeepAway)'
    BY <1>5, <2>1, <2>3, <2>4, <2>5 DEF Turning
  <2>7. DayClaimed'
    BY <1>5, <2>3 DEF TryClaim, ForceSettle
  <2> QED BY <2>6, <2>7
<1>6. ASSUME NEW s \in Settlers, Return(s), UNCHANGED req, claimed' = claimed \/ claimed' = TRUE,
             run[s].pc # "idle"
      PROVE  Exclusive'
  <2>1. run'[s].pc = "idle" /\ \A t \in Settlers \ {s} : run'[t] = run[t]
    BY <1>6, <1>h, SetOthers, IdleRunGood DEF Return
  <2>2. settleMu' = [settleMu EXCEPT ![Home[s]] = NoSettler]
    BY <1>6 DEF Return
  <2>3. MutexHeld'
    BY <1>6, <1>h, <2>1, <2>2
  <2> QED BY <1>6, <2>1, <2>3
<1>7. ASSUME NEW s \in Settlers, TryClaim(s) \/ ForceSettle(s)
      PROVE  Exclusive'
  BY <1>5, <1>6, <1>7 DEF TryClaim, ForceSettle
<1>8. ASSUME NEW s \in Settlers, EndSettlement(s)
      PROVE  Exclusive'
  BY <1>6, <1>8 DEF EndSettlement
<1>9. ASSUME NEW s \in Settlers, Progresses(s)
      PROVE  Exclusive'
  <2>1. /\ Works(s) /\ UNCHANGED req /\ (claimed' = claimed \/ claimed' = TRUE)
        /\ \A t \in Settlers \ {s} : run'[t] = run[t]
        /\ \/ UNCHANGED settleMu
           \/ run'[s].pc = "idle" /\ settleMu' = [settleMu EXCEPT ![Home[s]] = NoSettler]
    BY <1>9, WorkerStep
  <2>2. MutexHeld'
    BY <1>h, <2>1
  <2>3. \A t \in Settlers : Works(t)' => Works(t)
    BY <2>1
  <2>4. claimed => claimed'
    BY <2>1
  <2>5. DayClaimed'
    BY <2>3, <2>4
  <2> QED BY <2>1, <2>2, <2>3, <2>5
<1>10. CASE NextDay
  BY <1>10 DEF NextDay, Settling
<1>11. CASE UNCHANGED vars
  BY <1>11 DEF vars
<1> QED BY <1>1, <1>2, <1>3, <1>4, <1>7, <1>8, <1>9, <1>10, <1>11 DEF Next

-----------------------------------------------------------------------------
(* What a step does to the table: nobody loses progress. *)
NoneFalls ==
  \A o \in OrderIds : orders'[o].acc >= orders[o].acc
                         /\ (orders[o].status = "exited" => orders'[o] = orders[o])

Atomic == AtomicNext \/ UNCHANGED orders

Kept == HandIsFresh' /\ ListIsFresh' /\ TurnIsOfLast' /\ NoneFalls /\ Atomic

LEMMA TableKept ==
  ASSUME Good, TurnIsOfLast, UNCHANGED orders
  PROVE  TurnIsOfLast' /\ NoneFalls /\ Atomic
<1>1. \A o \in OrderIds : orders[o].acc \in Nat
  BY RowFields DEF Good, GoodOrders
<1> QED BY <1>1 DEF TurnIsOfLast, NoneFalls, Atomic, Active

(* One row is written by a row that follows the one that stands there. *)
LEMMA RowKept ==
  ASSUME Good, TurnIsOfLast, NEW o \in OrderIds, NEW row, orders' = [orders EXCEPT ![o] = row],
         orders[o].status # "exited", row.acc >= orders[o].acc,
         row.status = "active" /\ row.pending =>
           [rate |-> row.rate, dir |-> row.dir] = ExtractRateTurn(row.last)
  PROVE  TurnIsOfLast' /\ NoneFalls
<1>1. \A p \in OrderIds : orders[p].acc \in Nat
  BY RowFields DEF Good, GoodOrders
<1>2. orders'[o] = row /\ \A p \in OrderIds \ {o} : orders'[p] = orders[p]
  BY DEF Good, GoodOrders
<1>3. NoneFalls
  BY <1>1, <1>2 DEF NoneFalls
<1>4. TurnIsOfLast'
  BY <1>2 DEF TurnIsOfLast, Active
<1> QED BY <1>3, <1>4

(* One of the four things that happen to an order. *)
LEMMA RowMoves ==
  ASSUME NEW o \in OrderIds, Open(o) \/ SettleOne(o) \/ Accelerate(o) \/ TurnOne(o),
         NEW row, Becomes(o, row), orders \in [OrderIds -> OrderRow]
  PROVE  Atomic
<1>1. CASE Changes(o)
  BY <1>1 DEF Atomic, AtomicNext
<1>2. CASE ~Changes(o)
  BY <1>2 DEF Atomic, Changes, Becomes
<1> QED BY <1>1, <1>2

LEMMA RequestsKeep ==
  ASSUME AloneInv, NEW r \in Requests,
         \/ \E u \in Users, a \in Amounts : Subscribe(r, u, a)
         \/ SubAccountBalance(r)
         \/ EndRequest(r)
  PROVE  Kept
<1>1. UNCHANGED <<orders, run>>
  BY DEF Subscribe, SubAccountBalance, EndRequest
<1>2. \A p \in Requests : req'[p].pc = "turn" => req'[p] = req[p]
  <2>g. req \in [Requests -> ReqState]
    BY DEF AloneInv, Good, GoodReqs
  <2>1. CASE \E u \in Users, a \in Amounts : Subscribe(r, u, a)
    <3>1. PICK u \in Users, a \in Amounts : Subscribe(r, u, a)
      BY <2>1
    <3>2. [IdleReq EXCEPT !.pc = "sub", !.user = u, !.amount = a].pc = "sub"
      BY DEF IdleReq
    <3> QED BY <2>g, <3>1, <3>2 DEF Subscribe
  <2>2. CASE RequestDone(r)
    <3>1. IdleReq.pc = "idle"
      BY DEF IdleReq
    <3> QED BY <2>g, <2>2, <3>1 DEF RequestDone
  <2>3. CASE req' = [req EXCEPT ![r].pc = "create"]
    BY <2>g, <2>3 DEF ReqState
  <2> QED BY <2>1, <2>2, <2>3 DEF SubAccountBalance, EndRequest
<1>3. HandIsFresh' /\ ListIsFresh'
  BY <1>1, <1>2 DEF AloneInv, HandIsFresh, ListIsFresh, ListedFresh, Active
<1> QED BY <1>1, <1>3, TableKept DEF AloneInv, Kept

LEMMA CreateKeeps ==
  ASSUME AloneInv, NEW r \in Requests, Create(r)
  PROVE  Kept
<1>g. /\ req \in [Requests -> ReqState] /\ orders \in [OrderIds -> OrderRow]
      /\ req[r].user \in Users /\ req[r].amount \in Amounts
      /\ \A p \in Requests, o \in OrderIds : Sound(req[p].rows[o])
      /\ \A o \in OrderIds : Sound(orders[o])
  BY DEF AloneInv, Good, GoodOrders, GoodReqs, GoodReq, Create
<1>1. PICK o \in OrderIds :
        /\ FirstFree(o) /\ orders[o].status = "none"
        /\ orders' = [orders EXCEPT ![o] = NewOrder(req[r].user, req[r].amount)]
  BY DEF Create, FirstFree, Exists
<1>2. \A p \in OrderIds : orders[p].status # "none" => orders'[p] = orders[p]
  BY <1>g, <1>1
<1>3. HandIsFresh'
  BY <1>2 DEF Create, AloneInv, HandIsFresh, Active
<1>4. \A p \in Requests : req'[p].pc = "turn" => req'[p] = req[p]
  <2>1. IdleReq.pc = "idle"
    BY DEF IdleReq
  <2> QED BY <1>g, <2>1 DEF Create, RequestDone
<1>5. ASSUME NEW p \in Requests, req'[p].pc = "turn", NEW q \in OrderIds,
             req[p].rows[q].status # "none"
      PROVE  orders'[q] = orders[q] /\ ListedFresh(req[p].rows[q], orders[q])
  <2>1. ListedFresh(req[p].rows[q], orders[q])
    BY <1>4, <1>5 DEF AloneInv, ListIsFresh
  <2>2. Turned(req[p].rows[q]).status = req[p].rows[q].status
    BY <1>g, TurnedSound
  <2>3. orders[q].status # "none"
    BY <1>5, <2>1, <2>2 DEF ListedFresh
  <2> QED BY <1>2, <2>1, <2>3
<1>6. ListIsFresh'
  BY <1>4, <1>5 DEF ListIsFresh, ListedFresh
<1>7. TurnIsOfLast' /\ NoneFalls
  <2> DEFINE row == NewOrder(req[r].user, req[r].amount)
  <2>1. Sound(row) /\ row.pending = FALSE
    BY <1>g, NewOrderSound
  <2>2. orders[o].acc = 0 /\ row.acc \in Nat
    BY <1>g, <1>1, <2>1, RowFields DEF Sound
  <2>3. row.acc >= orders[o].acc
    BY <2>2
  <2> HIDE DEF row
  <2>4. orders' = [orders EXCEPT ![o] = row]
    BY <1>1 DEF row
  <2> QED BY <1>1, <2>1, <2>3, <2>4, RowKept DEF AloneInv
<1>8. Atomic
  <2>1. Becomes(o, NewOrder(req[r].user, req[r].amount))
    BY <1>1 DEF Becomes
  <2>2. Open(o)
    BY <1>g, <1>1, <2>1 DEF Open
  <2> QED BY <1>g, <2>1, <2>2, RowMoves
<1> QED BY <1>3, <1>6, <1>7, <1>8 DEF Kept

LEMMA ListTurnsKeeps ==
  ASSUME AloneInv, NEW r \in Requests, NEW u \in Users, ListTurns(r, u)
  PROVE  Kept
<1>g. req \in [Requests -> ReqState]
  BY DEF AloneInv, Good, GoodReqs
<1>1. UNCHANGED <<orders, run>>
  BY DEF ListTurns
<1> DEFINE rows == [o \in OrderIds |-> IF o \in ToTurn(u) THEN orders[o] ELSE NoOrder]
           q == [IdleReq EXCEPT !.pc = "turn", !.user = u, !.rows = rows]
<1>2. req' = [req EXCEPT ![r] = q]
  BY DEF ListTurns
<1>3. q.rows = rows
  BY DEF IdleReq
<1>4. ASSUME NEW o \in OrderIds
      PROVE  ListedFresh(rows[o], orders[o])
  <2>1. CASE o \in ToTurn(u)
    BY <2>1 DEF ToTurn, ToBeTurned, ListedFresh, Active
  <2>2. CASE o \notin ToTurn(u)
    BY <2>2 DEF NoOrder, ListedFresh
  <2> QED BY <2>1, <2>2
<1> HIDE DEF q, rows
<1>5. ListIsFresh'
  <2> SUFFICES ASSUME NEW p \in Requests, req'[p].pc = "turn", NEW o \in OrderIds
               PROVE  ListedFresh(req'[p].rows[o], orders'[o])
    BY DEF ListIsFresh
  <2>1. CASE p = r
    BY <1>g, <1>1, <1>2, <1>3, <1>4, <2>1 DEF ListedFresh
  <2>2. CASE p # r
    <3>1. req'[p] = req[p]
      BY <1>g, <1>2, <2>2
    <3> QED BY <1>1, <3>1 DEF AloneInv, ListIsFresh, ListedFresh
  <2> QED BY <2>1, <2>2
<1>6. HandIsFresh'
  BY <1>1 DEF AloneInv, HandIsFresh, Active
<1> QED BY <1>1, <1>5, <1>6, TableKept DEF AloneInv, Kept

LEMMA TurnKeeps ==
  ASSUME AloneInv, NEW r \in Requests, Turn(r)
  PROVE  Kept
<1>g. /\ req \in [Requests -> ReqState] /\ orders \in [OrderIds -> OrderRow]
      /\ \A p \in Requests, o \in OrderIds : Sound(req[p].rows[o])
      /\ \A o \in OrderIds : Sound(orders[o])
  BY DEF AloneInv, Good, GoodOrders, GoodReqs, GoodReq
<1>1. PICK o \in Unwritten(r) :
        /\ orders' = [orders EXCEPT ![o] = Turned(req[r].rows[o])]
        /\ RequestDone(r) \/ req' = [req EXCEPT ![r].rows[o] = NoOrder]
  BY DEF Turn
<1> DEFINE row == req[r].rows[o]
<1>2. /\ o \in OrderIds /\ row.status = "active" /\ ~row.pending /\ Turns(row.dir, row.last) /\ Sound(row)
      /\ orders[o] \in {row, Turned(row)}
  BY <1>g DEF Unwritten, Turn, AloneInv, ListIsFresh, ListedFresh
<1>3. /\ Sound(Turned(row)) /\ Turned(row).acc = row.acc /\ Turned(row).status = row.status
      /\ Turned(row).pending = TRUE
      /\ [rate |-> Turned(row).rate, dir |-> Turned(row).dir] = ExtractRateTurn(Turned(row).last)
  BY <1>2, TurnedSound
<1>4. orders[o].status = "active" /\ Turned(row).acc >= orders[o].acc
  <2>1. row.acc \in Nat
    BY <1>2, RowFields DEF Sound
  <2> QED BY <1>2, <1>3, <2>1
<1>5. TurnIsOfLast' /\ NoneFalls
  <2> DEFINE new == Turned(row)
  <2>1. orders' = [orders EXCEPT ![o] = new]
    BY <1>1
  <2> HIDE DEF row, new
  <2> QED BY <1>2, <1>3, <1>4, <2>1, RowKept DEF AloneInv, new
<1>6. HandIsFresh'
  <2>1. \A s \in Settlers : ~Works(s)
    BY DEF AloneInv, Exclusive, TurnsKeepAway, Turn
  <2> QED BY <2>1 DEF Turn, HandIsFresh, Works
<1>7. \A p \in Requests : req'[p].pc = "turn" =>
        req[p].pc = "turn" /\ \A q \in OrderIds : req'[p].rows[q] \in {req[p].rows[q], NoOrder}
  <2>1. IdleReq.pc = "idle"
    BY DEF IdleReq
  <2>2. CASE RequestDone(r)
    BY <1>g, <2>1, <2>2 DEF RequestDone
  <2>3. CASE req' = [req EXCEPT ![r].rows[o] = NoOrder]
    BY <1>g, <2>3 DEF ReqState, Turn
  <2> QED BY <1>1, <2>2, <2>3
<1>8. ASSUME NEW p \in Requests, req[p].pc = "turn", NEW q \in OrderIds
      PROVE  ListedFresh(req[p].rows[q], orders'[q])
  <2> DEFINE old == req[p].rows[q]
  <2>1. ListedFresh(old, orders[q]) /\ Sound(old)
    BY <1>g, <1>8 DEF AloneInv, ListIsFresh
  <2>2. CASE q # o
    BY <1>g, <1>1, <2>1, <2>2
  <2>3. CASE q = o /\ old.status # "none"
    <3>1. orders'[o] = Turned(row)
      BY <1>g, <1>1, <1>2
    <3>2. /\ old.status = "active" /\ ~old.pending /\ Turns(old.dir, old.last)
          /\ orders[o] \in {old, Turned(old)}
      BY <2>1, <2>3 DEF ListedFresh
    <3>3. Turned(old).pending = TRUE
      BY <2>1, TurnedSound
    <3>4. Turned(row) = Turned(old)
      <4> HIDE DEF row, old
      <4> QED BY <1>2, <1>3, <3>2, <3>3
    <3> QED BY <2>3, <3>1, <3>2, <3>4 DEF ListedFresh
  <2>4. CASE old.status = "none"
    BY <2>4 DEF ListedFresh
  <2> QED BY <2>2, <2>3, <2>4
<1>9. ListIsFresh'
  <2> SUFFICES ASSUME NEW p \in Requests, req'[p].pc = "turn", NEW q \in OrderIds
               PROVE  ListedFresh(req'[p].rows[q], orders'[q])
    BY DEF ListIsFresh
  <2>1. CASE req'[p].rows[q] = NoOrder
    BY <2>1 DEF ListedFresh, NoOrder
  <2>2. CASE req'[p].rows[q] = req[p].rows[q]
    BY <1>7, <1>8, <2>2
  <2> QED BY <1>7, <2>1, <2>2
<1>10. Atomic
  <2>1. Becomes(o, Turned(row))
    BY <1>1 DEF Becomes
  <2>2. CASE orders[o] = row
    <3>1. TurnOne(o)
      BY <1>2, <2>1, <2>2 DEF TurnOne, ToBeTurned, Active
    <3> HIDE DEF row
    <3> QED BY <1>g, <1>2, <2>1, <3>1, RowMoves
  <2>3. CASE orders[o] = Turned(row)
    <3> HIDE DEF row
    <3> QED BY <1>g, <1>2, <2>1, <2>3 DEF Becomes, Atomic
  <2> QED BY <1>2, <2>2, <2>3
<1> QED BY <1>5, <1>6, <1>9, <1>10 DEF Kept

(* A settlement that works works alone: what matters is what it takes in hand.     *)
HandOf(q) ==
  /\ q.pc \in {"pay", "save"} =>
       q.id \in OrderIds /\ Active(q.id) /\ q.row = Settled(orders[q.id])
  /\ q.pc = "write" =>
       /\ q.id \in OrderIds /\ Active(q.id) /\ q.chunk \in 1..Room(orders[q.id])
       /\ q.row = Progress(orders[q.id], q.chunk)

LEMMA WorkerKeeps ==
  ASSUME AloneInv, NEW s \in Settlers, Works(s), UNCHANGED req,
         \A t \in Settlers \ {s} : run'[t] = run[t],
         TurnIsOfLast', NoneFalls, Atomic, HandOf(run[s])'
  PROVE  Kept
<1>1. \A t \in Settlers \ {s} : ~Works(t)
  BY DEF AloneInv, Exclusive, AloneAtWork
<1>2. \A r \in Requests : req'[r].pc # "turn"
  BY DEF AloneInv, Exclusive, TurnsKeepAway
<1>3. HandIsFresh'
  BY <1>1 DEF HandIsFresh, HandOf, Works
<1> QED BY <1>2, <1>3 DEF Kept, ListIsFresh

(* Steps that take nothing in hand and write no row. *)
LEMMA WorkerIdles ==
  ASSUME AloneInv, NEW s \in Settlers, Progresses(s), UNCHANGED orders,
         run'[s].pc \notin {"pay", "save", "write"}
  PROVE  Kept
<1>1. Works(s) /\ UNCHANGED req /\ \A t \in Settlers \ {s} : run'[t] = run[t]
  BY WorkerStep DEF AloneInv
<1>2. HandOf(run[s])'
  BY DEF HandOf
<1> QED BY <1>1, <1>2, TableKept, WorkerKeeps DEF AloneInv

LEMMA LoadKeeps ==
  ASSUME AloneInv, NEW s \in Settlers, Load(s)
  PROVE  Kept
<1>g. run[s] \in RunState /\ orders \in [OrderIds -> OrderRow] /\ GoodRuns
  BY DEF AloneInv, Good, GoodRuns, GoodOrders
<1>1. /\ Works(s) /\ UNCHANGED <<orders, req>> /\ TurnIsOfLast' /\ NoneFalls /\ Atomic
  BY TableKept DEF AloneInv, Load, Works
<1>2. PICK o \in run[s].todo :
        \/ /\ Active(o)
           /\ Set(s, [run[s] EXCEPT !.pc = IF Yield(orders[o]) > 0 THEN "pay" ELSE "save",
                                    !.todo = run[s].todo \ {o}, !.id = o, !.row = Settled(orders[o]),
                                    !.yield = Yield(orders[o])])
        \/ Set(s, [run[s] EXCEPT !.todo = run[s].todo \ {o}])
  BY DEF Load
<1>3. o \in OrderIds
  BY <1>g, <1>2 DEF RunState
<1>5. ASSUME Set(s, [run[s] EXCEPT !.todo = run[s].todo \ {o}])
      PROVE  Kept
  <2>1. run'[s].pc = "next"
    BY <1>g, <1>5, SetOthers DEF Load, RunState
  <2> QED BY <1>1, <2>1, WorkerIdles DEF Progresses
<1>6. CASE /\ Active(o)
           /\ Set(s, [run[s] EXCEPT !.pc = IF Yield(orders[o]) > 0 THEN "pay" ELSE "save",
                                    !.todo = run[s].todo \ {o}, !.id = o, !.row = Settled(orders[o]),
                                    !.yield = Yield(orders[o])])
  <2> DEFINE pc   == IF Yield(orders[o]) > 0 THEN "pay" ELSE "save"
             row  == Settled(orders[o])
             y    == Yield(orders[o])
             rest == run[s].todo \ {o}
  <2>1. /\ pc \in {"pay", "save"} /\ row = Settled(orders[o])
        /\ Set(s, [run[s] EXCEPT !.pc = pc, !.todo = rest, !.id = o, !.row = row, !.yield = y])
    BY <1>6
  <2> HIDE DEF pc, row, y, rest
  <2>2. run'[s] = [run[s] EXCEPT !.pc = pc, !.todo = rest, !.id = o, !.row = row, !.yield = y]
    BY <1>g, <2>1, SetOthers
  <2>3. run'[s].pc = pc /\ run'[s].id = o /\ run'[s].row = row
    BY <1>g, <2>2 DEF RunState
  <2>4. HandOf(run[s])'
    BY <1>1, <1>3, <1>6, <2>1, <2>3 DEF HandOf, Active
  <2>5. \A t \in Settlers \ {s} : run'[t] = run[t]
    BY <1>g, <2>1, SetOthers
  <2> QED BY <1>1, <2>4, <2>5, WorkerKeeps
<1> QED BY <1>2, <1>5, <1>6

LEMMA SaveKeeps ==
  ASSUME AloneInv, NEW s \in Settlers, Save(s)
  PROVE  Kept
<1> DEFINE o   == run[s].id
           old == orders[o]
           row == run[s].row
<1>g. /\ run[s] \in RunState /\ orders \in [OrderIds -> OrderRow] /\ GoodRuns
      /\ \A p \in OrderIds : Sound(orders[p])
  BY DEF AloneInv, Good, GoodRuns, GoodOrders
<1>1. o \in OrderIds /\ old.status = "active" /\ row = Settled(old)
  BY DEF Save, AloneInv, HandIsFresh, Active
<1>2. row.pending = FALSE /\ row.acc >= old.acc
  <2>1. Sound(old)
    BY <1>g, <1>1
  <2> HIDE DEF old, row
  <2> QED BY <2>1, <1>1, SettledSound
<1>3. orders' = [orders EXCEPT ![o] = row]
  BY DEF Save
<1>4. TurnIsOfLast' /\ NoneFalls
  <2> HIDE DEF o, row
  <2> QED BY <1>1, <1>2, <1>3, RowKept DEF AloneInv
<1>5. run'[s].pc \in {"climb", "next"}
  <2> DEFINE pc == IF CalcGenerationReward(run[s].yield) > 0 /\ row.by \notin RewardLocked
                   THEN "climb" ELSE "next"
             piece == [by |-> row.by, yield |-> run[s].yield]
             at == row.by
  <2>1. Set(s, [run[s] EXCEPT !.pc = pc, !.pieces[o] = piece, !.at = at, !.depth = 1])
    BY DEF Save
  <2>2. pc \in {"climb", "next"}
    OBVIOUS
  <2> HIDE DEF o, row, pc, piece, at
  <2>3. run'[s] = [run[s] EXCEPT !.pc = pc, !.pieces[o] = piece, !.at = at, !.depth = 1]
    BY <1>g, <2>1, SetOthers
  <2> QED BY <1>g, <2>2, <2>3 DEF RunState
<1>6. HandOf(run[s])'
  BY <1>5 DEF HandOf
<1>7. Works(s) /\ UNCHANGED req /\ \A t \in Settlers \ {s} : run'[t] = run[t]
  BY WorkerStep DEF AloneInv, Progresses
<1>8. Atomic
  <2>1. Becomes(o, row)
    BY <1>3 DEF Becomes
  <2>2. SettleOne(o)
    BY <1>1, <2>1 DEF SettleOne, Active
  <2> HIDE DEF o, row
  <2> QED BY <1>g, <1>1, <2>1, <2>2, RowMoves
<1> QED BY <1>4, <1>6, <1>7, <1>8, WorkerKeeps

LEMMA WriteKeeps ==
  ASSUME AloneInv, NEW s \in Settlers, Write(s)
  PROVE  Kept
<1> DEFINE o   == run[s].id
           old == orders[o]
           row == run[s].row
<1>g. /\ run[s] \in RunState /\ orders \in [OrderIds -> OrderRow] /\ GoodRuns
      /\ \A p \in OrderIds : Sound(orders[p])
  BY DEF AloneInv, Good, GoodRuns, GoodOrders
<1>1. o \in OrderIds /\ old.status = "active" /\ row = Progress(old, run[s].chunk) /\ run[s].chunk \in 1..Room(old)
  BY DEF Write, AloneInv, HandIsFresh, Active
<1>2. /\ row.acc >= old.acc
      /\ row.pending = old.pending /\ row.last = old.last /\ row.rate = old.rate /\ row.dir = old.dir
  BY <1>g, <1>1, ProgressSound DEF RunState
<1>3. orders' = [orders EXCEPT ![o] = row]
  BY DEF Write
<1>4. old.pending => [rate |-> old.rate, dir |-> old.dir] = ExtractRateTurn(old.last)
  BY <1>1 DEF AloneInv, TurnIsOfLast, Active
<1>5. TurnIsOfLast' /\ NoneFalls
  <2> HIDE DEF o, row
  <2> QED BY <1>1, <1>2, <1>3, <1>4, RowKept DEF AloneInv
<1>6. run'[s].pc = "fill"
  <2>1. run'[s] = [run[s] EXCEPT !.pc = "fill", !.left = @ - run[s].chunk, !.chunk = 0,
                                 !.applied = @ + run[s].chunk]
    BY <1>g, SetOthers DEF Write
  <2> QED BY <1>g, <2>1 DEF RunState
<1>7. HandOf(run[s])'
  BY <1>6 DEF HandOf
<1>8. Works(s) /\ UNCHANGED req /\ \A t \in Settlers \ {s} : run'[t] = run[t]
  BY WorkerStep DEF AloneInv, Progresses
<1>9. Atomic
  <2>1. Becomes(o, row)
    BY <1>3 DEF Becomes
  <2>2. Accelerate(o)
    BY <1>1, <2>1 DEF Accelerate, Active
  <2> HIDE DEF o, row
  <2> QED BY <1>g, <1>1, <2>1, <2>2, RowMoves
<1> QED BY <1>5, <1>7, <1>8, <1>9, WorkerKeeps

LEMMA FillKeeps ==
  ASSUME AloneInv, NEW s \in Settlers, Fill(s)
  PROVE  Kept
<1>g. run[s] \in RunState /\ GoodRuns
  BY DEF AloneInv, Good, GoodRuns
<1>1. Works(s) /\ UNCHANGED <<orders, req>> /\ TurnIsOfLast' /\ NoneFalls /\ Atomic
  BY TableKept DEF AloneInv, Fill, Works
<1>2. ASSUME NEW o \in ActiveOf(run[s].to), NEW c \in 1..Room(orders[o]),
             Set(s, [run[s] EXCEPT !.pc = "write", !.id = o, !.chunk = c,
                                   !.row = Progress(orders[o], c)])
      PROVE  Kept
  <2>1. o \in OrderIds /\ Active(o)
    BY DEF ActiveOf, OrdersOf
  <2>2. run'[s].pc = "write" /\ run'[s].id = o /\ run'[s].chunk = c
        /\ run'[s].row = Progress(orders[o], c)
    <3> DEFINE row == Progress(orders[o], c)
    <3>1. run'[s] = [run[s] EXCEPT !.pc = "write", !.id = o, !.chunk = c, !.row = row]
      BY <1>g, <1>2, SetOthers
    <3> HIDE DEF row
    <3>2. /\ run'[s].pc = "write" /\ run'[s].id = o /\ run'[s].chunk = c /\ run'[s].row = row
      BY <1>g, <3>1 DEF RunState
    <3> QED BY <3>2 DEF row
  <2>3. HandOf(run[s])'
    BY <1>1, <2>1, <2>2 DEF HandOf, Active
  <2>4. \A t \in Settlers \ {s} : run'[t] = run[t]
    BY <1>g, <1>2, SetOthers
  <2> QED BY <1>1, <2>3, <2>4, WorkerKeeps
<1>3. ASSUME \/ Set(s, [run[s] EXCEPT !.pc = "credit"])
             \/ Set(s, [run[s] EXCEPT !.pc = Caller(s), !.left = 0])
      PROVE  Kept
  <2>1. run'[s].pc \in {"credit", "climb", "lines"}
    <3>1. CASE run'[s] = [run[s] EXCEPT !.pc = "credit"]
      BY <1>g, <3>1 DEF RunState
    <3>2. CASE run'[s] = [run[s] EXCEPT !.pc = Caller(s), !.left = 0]
      <4>1. Caller(s) \in {"climb", "lines"}
        BY DEF Caller
      <4> QED BY <1>g, <3>2, <4>1 DEF RunState
    <3> QED BY <1>g, <1>3, <3>1, <3>2, SetOthers
  <2> QED BY <1>1, <2>1, WorkerIdles DEF Progresses
<1>4. \A o \in ActiveOf(run[s].to) :
        run[s].left > 0 => Lesser(run[s].left, Room(orders[o])) \in 1..Room(orders[o])
  <2> SUFFICES ASSUME NEW o \in ActiveOf(run[s].to), run[s].left > 0
               PROVE  Lesser(run[s].left, Room(orders[o])) \in 1..Room(orders[o])
    OBVIOUS
  <2>1. Sound(orders[o]) /\ orders[o].status = "active"
    BY DEF ActiveOf, OrdersOf, Active, AloneInv, Good, GoodOrders
  <2>2. Room(orders[o]) \in Nat \ {0} /\ run[s].left \in Nat
    BY <1>g, <2>1, YieldFits DEF RunState
  <2> QED BY <2>2 DEF Lesser
<1> QED BY <1>2, <1>3, <1>4 DEF Fill

LEMMA ProgressesKeeps ==
  ASSUME AloneInv, NEW s \in Settlers, Progresses(s)
  PROVE  Kept
<1>g. run[s] \in RunState /\ GoodRuns
  BY DEF AloneInv, Good, GoodRuns
<1>1. CASE ListActive(s)
  <2>1. PICK todo : Set(s, [run[s] EXCEPT !.pc = "next", !.todo = todo])
    BY <1>1 DEF ListActive
  <2>2. run'[s] = [run[s] EXCEPT !.pc = "next", !.todo = todo]
    BY <1>g, <2>1, SetOthers
  <2>3. run'[s].pc = "next"
    BY <1>g, <2>2 DEF RunState
  <2> QED BY <1>1, <2>3, WorkerIdles DEF ListActive
<1>2. CASE Pay(s)
  <2>1. run'[s] = [run[s] EXCEPT !.pc = "save"]
    BY <1>g, <1>2, SetOthers DEF Pay
  <2>2. run'[s].pc = "save" /\ run'[s].id = run[s].id /\ run'[s].row = run[s].row
    BY <1>g, <2>1 DEF RunState
  <2>3. HandOf(run[s])'
    BY <1>2, <2>2 DEF Pay, HandOf, AloneInv, HandIsFresh, Active
  <2>4. Works(s) /\ UNCHANGED <<orders, req>> /\ \A t \in Settlers \ {s} : run'[t] = run[t]
    BY <1>2, WorkerStep DEF AloneInv, Pay
  <2> QED BY <2>3, <2>4, TableKept, WorkerKeeps DEF AloneInv
<1>3. CASE Climb(s)
  <2>1. PICK at, depth, to, left :
          \/ Set(s, [run[s] EXCEPT !.pc = "next"])
          \/ Set(s, [run[s] EXCEPT !.at = at, !.depth = depth, !.pc = "fill", !.to = to, !.left = left])
          \/ Set(s, [run[s] EXCEPT !.at = at, !.depth = depth])
    BY <1>3 DEF Climb
  <2>2. run'[s].pc \in {"next", "fill", "climb"}
    <3>1. CASE run'[s] = [run[s] EXCEPT !.pc = "next"]
      BY <1>g, <3>1 DEF RunState
    <3>2. CASE run'[s] = [run[s] EXCEPT !.at = at, !.depth = depth, !.pc = "fill", !.to = to, !.left = left]
      BY <1>g, <3>2 DEF RunState
    <3>3. CASE run'[s] = [run[s] EXCEPT !.at = at, !.depth = depth]
      BY <1>g, <1>3, <3>3 DEF RunState, Climb
    <3> QED BY <1>g, <2>1, <3>1, <3>2, <3>3, SetOthers
  <2> QED BY <1>3, <2>2, WorkerIdles DEF Climb
<1>4. CASE CreditFilled(s)
  <2>1. Caller(s) \in {"climb", "lines"}
    BY DEF Caller
  <2>2. PICK g : Set(s, [run[s] EXCEPT !.pc = Caller(s), !.left = 0, !.applied = 0, !.got[run[s].to] = g])
    BY <1>4 DEF CreditFilled
  <2>3. run'[s] = [run[s] EXCEPT !.pc = Caller(s), !.left = 0, !.applied = 0, !.got[run[s].to] = g]
    BY <1>g, <2>2, SetOthers
  <2>4. run'[s].pc = Caller(s)
    BY <1>g, <2>3 DEF RunState
  <2> QED BY <1>4, <2>1, <2>4, WorkerIdles DEF CreditFilled
<1>5. CASE RefreshLevels(s)
  <2>1. PICK lines : Set(s, [run[s] EXCEPT !.pc = "lines", !.phase = "base", !.level = LevelNow, !.lines = lines])
    BY <1>5 DEF RefreshLevels
  <2> DEFINE level == LevelNow
  <2>2. Set(s, [run[s] EXCEPT !.pc = "lines", !.phase = "base", !.level = level, !.lines = lines])
    BY <2>1
  <2> HIDE DEF level
  <2>3. run'[s] = [run[s] EXCEPT !.pc = "lines", !.phase = "base", !.level = level, !.lines = lines]
    BY <1>g, <2>2, SetOthers
  <2>4. run'[s].pc = "lines"
    BY <1>g, <2>3 DEF RunState
  <2> QED BY <1>5, <2>4, WorkerIdles DEF RefreshLevels
<1>6. CASE TakeLine(s)
  <2>1. PICK l \in run[s].lines :
          Set(s, [run[s] EXCEPT !.pc = "fill", !.to = l.to, !.left = l.amount, !.lines = @ \ {l}])
    BY <1>6 DEF TakeLine
  <2> DEFINE lines == run[s].lines \ {l}
  <2>2. Set(s, [run[s] EXCEPT !.pc = "fill", !.to = l.to, !.left = l.amount, !.lines = lines])
    BY <2>1
  <2> HIDE DEF lines
  <2>3. run'[s] = [run[s] EXCEPT !.pc = "fill", !.to = l.to, !.left = l.amount, !.lines = lines]
    BY <1>g, <2>2, SetOthers
  <2>4. run'[s].pc = "fill"
    BY <1>g, <2>3 DEF RunState
  <2> QED BY <1>6, <2>4, WorkerIdles DEF TakeLine
<1>7. CASE StartPeers(s)
  <2>1. PICK lines : run'[s] = [run[s] EXCEPT !.phase = "peer", !.lines = lines]
    BY <1>g, <1>7, SetOthers DEF StartPeers
  <2>2. run'[s].pc = "lines"
    BY <1>g, <1>7, <2>1 DEF RunState, StartPeers
  <2> QED BY <1>7, <2>2, WorkerIdles DEF StartPeers
<1>8. CASE Finish(s)
  <2>1. run'[s].pc = "idle"
    BY <1>g, <1>8, SetOthers, IdleRunGood DEF Finish, Return
  <2> QED BY <1>8, <2>1, WorkerIdles DEF Finish
<1> QED BY <1>1, <1>2, <1>3, <1>4, <1>5, <1>6, <1>7, <1>8, LoadKeeps, SaveKeeps, FillKeeps, WriteKeeps
       DEF Progresses

(* The rest of a settlement goroutine, and midnight. *)
LEMMA OtherKeeps ==
  ASSUME AloneInv,
         \/ \E s \in Settlers : Lock(s) \/ TryClaim(s) \/ ForceSettle(s) \/ EndSettlement(s)
         \/ NextDay
         \/ UNCHANGED vars
  PROVE  Kept
<1>g. GoodRuns /\ \A s \in Settlers : run[s] \in RunState
  BY DEF AloneInv, Good, GoodRuns
<1>1. UNCHANGED <<orders, req>>
  BY DEF Lock, TryClaim, ForceSettle, EndSettlement, NextDay, vars
<1>2. \A t \in Settlers : run'[t] = run[t] \/ run'[t].pc \in {"claim", "list", "idle"}
  <2>1. CASE NextDay \/ UNCHANGED vars
    BY <2>1 DEF NextDay, vars
  <2>2. ASSUME NEW s \in Settlers, Lock(s) \/ TryClaim(s) \/ ForceSettle(s) \/ EndSettlement(s)
        PROVE  \A t \in Settlers : run'[t] = run[t] \/ run'[t].pc \in {"claim", "list", "idle"}
    <3>1. \/ Set(s, [IdleRun EXCEPT !.pc = "claim"])
          \/ Set(s, [run[s] EXCEPT !.pc = "list"])
          \/ Set(s, IdleRun)
      BY <2>2 DEF Lock, TryClaim, ForceSettle, EndSettlement, Return
    <3>2. /\ [IdleRun EXCEPT !.pc = "claim"].pc = "claim"
          /\ [run[s] EXCEPT !.pc = "list"].pc = "list"
          /\ IdleRun.pc = "idle"
      BY <1>g DEF IdleRun, RunState
    <3> QED BY <1>g, <3>1, <3>2, SetOthers
  <2> QED BY <2>1, <2>2
<1>3. HandIsFresh'
  BY <1>1, <1>2 DEF AloneInv, HandIsFresh, Active
<1>4. ListIsFresh'
  BY <1>1 DEF AloneInv, ListIsFresh
<1> QED BY <1>1, <1>3, <1>4, TableKept DEF AloneInv, Kept

LEMMA NextAlone ==
  ASSUME Apart, OneAtATime, AloneInv, [Next]_vars
  PROVE  AloneInv' /\ NoneFalls /\ Atomic
<1>1. Good' /\ Exclusive'
  BY NextGood, ExclusiveNext DEF AloneInv
<1>2. Kept
  <2>1. CASE \E r \in Requests, u \in Users, a \in Amounts : Subscribe(r, u, a)
    BY <2>1, RequestsKeep
  <2>2. CASE \E r \in Requests, u \in Users : ListTurns(r, u)
    BY <2>2, ListTurnsKeeps
  <2>3. CASE \E r \in Requests : SubAccountBalance(r) \/ Create(r) \/ Turn(r) \/ EndRequest(r)
    BY <2>3, RequestsKeep, CreateKeeps, TurnKeeps
  <2>4. CASE \E s \in Settlers : Progresses(s)
    BY <2>4, ProgressesKeeps
  <2> QED BY <2>1, <2>2, <2>3, <2>4, OtherKeeps DEF Next
<1> QED BY <1>1, <1>2 DEF Kept, AloneInv

LEMMA AloneHolds ==
  ASSUME Apart, OneAtATime
  PROVE  Spec => []AloneInv
<1>1. AloneInv /\ [Next]_vars => AloneInv'
  BY NextAlone
<1> QED BY <1>1, InitAlone, PTL DEF Spec

(* ADR 0018 for every number of users, orders, settlements and requests: between   *)
(* two settlements a rate is turned once, from the rate of the last one, also when *)
(* extracts of one user list the same orders and then write them one after the     *)
(* other.                                                                          *)
THEOREM TurnedOnce ==
  ASSUME Apart, OneAtATime
  PROVE  Spec => []TurnIsOfLast
<1>1. AloneInv => TurnIsOfLast
  BY DEF AloneInv
<1> QED BY <1>1, AloneHolds, PTL

(* No settlement, reward or extract takes back progress another one has recorded,  *)
(* and an order that is over is never written again, whatever fails.               *)
THEOREM ProgressKept ==
  ASSUME Apart, OneAtATime
  PROVE  Spec => ProgressNeverFalls
<1>1. AloneInv /\ [Next]_vars => NoneFalls
  BY NextAlone
<1>2. AloneInv /\ [Next]_vars => [NoneFalls]_vars
  BY <1>1
<1> QED BY <1>2, AloneHolds, PTL DEF Spec, ProgressNeverFalls, NoneFalls

(* The table of orders as goroutines leave it, statement by statement and failure  *)
(* by failure, is one that orders opened, settled, accelerated and turned each at  *)
(* once would have: no full-row write carries anything stale.                      *)
THEOREM OrdersAreAtomic ==
  ASSUME Apart, OneAtATime
  PROVE  Spec => ImplementsAtomicOrders
<1>1. Init => FirstOrders
  BY DEF Init
<1>2. AloneInv /\ [Next]_vars => [AtomicNext]_orders
  BY NextAlone DEF Atomic
<1> QED BY <1>1, <1>2, AloneHolds, PTL DEF Spec, ImplementsAtomicOrders, AtomicSpec
=============================================================================
