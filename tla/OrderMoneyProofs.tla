-------------------------- MODULE OrderMoneyProofs --------------------------
(***************************************************************************)
(* What is proved about the money of orders, for any number of users,      *)
(* orders, settlements and requests: whatever fails, no order exists that  *)
(* was not paid for; where nothing fails, what orders accumulated is what  *)
(* their owners earned; and an extract never raises a rate.                *)
(***************************************************************************)
EXTENDS OrdersProofs, SumTheorems

-----------------------------------------------------------------------------
(* Whose an order is, and what it cost, never changes: the rows settlements and    *)
(* extracts have read, and write later, agree with the table on both.              *)

Kin(row, now) == now.status # "none" /\ row.by = now.by /\ row.amount = now.amount

RunKin ==
  \A s \in Settlers : run[s].pc \in {"pay", "save", "write"} =>
    run[s].id \in OrderIds /\ run[s].row.status # "none" /\ Kin(run[s].row, orders[run[s].id])

ReqKin ==
  \A r \in Requests : req[r].pc = "turn" =>
    \A o \in OrderIds : req[r].rows[o].status # "none" => Kin(req[r].rows[o], orders[o])

(* A row of the table that no order has taken is nobody's. *)
Blank == \A o \in OrderIds : orders[o].status = "none" => orders[o].by = NoUser

KinInv == Good /\ RunKin /\ ReqKin /\ Blank

(* What a settlement writes for an active order. *)
LEMMA SettledForms ==
  ASSUME NEW row, Sound(row), row.status = "active", NEW paid, paid = Progress(row, Yield(row)),
         NEW next, next = AdvanceRate(row.rate, row.dir)
  PROVE  \/ Yield(row) = 0 /\ Settled(row) = [row EXCEPT !.pending = FALSE, !.last = row.rate]
         \/ Settled(row) = [paid EXCEPT !.pending = FALSE, !.last = row.rate]
         \/ Settled(row) = [paid EXCEPT !.pending = FALSE, !.last = row.rate,
                                        !.rate = next.rate, !.dir = next.dir]
<1>1. Yield(row) \in Nat /\ ~(Room(row) <= 0) /\ Room(row) > 0
  BY YieldFits
<1>2. CASE Yield(row) <= 0
  BY <1>1, <1>2 DEF Settled
<1>3. CASE ~(Yield(row) <= 0) /\ Yield(row) > 0 /\ paid.status = "exited"
  BY <1>1, <1>3 DEF Settled
<1>4. CASE ~(Yield(row) <= 0) /\ paid.status # "exited"
  BY <1>1, <1>4 DEF Settled
<1> QED BY <1>1, <1>2, <1>3, <1>4

(* No row the code computes from a row has another owner, another amount, or is    *)
(* no order.                                                                       *)
LEMMA WrittenKin ==
  ASSUME NEW row, Sound(row), row.status # "none"
  PROVE  /\ Kin(Turned(row), row) /\ Turned(row).status # "none"
         /\ \A c \in Nat : Kin(Progress(row, c), row) /\ Progress(row, c).status # "none"
         /\ row.status = "active" => Kin(Settled(row), row) /\ Settled(row).status # "none"
<1>f. row \in OrderRow /\ row.acc \in Nat /\ row.target \in Nat
  BY RowFields DEF Sound
<1>1. Kin(Turned(row), row) /\ Turned(row).status # "none"
  BY <1>f DEF Turned, OrderRow, Kin
<1>2. \A c : /\ Progress(row, c) \in [by : {row.by}, amount : {row.amount}, target : {row.target},
                                      acc : {row.target, row.acc + c}, status : {row.status, "exited"},
                                      rate : {row.rate}, dir : {row.dir},
                                      pending : {row.pending}, last : {row.last}]
  BY <1>f DEF Progress, Exited, OrderRow
<1>3. \A c : Kin(Progress(row, c), row) /\ Progress(row, c).status # "none"
  BY <1>2 DEF Kin
<1>4. ASSUME row.status = "active" PROVE Kin(Settled(row), row) /\ Settled(row).status # "none"
  <2> DEFINE paid == Progress(row, Yield(row))
             next == AdvanceRate(row.rate, row.dir)
  <2>1. \/ Settled(row) = [row EXCEPT !.pending = FALSE, !.last = row.rate]
        \/ Settled(row) = [paid EXCEPT !.pending = FALSE, !.last = row.rate]
        \/ Settled(row) = [paid EXCEPT !.pending = FALSE, !.last = row.rate,
                                       !.rate = next.rate, !.dir = next.dir]
    BY <1>4, SettledForms
  <2>2. paid \in [by : {row.by}, amount : {row.amount}, target : {row.target},
                  acc : {row.target, row.acc + Yield(row)}, status : {row.status, "exited"},
                  rate : {row.rate}, dir : {row.dir}, pending : {row.pending}, last : {row.last}]
    BY <1>2
  <2> HIDE DEF paid, next
  <2> DEFINE q == Settled(row)
  <2>3. q.by = row.by /\ q.amount = row.amount /\ q.status \in {row.status, "exited"}
    <3> HIDE DEF q
    <3>2. CASE q = [row EXCEPT !.pending = FALSE, !.last = row.rate]
      BY <1>f, <3>2 DEF OrderRow
    <3>3. CASE q = [paid EXCEPT !.pending = FALSE, !.last = row.rate]
      BY <2>2, <3>3
    <3>4. CASE q = [paid EXCEPT !.pending = FALSE, !.last = row.rate,
                                !.rate = next.rate, !.dir = next.dir]
      BY <2>2, <3>4
    <3> QED BY <2>1, <3>2, <3>3, <3>4 DEF q
  <2> QED BY <2>3 DEF Kin
<1> QED BY <1>1, <1>3, <1>4

-----------------------------------------------------------------------------
(* What one step of a settlement changes of what the money depends on. *)

Hands   == {"pay", "save", "write"}
Filling == {"fill", "write", "credit"}

OthersStay(s) == \A t \in Settlers \ {s} : run'[t] = run[t]

(* It takes nothing in hand and moves no money. *)
Elsewhere(s) ==
  /\ OthersStay(s)
  /\ run[s].pc \notin Hands /\ run'[s].pc \notin Hands
  /\ run'[s].applied = run[s].applied \/ (run'[s].applied = 0 /\ run[s].pc \notin Filling)
  /\ run'[s].to = run[s].to \/ run[s].pc \notin Filling
  /\ run'[s].pc \notin Filling => run[s].pc \notin Filling \/ run[s].applied = 0
  /\ UNCHANGED <<orders, account, earned, req>>

(* The fields a step leaves alone when it fills nobody's orders. *)
SameFill(s) == run'[s].to = run[s].to /\ run'[s].applied = run[s].applied

Loads(s, o) ==
  /\ OthersStay(s) /\ SameFill(s)
  /\ run[s].pc = "next" /\ Active(o)
  /\ run'[s].pc \in {"pay", "save"} /\ (run'[s].pc = "save" => Yield(orders[o]) <= 0)
  /\ run'[s].id = o /\ run'[s].row = Settled(orders[o]) /\ run'[s].yield = Yield(orders[o])
  /\ UNCHANGED <<orders, account, earned, req>>

Pays(s) ==
  /\ OthersStay(s) /\ SameFill(s)
  /\ run[s].pc = "pay" /\ run'[s].pc = "save"
  /\ run'[s].id = run[s].id /\ run'[s].row = run[s].row /\ run'[s].yield = run[s].yield
  /\ earned' = [earned EXCEPT ![run[s].row.by] = @ + run[s].yield]
  /\ UNCHANGED <<orders, account, req>>

Saves(s) ==
  /\ OthersStay(s) /\ SameFill(s)
  /\ run[s].pc = "save" /\ run'[s].pc \in {"climb", "next"}
  /\ orders' = [orders EXCEPT ![run[s].id] = run[s].row]
  /\ UNCHANGED <<account, earned, req>>

Fills(s, o) ==
  /\ OthersStay(s) /\ SameFill(s)
  /\ run[s].pc = "fill" /\ run'[s].pc = "write"
  /\ Active(o) /\ orders[o].by = run[s].to
  /\ run'[s].id = o /\ run'[s].chunk = Lesser(run[s].left, Room(orders[o]))
  /\ run'[s].row = Progress(orders[o], run'[s].chunk)
  /\ UNCHANGED <<orders, account, earned, req>>

Writes(s) ==
  /\ OthersStay(s)
  /\ run[s].pc = "write" /\ run'[s].pc = "fill"
  /\ run'[s].to = run[s].to /\ run'[s].applied = run[s].applied + run[s].chunk
  /\ orders' = [orders EXCEPT ![run[s].id] = run[s].row]
  /\ UNCHANGED <<account, earned, req>>

Credits(s) ==
  /\ OthersStay(s)
  /\ run[s].pc = "credit" /\ run'[s].pc \in {"climb", "lines"}
  /\ run'[s].applied = 0
  /\ earned' = [earned EXCEPT ![run[s].to] = @ + run[s].applied]
  /\ UNCHANGED <<orders, account, req>>

LEMMA SmallSteps ==
  ASSUME Good, NEW s \in Settlers,
         \/ ListActive(s) \/ RefreshLevels(s) \/ TakeLine(s) \/ StartPeers(s) \/ Finish(s)
         \/ Lock(s) \/ TryClaim(s) \/ ForceSettle(s)
  PROVE  Elsewhere(s)
<1>g. run[s] \in RunState /\ GoodRuns
  BY DEF Good, GoodRuns
<1>i. IdleRun.pc = "idle" /\ IdleRun.applied = 0
  BY DEF IdleRun
<1>u. UNCHANGED <<orders, account, earned, req>>
  BY DEF ListActive, RefreshLevels, TakeLine, StartPeers, Finish, Lock, TryClaim, ForceSettle
<1>1. CASE ListActive(s)
  <2>1. PICK todo : Set(s, [run[s] EXCEPT !.pc = "next", !.todo = todo])
    BY <1>1 DEF ListActive
  <2>2. OthersStay(s) /\ run'[s] = [run[s] EXCEPT !.pc = "next", !.todo = todo]
    BY <1>g, <2>1, SetOthers DEF OthersStay
  <2>3. run'[s].pc = "next" /\ run'[s].applied = run[s].applied
    BY <1>g, <2>2 DEF RunState
  <2> QED BY <1>1, <1>u, <2>2, <2>3 DEF Elsewhere, Hands, Filling, ListActive
<1>2. CASE RefreshLevels(s)
  <2>1. PICK lines, level : Set(s, [run[s] EXCEPT !.pc = "lines", !.phase = "base", !.level = level,
                                                  !.lines = lines])
    BY <1>2 DEF RefreshLevels
  <2>2. OthersStay(s) /\ run'[s] = [run[s] EXCEPT !.pc = "lines", !.phase = "base", !.level = level,
                                                  !.lines = lines]
    BY <1>g, <2>1, SetOthers DEF OthersStay
  <2>3. run'[s].pc = "lines" /\ run'[s].applied = run[s].applied
    BY <1>g, <2>2 DEF RunState
  <2> QED BY <1>2, <1>u, <2>2, <2>3 DEF Elsewhere, Hands, Filling, RefreshLevels
<1>3. CASE TakeLine(s)
  <2>1. PICK to, left, lines : Set(s, [run[s] EXCEPT !.pc = "fill", !.to = to, !.left = left,
                                                     !.lines = lines])
    BY <1>3 DEF TakeLine
  <2>2. OthersStay(s) /\ run'[s] = [run[s] EXCEPT !.pc = "fill", !.to = to, !.left = left, !.lines = lines]
    BY <1>g, <2>1, SetOthers DEF OthersStay
  <2>3. run'[s].pc = "fill" /\ run'[s].applied = run[s].applied
    BY <1>g, <2>2 DEF RunState
  <2> QED BY <1>3, <1>u, <2>2, <2>3 DEF Elsewhere, Hands, Filling, TakeLine
<1>4. CASE StartPeers(s)
  <2>1. PICK lines : Set(s, [run[s] EXCEPT !.phase = "peer", !.lines = lines])
    BY <1>4 DEF StartPeers
  <2>2. OthersStay(s) /\ run'[s] = [run[s] EXCEPT !.phase = "peer", !.lines = lines]
    BY <1>g, <2>1, SetOthers DEF OthersStay
  <2>3. run'[s].pc = run[s].pc /\ run'[s].applied = run[s].applied
    BY <1>g, <2>2 DEF RunState
  <2> QED BY <1>4, <1>u, <2>2, <2>3 DEF Elsewhere, Hands, Filling, StartPeers
<1>5. CASE Set(s, IdleRun) /\ run[s].pc \in {"claim", "lines"}
  <2>1. OthersStay(s) /\ run'[s] = IdleRun
    BY <1>g, <1>5, SetOthers DEF OthersStay
  <2> QED BY <1>5, <1>i, <1>u, <2>1 DEF Elsewhere, Hands, Filling
<1>6. CASE Lock(s)
  <2>1. OthersStay(s) /\ run'[s] = [IdleRun EXCEPT !.pc = "claim"]
    BY <1>g, <1>6, SetOthers DEF OthersStay, Lock
  <2>2. run'[s].pc = "claim" /\ run'[s].applied = 0
    BY <2>1 DEF IdleRun
  <2> QED BY <1>6, <1>u, <2>1, <2>2 DEF Elsewhere, Hands, Filling, Lock
<1>7. CASE Set(s, [run[s] EXCEPT !.pc = "list"]) /\ run[s].pc = "claim"
  <2>1. OthersStay(s) /\ run'[s] = [run[s] EXCEPT !.pc = "list"]
    BY <1>g, <1>7, SetOthers DEF OthersStay
  <2>2. run'[s].pc = "list" /\ run'[s].applied = run[s].applied
    BY <1>g, <2>1 DEF RunState
  <2> QED BY <1>7, <1>u, <2>1, <2>2 DEF Elsewhere, Hands, Filling
<1> QED BY <1>1, <1>2, <1>3, <1>4, <1>5, <1>6, <1>7 DEF Finish, TryClaim, ForceSettle, Return

LEMMA ClimbStep == ASSUME Good, NEW s \in Settlers, Climb(s) PROVE Elsewhere(s)
<1>g. run[s] \in RunState /\ GoodRuns
  BY DEF Good, GoodRuns
<1>u. UNCHANGED <<orders, account, earned, req>> /\ run[s].pc = "climb"
  BY DEF Climb
<1>1. PICK at, depth, to, left :
        \/ Set(s, [run[s] EXCEPT !.pc = "next"])
        \/ Set(s, [run[s] EXCEPT !.at = at, !.depth = depth, !.pc = "fill", !.to = to, !.left = left])
        \/ Set(s, [run[s] EXCEPT !.at = at, !.depth = depth])
  BY DEF Climb
<1>2. run'[s].pc \in {"next", "fill", "climb"} /\ run'[s].applied = run[s].applied
  <2>1. CASE run'[s] = [run[s] EXCEPT !.pc = "next"]
    BY <1>g, <2>1 DEF RunState
  <2>2. CASE run'[s] = [run[s] EXCEPT !.at = at, !.depth = depth, !.pc = "fill", !.to = to, !.left = left]
    BY <1>g, <2>2 DEF RunState
  <2>3. CASE run'[s] = [run[s] EXCEPT !.at = at, !.depth = depth]
    BY <1>g, <1>u, <2>3 DEF RunState
  <2> QED BY <1>g, <1>1, <2>1, <2>2, <2>3, SetOthers
<1>3. OthersStay(s)
  BY <1>g, <1>1, SetOthers DEF OthersStay
<1> QED BY <1>u, <1>2, <1>3 DEF Elsewhere, Hands, Filling

LEMMA LoadStep ==
  ASSUME Good, NEW s \in Settlers, Load(s)
  PROVE  Elsewhere(s) \/ \E o \in OrderIds : Loads(s, o)
<1>g. run[s] \in RunState /\ GoodRuns
  BY DEF Good, GoodRuns
<1>u. UNCHANGED <<orders, account, earned, req>> /\ run[s].pc = "next"
  BY DEF Load
<1>1. PICK o \in run[s].todo :
        \/ /\ Active(o)
           /\ Set(s, [run[s] EXCEPT !.pc = IF Yield(orders[o]) > 0 THEN "pay" ELSE "save",
                                    !.todo = run[s].todo \ {o}, !.id = o, !.row = Settled(orders[o]),
                                    !.yield = Yield(orders[o])])
        \/ Set(s, [run[s] EXCEPT !.todo = run[s].todo \ {o}])
  BY DEF Load
<1>2. o \in OrderIds
  BY <1>g DEF RunState
<1>3. CASE Set(s, [run[s] EXCEPT !.todo = run[s].todo \ {o}])
  <2>1. OthersStay(s) /\ run'[s] = [run[s] EXCEPT !.todo = run[s].todo \ {o}]
    BY <1>g, <1>3, SetOthers DEF OthersStay
  <2>2. run'[s].pc = "next" /\ run'[s].applied = run[s].applied
    BY <1>g, <1>u, <2>1 DEF RunState
  <2>3. Elsewhere(s)
    BY <1>u, <2>1, <2>2 DEF Elsewhere, Hands, Filling
  <2> QED BY <2>3
<1>4. CASE /\ Active(o)
           /\ Set(s, [run[s] EXCEPT !.pc = IF Yield(orders[o]) > 0 THEN "pay" ELSE "save",
                                    !.todo = run[s].todo \ {o}, !.id = o, !.row = Settled(orders[o]),
                                    !.yield = Yield(orders[o])])
  <2> DEFINE pc   == IF Yield(orders[o]) > 0 THEN "pay" ELSE "save"
             row  == Settled(orders[o])
             y    == Yield(orders[o])
             rest == run[s].todo \ {o}
  <2>0. Yield(orders[o]) \in Nat
    BY <1>2, <1>4, YieldFits DEF Good, GoodOrders, Active
  <2>1. /\ pc \in {"pay", "save"} /\ (pc = "save" => y <= 0)
        /\ Set(s, [run[s] EXCEPT !.pc = pc, !.todo = rest, !.id = o, !.row = row, !.yield = y])
    BY <1>4, <2>0
  <2> HIDE DEF pc, row, y, rest
  <2>2. /\ OthersStay(s)
        /\ run'[s] = [run[s] EXCEPT !.pc = pc, !.todo = rest, !.id = o, !.row = row, !.yield = y]
    BY <1>g, <2>1, SetOthers DEF OthersStay
  <2>3. /\ run'[s].pc = pc /\ run'[s].id = o /\ run'[s].row = row /\ run'[s].yield = y
        /\ SameFill(s)
    BY <1>g, <2>2 DEF RunState, SameFill
  <2>4. Loads(s, o)
    BY <1>u, <1>4, <2>1, <2>2, <2>3 DEF Loads, row, y
  <2> QED BY <1>2, <2>4
<1> QED BY <1>1, <1>3, <1>4

LEMMA PayStep == ASSUME Good, NEW s \in Settlers, Pay(s) PROVE Pays(s)
<1>g. run[s] \in RunState /\ GoodRuns
  BY DEF Good, GoodRuns
<1>1. OthersStay(s) /\ run'[s] = [run[s] EXCEPT !.pc = "save"]
  BY <1>g, SetOthers DEF Pay, OthersStay
<1>2. /\ run'[s].pc = "save" /\ SameFill(s) /\ run'[s].id = run[s].id /\ run'[s].row = run[s].row
      /\ run'[s].yield = run[s].yield
  BY <1>g, <1>1 DEF RunState, SameFill
<1> QED BY <1>1, <1>2 DEF Pay, Pays

LEMMA SaveStep == ASSUME Good, NEW s \in Settlers, Save(s) PROVE Saves(s)
<1>g. run[s] \in RunState /\ GoodRuns
  BY DEF Good, GoodRuns
<1> PICK to \in {"climb", "next"} :
      Set(s, [run[s] EXCEPT !.pc = to,
                            !.pieces[run[s].id] = [by |-> run[s].row.by, yield |-> run[s].yield],
                            !.at = run[s].row.by, !.depth = 1])
  BY DEF Save
<1> DEFINE pieces == [run[s].pieces EXCEPT ![run[s].id] = [by |-> run[s].row.by, yield |-> run[s].yield]]
           at == run[s].row.by
<1>1. Set(s, [run[s] EXCEPT !.pc = to, !.pieces = pieces, !.at = at, !.depth = 1])
  OBVIOUS
<1> HIDE DEF pieces, at
<1>2. /\ OthersStay(s)
      /\ run'[s] = [run[s] EXCEPT !.pc = to, !.pieces = pieces, !.at = at, !.depth = 1]
  BY <1>g, <1>1, SetOthers DEF OthersStay
<1>3. run'[s].pc = to /\ SameFill(s)
  BY <1>g, <1>2 DEF RunState, SameFill
<1> QED BY <1>1, <1>2, <1>3 DEF Save, Saves

LEMMA FillStep ==
  ASSUME Good, NEW s \in Settlers, Fill(s)
  PROVE  Elsewhere(s) \/ \E o \in OrderIds : Fills(s, o)
<1>g. run[s] \in RunState /\ GoodRuns
  BY DEF Good, GoodRuns
<1>u. UNCHANGED <<orders, account, earned, req>> /\ run[s].pc = "fill"
  BY DEF Fill
<1>1. ASSUME NEW o \in ActiveOf(run[s].to), NEW c, c = Lesser(run[s].left, Room(orders[o])),
             Set(s, [run[s] EXCEPT !.pc = "write", !.id = o, !.chunk = c,
                                   !.row = Progress(orders[o], c)])
      PROVE  \E p \in OrderIds : Fills(s, p)
  <2>1. o \in OrderIds /\ Active(o) /\ orders[o].by = run[s].to
    BY DEF ActiveOf, OrdersOf
  <2> DEFINE row == Progress(orders[o], c)
  <2>2. row = Progress(orders[o], c)
    OBVIOUS
  <2> HIDE DEF row
  <2>3. OthersStay(s) /\ run'[s] = [run[s] EXCEPT !.pc = "write", !.id = o, !.chunk = c, !.row = row]
    BY <1>g, <1>1, <2>2, SetOthers DEF OthersStay
  <2>4. /\ run'[s].pc = "write" /\ run'[s].id = o /\ run'[s].chunk = c /\ run'[s].row = row
        /\ SameFill(s)
    BY <1>g, <2>3 DEF RunState, SameFill
  <2>5. Fills(s, o)
    BY <1>u, <1>1, <2>1, <2>2, <2>3, <2>4 DEF Fills
  <2> QED BY <2>1, <2>5
<1>2. ASSUME Set(s, [run[s] EXCEPT !.pc = "credit"])
      PROVE  Elsewhere(s)
  <2>1. OthersStay(s) /\ run'[s] = [run[s] EXCEPT !.pc = "credit"]
    BY <1>g, <1>2, SetOthers DEF OthersStay
  <2>2. run'[s].pc = "credit" /\ run'[s].applied = run[s].applied /\ run'[s].to = run[s].to
    BY <1>g, <2>1 DEF RunState
  <2> QED BY <1>u, <2>1, <2>2 DEF Elsewhere, Hands, Filling
<1>3. ASSUME ~(run[s].applied > 0), Set(s, [run[s] EXCEPT !.pc = Caller(s), !.left = 0])
      PROVE  Elsewhere(s)
  <2>1. PICK pc \in {"climb", "lines"} : pc = Caller(s)
    BY DEF Caller
  <2>2. OthersStay(s) /\ run'[s] = [run[s] EXCEPT !.pc = pc, !.left = 0]
    BY <1>g, <1>3, <2>1, SetOthers DEF OthersStay
  <2>3. run'[s].pc = pc /\ run'[s].applied = run[s].applied /\ run'[s].to = run[s].to
    BY <1>g, <2>2 DEF RunState
  <2>4. run[s].applied = 0
    BY <1>g, <1>3 DEF RunState
  <2> QED BY <1>u, <2>2, <2>3, <2>4 DEF Elsewhere, Hands, Filling
<1> QED BY <1>1, <1>2, <1>3 DEF Fill

LEMMA WriteStep == ASSUME Good, NEW s \in Settlers, Write(s) PROVE Writes(s)
<1>g. run[s] \in RunState /\ GoodRuns
  BY DEF Good, GoodRuns
<1>1. /\ OthersStay(s)
      /\ run'[s] = [run[s] EXCEPT !.pc = "fill", !.left = @ - run[s].chunk, !.chunk = 0,
                                  !.applied = @ + run[s].chunk]
  BY <1>g, SetOthers DEF Write, OthersStay
<1>2. /\ run'[s].pc = "fill" /\ run'[s].to = run[s].to
      /\ run'[s].applied = run[s].applied + run[s].chunk
  BY <1>g, <1>1 DEF RunState
<1> QED BY <1>1, <1>2 DEF Write, Writes

LEMMA CreditStep == ASSUME Good, NEW s \in Settlers, CreditFilled(s) PROVE Credits(s)
<1>g. run[s] \in RunState /\ GoodRuns
  BY DEF Good, GoodRuns
<1>1. PICK pc \in {"climb", "lines"} : pc = Caller(s)
  BY DEF Caller
<1>2. PICK got : Set(s, [run[s] EXCEPT !.pc = pc, !.left = 0, !.applied = 0, !.got = got])
  <2>1. PICK g : Set(s, [run[s] EXCEPT !.pc = Caller(s), !.left = 0, !.applied = 0, !.got[run[s].to] = g])
    BY DEF CreditFilled
  <2>2. Set(s, [run[s] EXCEPT !.pc = pc, !.left = 0, !.applied = 0,
                              !.got = [run[s].got EXCEPT ![run[s].to] = g]])
    BY <1>1, <2>1
  <2> QED BY <2>2
<1>3. OthersStay(s) /\ run'[s] = [run[s] EXCEPT !.pc = pc, !.left = 0, !.applied = 0, !.got = got]
  BY <1>g, <1>2, SetOthers DEF OthersStay
<1>4. run'[s].pc = pc /\ run'[s].applied = 0
  BY <1>g, <1>3 DEF RunState
<1> QED BY <1>3, <1>4 DEF CreditFilled, Credits

(* Every step of a settlement that does not end it early is one of these. *)
LEMMA SettlerSteps ==
  ASSUME Good, NEW s \in Settlers, Progresses(s) \/ Lock(s) \/ TryClaim(s) \/ ForceSettle(s)
  PROVE  \/ Elsewhere(s) \/ (\E o \in OrderIds : Loads(s, o)) \/ Pays(s) \/ Saves(s)
         \/ (\E o \in OrderIds : Fills(s, o)) \/ Writes(s) \/ Credits(s)
BY SmallSteps, ClimbStep, LoadStep, PayStep, SaveStep, FillStep, WriteStep, CreditStep DEF Progresses

-----------------------------------------------------------------------------
(* Owner and amount of an order outlive every step. *)

HandKin(q) == q.id \in OrderIds /\ q.row.status # "none" /\ Kin(q.row, orders[q.id])

Lasting ==
  \A o \in OrderIds : orders[o].status # "none" =>
    /\ orders'[o].status # "none"
    /\ orders'[o].by = orders[o].by /\ orders'[o].amount = orders[o].amount

SameOwners ==
  \A o \in OrderIds : /\ orders'[o].by = orders[o].by /\ orders'[o].amount = orders[o].amount
                      /\ (orders'[o].status = "none" <=> orders[o].status = "none")

LEMMA HandsLast ==
  ASSUME Lasting, \A t \in Settlers : run'[t].pc \in Hands => HandKin(run'[t])
  PROVE  RunKin'
BY DEF RunKin, HandKin, Lasting, Kin, Hands

LEMMA ListsLast ==
  ASSUME Lasting,
         \A r \in Requests, o \in OrderIds :
           req'[r].pc = "turn" /\ req'[r].rows[o].status # "none" => Kin(req'[r].rows[o], orders[o])
  PROVE  ReqKin'
BY DEF ReqKin, Lasting, Kin

LEMMA RowLasts ==
  ASSUME Good, Blank, NEW o \in OrderIds, NEW row, row.status # "none", Kin(row, orders[o]),
         orders' = [orders EXCEPT ![o] = row]
  PROVE  SameOwners /\ Lasting /\ Blank'
<1>1. orders'[o] = row /\ \A p \in OrderIds \ {o} : orders'[p] = orders[p]
  BY DEF Good, GoodOrders
<1> QED BY <1>1 DEF SameOwners, Lasting, Blank, Kin

LEMMA TableLasts ==
  ASSUME Blank, UNCHANGED orders
  PROVE  SameOwners /\ Lasting /\ Blank'
BY DEF SameOwners, Lasting, Blank

(* A step of a settlement keeps the owners of all orders. *)
LEMMA SettlersKin ==
  ASSUME KinInv, NEW s \in Settlers, Progresses(s) \/ Lock(s) \/ TryClaim(s) \/ ForceSettle(s)
  PROVE  RunKin' /\ ReqKin' /\ Blank' /\ SameOwners
<1>g. Good /\ Blank /\ \A t \in Settlers : run[t].pc \in Hands => HandKin(run[t])
  BY DEF KinInv, RunKin, HandKin, Hands
<1>h. \A o \in OrderIds : Sound(orders[o])
  BY DEF KinInv, Good, GoodOrders
<1>1. ASSUME OthersStay(s), SameOwners /\ Lasting /\ Blank', UNCHANGED req,
             run'[s].pc \in Hands => HandKin(run'[s])
      PROVE  RunKin' /\ ReqKin' /\ Blank' /\ SameOwners
  <2>1. RunKin'
    BY <1>g, <1>1, HandsLast DEF OthersStay
  <2>2. ReqKin'
    BY <1>1, ListsLast DEF KinInv, ReqKin
  <2> QED BY <1>1, <2>1, <2>2
<1>2. CASE Elsewhere(s)
  BY <1>g, <1>1, <1>2, TableLasts DEF Elsewhere
<1>3. ASSUME NEW o \in OrderIds, Loads(s, o)
      PROVE  RunKin' /\ ReqKin' /\ Blank' /\ SameOwners
  <2> DEFINE row == Settled(orders[o])
  <2>1. row.status # "none" /\ Kin(row, orders[o])
    BY <1>h, <1>3, WrittenKin DEF Loads, Active
  <2>2. run'[s].id = o /\ run'[s].row = row
    BY <1>3 DEF Loads
  <2> HIDE DEF row
  <2>3. HandKin(run'[s])
    BY <2>1, <2>2 DEF HandKin
  <2> QED BY <1>g, <1>1, <1>3, <2>3, TableLasts DEF Loads
<1>4. CASE Pays(s)
  <2>1. HandKin(run'[s])
    BY <1>g, <1>4 DEF Pays, HandKin, Hands
  <2> QED BY <1>g, <1>1, <1>4, <2>1, TableLasts DEF Pays
<1>5. CASE Saves(s)
  <2>1. SameOwners /\ Lasting /\ Blank'
    BY <1>g, <1>5, RowLasts DEF Saves, HandKin, Hands
  <2> QED BY <1>1, <1>5, <2>1 DEF Saves, Hands
<1>6. ASSUME NEW o \in OrderIds, Fills(s, o)
      PROVE  RunKin' /\ ReqKin' /\ Blank' /\ SameOwners
  <2>1. run'[s].chunk \in Nat
    <3>1. Room(orders[o]) \in Nat /\ run[s].left \in Nat
      BY <1>h, <1>6, YieldFits DEF Fills, Active, KinInv, Good, GoodRuns, RunState
    <3> QED BY <1>6, <3>1 DEF Fills, Lesser
  <2> DEFINE row == Progress(orders[o], run'[s].chunk)
  <2>2. row.status # "none" /\ Kin(row, orders[o])
    BY <1>h, <1>6, <2>1, WrittenKin DEF Fills, Active
  <2>3. run'[s].id = o /\ run'[s].row = row
    BY <1>6 DEF Fills
  <2> HIDE DEF row
  <2>4. HandKin(run'[s])
    BY <2>2, <2>3 DEF HandKin
  <2> QED BY <1>g, <1>1, <1>6, <2>4, TableLasts DEF Fills
<1>7. CASE Writes(s)
  <2>1. SameOwners /\ Lasting /\ Blank'
    BY <1>g, <1>7, RowLasts DEF Writes, HandKin, Hands
  <2> QED BY <1>1, <1>7, <2>1 DEF Writes, Hands
<1>8. CASE Credits(s)
  BY <1>g, <1>1, <1>8, TableLasts DEF Credits, Hands
<1> QED BY <1>2, <1>3, <1>4, <1>5, <1>6, <1>7, <1>8, SettlerSteps DEF KinInv

(* So does one that ends a settlement, and midnight. *)
LEMMA EndingsKin ==
  ASSUME KinInv, (\E s \in Settlers : EndSettlement(s)) \/ NextDay \/ UNCHANGED vars
  PROVE  RunKin' /\ ReqKin' /\ Blank' /\ SameOwners
<1>1. UNCHANGED <<orders, req>>
  BY DEF EndSettlement, NextDay, vars
<1>2. SameOwners /\ Lasting /\ Blank'
  BY <1>1, TableLasts DEF KinInv
<1>3. \A t \in Settlers : run'[t] = run[t] \/ run'[t].pc = "idle"
  <2>1. CASE NextDay \/ UNCHANGED vars
    BY <2>1 DEF NextDay, vars
  <2>2. ASSUME NEW s \in Settlers, EndSettlement(s)
        PROVE  \A t \in Settlers : run'[t] = run[t] \/ run'[t].pc = "idle"
    BY <2>2, SetOthers, IdleRunGood DEF EndSettlement, Return, KinInv, Good
  <2> QED BY <2>1, <2>2
<1>4. RunKin'
  BY <1>2, <1>3, HandsLast DEF KinInv, RunKin, HandKin, Hands
<1>5. ReqKin'
  BY <1>1, <1>2, ListsLast DEF KinInv, ReqKin
<1> QED BY <1>2, <1>4, <1>5

-----------------------------------------------------------------------------
(* What a user has spent on orders *)

BoughtSum(u) == SumFunctionOnSet([o \in OrderIds |-> Bought(o, u)], OrderIds)
PayingSum(u) == SumFunctionOnSet([r \in Requests |-> Paying(r, u)], Requests)

LEMMA OrderIdsFinite == IsFiniteSet(OrderIds) /\ IsFiniteSet(Requests) /\ IsFiniteSet(Settlers)
BY FS_Interval, OrdersAssumption DEF OrderIds

LEMMA AmountsNat == Amounts \subseteq Nat
BY OrdersAssumption

LEMMA BoughtNat == ASSUME Good, NEW u \in Users, NEW o \in OrderIds PROVE Bought(o, u) \in Nat
BY RowFields DEF Good, GoodOrders, Bought

LEMMA BoughtNatNext == ASSUME Good', NEW u \in Users, NEW o \in OrderIds PROVE Bought(o, u)' \in Nat
BY RowFields DEF Good, GoodOrders, Bought

LEMMA PayingNat == ASSUME Good, NEW u \in Users, NEW r \in Requests PROVE Paying(r, u) \in Nat
BY AmountsNat DEF Good, GoodReqs, GoodReq, Paying

LEMMA PayingNatNext == ASSUME Good', NEW u \in Users, NEW r \in Requests PROVE Paying(r, u)' \in Nat
BY AmountsNat DEF Good, GoodReqs, GoodReq, Paying

LEMMA SpentNat ==
  ASSUME Good, NEW u \in Users
  PROVE  account[u] \in Nat /\ BoughtSum(u) \in Nat /\ PayingSum(u) \in Nat /\ Funds[u] \in Nat
<1> DEFINE f == [o \in OrderIds |-> Bought(o, u)]
           g == [r \in Requests |-> Paying(r, u)]
<1>1. (\A o \in OrderIds : f[o] \in Nat) /\ \A r \in Requests : g[r] \in Nat
  BY BoughtNat, PayingNat
<1>2. SumFunctionOnSet(f, OrderIds) \in Nat /\ SumFunctionOnSet(g, Requests) \in Nat
  <2> HIDE DEF f, g
  <2> QED BY <1>1, OrderIdsFinite, SumNat
<1>3. account[u] \in Nat /\ Funds[u] \in Nat
  BY OrdersAssumption DEF Good, GoodRest
<1> QED BY <1>2, <1>3 DEF BoughtSum, PayingSum

LEMMA BoughtKept ==
  ASSUME Good, NEW u \in Users, SameOwners
  PROVE  BoughtSum(u)' = BoughtSum(u)
<1> DEFINE f == [o \in OrderIds |-> Bought(o, u)]
           g == [o \in OrderIds |-> Bought(o, u)']
<1>1. \A o \in OrderIds : f[o] \in Int /\ g[o] = f[o]
  BY BoughtNat DEF SameOwners, Bought
<1>2. SumFunctionOnSet(g, OrderIds) = SumFunctionOnSet(f, OrderIds)
  <2> HIDE DEF f, g
  <2> QED BY <1>1, OrderIdsFinite, SumExt
<1> QED BY <1>2 DEF BoughtSum

LEMMA BoughtChange ==
  ASSUME Good, Good', NEW u \in Users, NEW o \in OrderIds,
         \A p \in OrderIds : p # o => orders'[p] = orders[p]
  PROVE  BoughtSum(u)' = BoughtSum(u) - Bought(o, u) + Bought(o, u)'
<1> DEFINE f == [p \in OrderIds |-> Bought(p, u)]
           g == [p \in OrderIds |-> Bought(p, u)']
<1>1. f[o] \in Int /\ g[o] \in Int
  BY BoughtNat, BoughtNatNext
<1>2. \A p \in OrderIds : p # o => f[p] \in Int /\ g[p] = f[p]
  BY BoughtNat DEF Bought
<1>3. SumFunctionOnSet(g, OrderIds) = SumFunctionOnSet(f, OrderIds) - f[o] + g[o]
  <2> HIDE DEF f, g
  <2> QED BY <1>1, <1>2, OrderIdsFinite, SumChange
<1> QED BY <1>3 DEF BoughtSum

LEMMA PayingKept ==
  ASSUME Good, NEW u \in Users, UNCHANGED req
  PROVE  PayingSum(u)' = PayingSum(u)
<1> DEFINE f == [r \in Requests |-> Paying(r, u)]
           g == [r \in Requests |-> Paying(r, u)']
<1>1. \A r \in Requests : f[r] \in Int /\ g[r] = f[r]
  BY PayingNat DEF Paying
<1>2. SumFunctionOnSet(g, Requests) = SumFunctionOnSet(f, Requests)
  <2> HIDE DEF f, g
  <2> QED BY <1>1, OrderIdsFinite, SumExt
<1> QED BY <1>2 DEF PayingSum

LEMMA PayingChange ==
  ASSUME Good, Good', NEW u \in Users, NEW r \in Requests,
         \A q \in Requests : q # r => req'[q] = req[q]
  PROVE  PayingSum(u)' = PayingSum(u) - Paying(r, u) + Paying(r, u)'
<1> DEFINE f == [q \in Requests |-> Paying(q, u)]
           g == [q \in Requests |-> Paying(q, u)']
<1>1. f[r] \in Int /\ g[r] \in Int
  BY PayingNat, PayingNatNext
<1>2. \A q \in Requests : q # r => f[q] \in Int /\ g[q] = f[q]
  BY PayingNat DEF Paying
<1>3. SumFunctionOnSet(g, Requests) = SumFunctionOnSet(f, Requests) - f[r] + g[r]
  <2> HIDE DEF f, g
  <2> QED BY <1>1, <1>2, OrderIdsFinite, SumChange
<1> QED BY <1>3 DEF PayingSum

(* What a user has, holds in orders and is about to get for his money. *)
Purse(u) == account[u] + BoughtSum(u) + PayingSum(u)

(* A request changes its own variables: what it leaves, and what it holds.         *)
LEMMA ReqFields ==
  ASSUME GoodReqs, NEW r \in Requests, NEW q, req' = [req EXCEPT ![r] = q]
  PROVE  req'[r] = q /\ \A p \in Requests : p # r => req'[p] = req[p]
BY DEF GoodReqs

LEMMA PurseLeft ==
  ASSUME Good, Good', NEW r \in Requests, \A q \in Requests : q # r => req'[q] = req[q],
         req'[r].pc # "create", SameOwners, UNCHANGED account, NEW u \in Users
  PROVE  Purse(u)' <= Purse(u)
<1>1. BoughtSum(u)' = BoughtSum(u) /\ account'[u] = account[u]
  BY BoughtKept
<1>2. PayingSum(u)' = PayingSum(u) - Paying(r, u) + Paying(r, u)'
  BY PayingChange
<1>3. Paying(r, u)' = 0 /\ Paying(r, u) \in Nat
  BY PayingNat DEF Paying
<1>4. PayingSum(u)' \in Int /\ PayingSum(u)' <= PayingSum(u)
  <2>1. PayingSum(u) \in Nat
    BY SpentNat
  <2> QED BY <1>2, <1>3, <2>1
<1> QED BY <1>1, <1>4, SpentNat DEF Purse

(* The request of a step. *)
LEMMA RequestsKin ==
  ASSUME KinInv, Good', NEW r \in Requests, NEW v, NEW a,
         Subscribe(r, v, a) \/ ListTurns(r, v) \/ EndRequest(r) \/ Turn(r)
  PROVE  RunKin' /\ ReqKin' /\ Blank' /\ \A u \in Users : Purse(u)' <= Purse(u)
<1>g. /\ Good /\ Blank /\ GoodReqs /\ (\A o \in OrderIds : Sound(req[r].rows[o]))
      /\ req \in [Requests -> ReqState]
  BY DEF KinInv, Good, GoodReqs, GoodReq
<1>u. UNCHANGED <<account, run>>
  BY DEF Subscribe, ListTurns, EndRequest, Turn
<1>1. ASSUME NEW q, req' = [req EXCEPT ![r] = q], q.pc # "create", SameOwners, Lasting, Blank',
             \A o \in OrderIds : q.pc = "turn" /\ q.rows[o].status # "none" => Kin(q.rows[o], orders[o])
      PROVE  RunKin' /\ ReqKin' /\ Blank' /\ \A u \in Users : Purse(u)' <= Purse(u)
  <2>1. RunKin'
    BY <1>u, <1>1, HandsLast DEF KinInv, RunKin, HandKin, Hands
  <2>2. req'[r] = q /\ \A p \in Requests : p # r => req'[p] = req[p]
    BY <1>g, <1>1, ReqFields
  <2>3. ReqKin'
    BY <1>1, <2>2, ListsLast DEF KinInv, ReqKin
  <2>4. \A u \in Users : Purse(u)' <= Purse(u)
    BY <1>g, <1>u, <1>1, <2>2, PurseLeft
  <2> QED BY <1>1, <2>1, <2>3, <2>4
<1>i. IdleReq.pc = "idle"
  BY DEF IdleReq
<1>2. CASE Subscribe(r, v, a)
  <2> DEFINE q == [IdleReq EXCEPT !.pc = "sub", !.user = v, !.amount = a]
  <2>1. req' = [req EXCEPT ![r] = q] /\ UNCHANGED orders
    BY <1>2 DEF Subscribe
  <2>2. q.pc = "sub"
    BY DEF IdleReq
  <2> HIDE DEF q
  <2> QED BY <1>g, <1>1, <2>1, <2>2, TableLasts
<1>3. CASE ListTurns(r, v)
  <2> DEFINE rows == [o \in OrderIds |-> IF o \in ToTurn(v) THEN orders[o] ELSE NoOrder]
             q == [IdleReq EXCEPT !.pc = "turn", !.user = v, !.rows = rows]
  <2>1. req' = [req EXCEPT ![r] = q] /\ UNCHANGED orders
    BY <1>3 DEF ListTurns
  <2>2. q.pc = "turn" /\ q.rows = rows
    BY DEF IdleReq
  <2>3. \A o \in OrderIds : rows[o].status # "none" => Kin(rows[o], orders[o])
    BY DEF Kin, NoOrder
  <2> HIDE DEF q, rows
  <2> QED BY <1>g, <1>1, <2>1, <2>2, <2>3, TableLasts
<1>4. CASE EndRequest(r)
  <2>1. req' = [req EXCEPT ![r] = IdleReq] /\ UNCHANGED orders
    BY <1>4 DEF EndRequest, RequestDone
  <2> QED BY <1>g, <1>1, <1>i, <2>1, TableLasts
<1>5. CASE Turn(r)
  <2>1. PICK o \in Unwritten(r) :
          /\ orders' = [orders EXCEPT ![o] = Turned(req[r].rows[o])]
          /\ RequestDone(r) \/ req' = [req EXCEPT ![r].rows[o] = NoOrder]
    BY <1>5 DEF Turn
  <2>2. o \in OrderIds /\ req[r].rows[o].status # "none" /\ Kin(req[r].rows[o], orders[o])
    BY <1>5 DEF Unwritten, Turn, KinInv, ReqKin
  <2>3. Turned(req[r].rows[o]).status # "none" /\ Kin(Turned(req[r].rows[o]), orders[o])
    BY <1>g, <2>2, WrittenKin DEF Kin
  <2>4. SameOwners /\ Lasting /\ Blank'
    <3> DEFINE row == Turned(req[r].rows[o])
    <3>1. row.status # "none" /\ Kin(row, orders[o]) /\ orders' = [orders EXCEPT ![o] = row]
      BY <2>1, <2>3
    <3> HIDE DEF row
    <3> QED BY <1>g, <2>2, <3>1, RowLasts
  <2>5. CASE RequestDone(r)
    BY <1>1, <1>i, <2>4, <2>5 DEF RequestDone
  <2>6. CASE req' = [req EXCEPT ![r].rows[o] = NoOrder]
    <3> DEFINE q == [req[r] EXCEPT !.rows = [req[r].rows EXCEPT ![o] = NoOrder]]
    <3>1. req' = [req EXCEPT ![r] = q]
      BY <2>6
    <3>2. q.pc = "turn" /\ q.rows = [req[r].rows EXCEPT ![o] = NoOrder]
      BY <1>g, <1>5 DEF Turn, ReqState
    <3>3. \A p \in OrderIds : q.rows[p] = req[r].rows[p] \/ q.rows[p] = NoOrder
      BY <1>g, <3>2 DEF ReqState
    <3>4. NoOrder.status = "none"
      BY DEF NoOrder
    <3>5. \A p \in OrderIds : q.rows[p].status # "none" => Kin(q.rows[p], orders[p])
      BY <1>5, <3>3, <3>4 DEF KinInv, ReqKin, Turn
    <3> HIDE DEF q
    <3> QED BY <1>1, <2>4, <3>1, <3>2, <3>5
  <2> QED BY <2>1, <2>5, <2>6
<1> QED BY <1>2, <1>3, <1>4, <1>5

LEMMA SubAccountKin ==
  ASSUME KinInv, Good', NEW r \in Requests, SubAccountBalance(r)
  PROVE  RunKin' /\ ReqKin' /\ Blank' /\ \A u \in Users : Purse(u)' <= Purse(u)
<1>g. /\ Good /\ Good' /\ Blank /\ GoodReqs /\ req \in [Requests -> ReqState]
      /\ req[r].user \in Users /\ req[r].amount \in Nat /\ account \in [Users -> Nat]
  BY AmountsNat DEF KinInv, Good, GoodReqs, GoodReq, GoodRest, SubAccountBalance
<1>u. UNCHANGED <<orders, run>> /\ req[r].pc = "sub"
  BY DEF SubAccountBalance
<1>t. SameOwners /\ Lasting /\ Blank'
  BY <1>g, <1>u, TableLasts
<1>r. RunKin'
  BY <1>u, <1>t, HandsLast DEF KinInv, RunKin, HandKin, Hands
<1>1. CASE RequestDone(r) /\ UNCHANGED account
  <2>1. /\ req'[r] = IdleReq /\ (\A p \in Requests : p # r => req'[p] = req[p]) /\ IdleReq.pc = "idle"
    BY <1>g, <1>1, ReqFields DEF RequestDone, IdleReq
  <2>2. ReqKin'
    BY <1>t, <2>1, ListsLast DEF KinInv, ReqKin
  <2>3. \A u \in Users : Purse(u)' <= Purse(u)
    BY <1>g, <1>1, <1>t, <2>1, PurseLeft
  <2> QED BY <1>t, <1>r, <2>2, <2>3
<1>2. CASE Covers(r) /\ req' = [req EXCEPT ![r].pc = "create"]
           /\ account' = [account EXCEPT ![req[r].user] = @ - req[r].amount]
  <2> DEFINE q == [req[r] EXCEPT !.pc = "create"]
  <2>1. /\ req'[r] = q /\ (\A p \in Requests : p # r => req'[p] = req[p])
        /\ q.pc = "create" /\ q.user = req[r].user /\ q.amount = req[r].amount
    BY <1>g, <1>2, ReqFields DEF ReqState
  <2> HIDE DEF q
  <2>2. ReqKin'
    BY <1>t, <2>1, ListsLast DEF KinInv, ReqKin
  <2>3. ASSUME NEW u \in Users PROVE Purse(u)' <= Purse(u)
    <3>1. PayingSum(u)' = PayingSum(u) - Paying(r, u) + Paying(r, u)'
      BY <1>g, <2>1, PayingChange
    <3>2. BoughtSum(u)' = BoughtSum(u)
      BY <1>g, <1>t, BoughtKept
    <3>3. Paying(r, u) = 0 /\ Paying(r, u)' = IF u = req[r].user THEN req[r].amount ELSE 0
      BY <1>u, <2>1 DEF Paying
    <3>4. account'[u] = IF u = req[r].user THEN account[u] - req[r].amount ELSE account[u]
      BY <1>g, <1>2
    <3> QED BY <1>g, <3>1, <3>2, <3>3, <3>4, SpentNat DEF Purse
  <2> QED BY <1>t, <1>r, <2>2, <2>3
<1> QED BY <1>1, <1>2 DEF SubAccountBalance

LEMMA CreateKin ==
  ASSUME KinInv, Good', NEW r \in Requests, Create(r)
  PROVE  RunKin' /\ ReqKin' /\ Blank' /\ \A u \in Users : Purse(u)' <= Purse(u)
<1>g. /\ Good /\ Good' /\ Blank /\ GoodReqs /\ req \in [Requests -> ReqState]
      /\ req[r].user \in Users /\ req[r].amount \in Amounts /\ orders \in [OrderIds -> OrderRow]
  BY DEF KinInv, Good, GoodReqs, GoodReq, GoodOrders, Create
<1>u. UNCHANGED <<account, run>> /\ req[r].pc = "create"
  BY DEF Create
<1>1. PICK o \in OrderIds :
        orders[o].status = "none" /\ orders' = [orders EXCEPT ![o] = NewOrder(req[r].user, req[r].amount)]
  BY DEF Create, FirstFree, Exists
<1> DEFINE row == NewOrder(req[r].user, req[r].amount)
<1>2. row.by = req[r].user /\ row.amount = req[r].amount /\ row.status = "active"
  BY DEF NewOrder, NoOrder
<1> HIDE DEF row
<1>3. orders'[o] = row /\ \A p \in OrderIds : p # o => orders'[p] = orders[p]
  BY <1>g, <1>1 DEF row
<1>4. Lasting /\ Blank'
  BY <1>g, <1>1, <1>2, <1>3 DEF Lasting, Blank
<1>5. RunKin'
  BY <1>u, <1>4, HandsLast DEF KinInv, RunKin, HandKin, Hands
<1>6. /\ req'[r] = IdleReq /\ (\A p \in Requests : p # r => req'[p] = req[p]) /\ IdleReq.pc = "idle"
  BY <1>g, ReqFields DEF RequestDone, IdleReq, Create
<1>7. ReqKin'
  BY <1>4, <1>6, ListsLast DEF KinInv, ReqKin
<1>8. ASSUME NEW u \in Users PROVE Purse(u)' <= Purse(u)
  <2>1. PayingSum(u)' = PayingSum(u) - Paying(r, u) + Paying(r, u)'
    BY <1>g, <1>6, PayingChange
  <2>2. BoughtSum(u)' = BoughtSum(u) - Bought(o, u) + Bought(o, u)'
    BY <1>g, <1>3, BoughtChange
  <2>3. /\ Paying(r, u) = IF u = req[r].user THEN req[r].amount ELSE 0
        /\ Paying(r, u)' = 0
    BY <1>u, <1>6 DEF Paying
  <2>4. Bought(o, u) = 0
    <3>1. orders[o].by = NoUser /\ NoUser \notin Users
      BY <1>g, <1>1, CommunityAssumption DEF Blank
    <3> QED BY <3>1 DEF Bought
  <2>5. Bought(o, u)' \in {0, IF u = req[r].user THEN req[r].amount ELSE 0}
    BY <1>2, <1>3 DEF Bought
  <2>6. account'[u] = account[u] /\ req[r].amount \in Nat
    BY <1>g, <1>u, AmountsNat
  <2> QED BY <1>g, <2>1, <2>2, <2>3, <2>4, <2>5, <2>6, SpentNat DEF Purse
<1> QED BY <1>4, <1>5, <1>7, <1>8

-----------------------------------------------------------------------------
(* Every order was paid for *)

PaidInv == KinInv /\ \A u \in Users : Purse(u) <= Funds[u]

(* A step that keeps every owner and takes from no balance spends nothing. *)
LEMMA NothingSpent ==
  ASSUME Good, SameOwners, UNCHANGED <<account, req>>
  PROVE  \A u \in Users : Purse(u)' <= Purse(u)
<1> TAKE u \in Users
<1>1. BoughtSum(u)' = BoughtSum(u) /\ PayingSum(u)' = PayingSum(u) /\ account'[u] = account[u]
  BY BoughtKept, PayingKept
<1> QED BY <1>1, SpentNat DEF Purse

LEMMA NextPaid ==
  ASSUME PaidInv, [Next]_vars
  PROVE  PaidInv'
<1>g. KinInv /\ Good /\ Good'
  BY NextGood DEF PaidInv, KinInv
<1>1. RunKin' /\ ReqKin' /\ Blank' /\ \A u \in Users : Purse(u)' <= Purse(u)
  <2>1. CASE \E r \in Requests : \/ \E u \in Users, a \in Amounts : Subscribe(r, u, a)
                                 \/ \E u \in Users : ListTurns(r, u)
                                 \/ EndRequest(r) \/ Turn(r)
    BY <1>g, <2>1, RequestsKin
  <2>2. CASE \E r \in Requests : SubAccountBalance(r) \/ Create(r)
    BY <1>g, <2>2, SubAccountKin, CreateKin
  <2>3. ASSUME NEW s \in Settlers, Progresses(s) \/ Lock(s) \/ TryClaim(s) \/ ForceSettle(s)
        PROVE  RunKin' /\ ReqKin' /\ Blank' /\ \A u \in Users : Purse(u)' <= Purse(u)
    <3>1. RunKin' /\ ReqKin' /\ Blank' /\ SameOwners
      BY <1>g, <2>3, SettlersKin
    <3>2. UNCHANGED <<account, req>>
      BY <1>g, <2>3, SettlerSteps DEF Elsewhere, Loads, Pays, Saves, Fills, Writes, Credits
    <3> QED BY <1>g, <3>1, <3>2, NothingSpent
  <2>4. CASE (\E s \in Settlers : EndSettlement(s)) \/ NextDay \/ UNCHANGED vars
    <3>1. RunKin' /\ ReqKin' /\ Blank' /\ SameOwners
      BY <1>g, <2>4, EndingsKin
    <3>2. UNCHANGED <<account, req>>
      BY <2>4 DEF EndSettlement, NextDay, vars
    <3> QED BY <1>g, <3>1, <3>2, NothingSpent
  <2> QED BY <2>1, <2>2, <2>3, <2>4 DEF Next
<1>2. ASSUME NEW u \in Users PROVE Purse(u)' <= Funds[u]
  <2>1. Purse(u)' <= Purse(u) /\ Purse(u) <= Funds[u]
    BY <1>1 DEF PaidInv
  <2>2. Purse(u) \in Nat /\ Funds[u] \in Nat
    BY <1>g, SpentNat DEF Purse
  <2>3. Purse(u)' \in Nat
    <3>1. account'[u] \in Nat /\ BoughtSum(u)' \in Nat /\ PayingSum(u)' \in Nat
      <4> DEFINE f == [o \in OrderIds |-> Bought(o, u)']
                 g == [r \in Requests |-> Paying(r, u)']
      <4>1. (\A o \in OrderIds : f[o] \in Nat) /\ \A r \in Requests : g[r] \in Nat
        BY <1>g, BoughtNatNext, PayingNatNext
      <4>2. SumFunctionOnSet(f, OrderIds) \in Nat /\ SumFunctionOnSet(g, Requests) \in Nat
        <5> HIDE DEF f, g
        <5> QED BY <4>1, OrderIdsFinite, SumNat
      <4>3. account'[u] \in Nat
        BY <1>g DEF Good, GoodRest
      <4> QED BY <4>2, <4>3 DEF BoughtSum, PayingSum
    <3> QED BY <3>1 DEF Purse
  <2> QED BY <2>1, <2>2, <2>3
<1> QED BY <1>g, <1>1, <1>2 DEF PaidInv, KinInv

LEMMA InitPaid == Init => PaidInv
<1> SUFFICES ASSUME Init PROVE PaidInv
  OBVIOUS
<1>1. Good
  BY InitGood
<1>2. /\ \A s \in Settlers : run[s].pc = "idle"
      /\ \A r \in Requests : req[r].pc = "idle"
  BY DEF Init, IdleRun, IdleReq
<1>3. \A o \in OrderIds : orders[o].by = NoUser \/ (o \in DOMAIN Placed /\ orders[o].status = "active")
  BY DEF Init, FirstOrders, NoOrder, NewOrder
<1>4. KinInv
  BY <1>1, <1>2, <1>3 DEF KinInv, RunKin, ReqKin, Blank
<1>5. ASSUME NEW u \in Users PROVE Purse(u) <= Funds[u]
  <2> DEFINE f == [o \in OrderIds |-> Bought(o, u)]
             g == [r \in Requests |-> Paying(r, u)]
  <2>1. (\A o \in OrderIds : f[o] = 0) /\ \A r \in Requests : g[r] = 0
    BY <1>2, <1>3, CommunityAssumption DEF Bought, Paying
  <2>2. SumFunctionOnSet(f, OrderIds) = 0 /\ SumFunctionOnSet(g, Requests) = 0
    <3> HIDE DEF f, g
    <3> QED BY <2>1, OrderIdsFinite, SumZero
  <2>3. account[u] = Funds[u] /\ Funds[u] \in Nat
    BY OrdersAssumption DEF Init
  <2> QED BY <2>2, <2>3 DEF Purse, BoughtSum, PayingSum
<1> QED BY <1>4, <1>5 DEF PaidInv

LEMMA PaidHolds == Spec => []PaidInv
<1>1. PaidInv /\ [Next]_vars => PaidInv'
  BY NextPaid
<1> QED BY <1>1, InitPaid, PTL DEF Spec

(* CreateLocation's SubAccountBalance refuses what the balance does not cover: for *)
(* every number of requests, whatever they do at once and wherever they or a       *)
(* settlement fail, the orders of a user, his balance and what his requests hold   *)
(* never exceed what he had.                                                       *)
THEOREM OrdersWerePaid == Spec => []OrdersArePaid
<1>1. PaidInv => OrdersArePaid
  <2> SUFFICES ASSUME PaidInv, NEW u \in Users
               PROVE  account[u] >= 0 /\ Purse(u) <= Funds[u]
    BY DEF OrdersArePaid, Purse, BoughtSum, PayingSum
  <2> QED BY SpentNat DEF PaidInv, KinInv
<1> QED BY <1>1, PaidHolds, PTL

-----------------------------------------------------------------------------
(* What orders accumulated and what they added to balances *)

UncreditedSum(u)  == SumFunctionOnSet([s \in Settlers |-> Uncredited(s, u)], Settlers)
AccumulatedSum(u) == SumFunctionOnSet([o \in OrderIds |-> Accumulated(o, u)], OrderIds)
UnsavedSum(u)     == SumFunctionOnSet([s \in Settlers |-> Unsaved(s, u)], Settlers)

(* What a settlement is about to write is what it pays, or will pay: the yield is  *)
(* that of the row it replaces, a reward fits the row, which is the receiver's;    *)
(* and no reward is in hand outside creditOrderAcceleration.                       *)
HandExact ==
  \A s \in Settlers :
    /\ run[s].pc \in {"pay", "save"} => run[s].yield = Yield(orders[run[s].id])
    /\ run[s].pc = "write" =>
         run[s].chunk <= Room(orders[run[s].id]) /\ orders[run[s].id].by = run[s].to
    /\ run[s].pc \notin Filling => run[s].applied = 0

Balanced(u) == earned[u] + UncreditedSum(u) = AccumulatedSum(u) + UnsavedSum(u)

EarnInv == AloneInv /\ HandExact /\ \A u \in Users : Balanced(u)

(* A yield or reward that fits is progress to the last unit. *)
LEMMA ProgressExact ==
  ASSUME NEW row, Sound(row), row.status = "active", NEW c \in Nat, c <= Room(row)
  PROVE  Progress(row, c).acc = row.acc + c
<1>f. row \in OrderRow /\ row.acc \in Nat /\ row.target \in Nat
  BY RowFields DEF Sound
<1>1. CASE row.acc + c >= row.target
  <2>1. Progress(row, c).acc = row.target
    BY <1>f, <1>1 DEF Progress, Exited, OrderRow
  <2> QED BY <1>f, <1>1, <2>1 DEF Room
<1>2. CASE ~(row.acc + c >= row.target)
  BY <1>f, <1>2 DEF Progress, OrderRow
<1> QED BY <1>1, <1>2

LEMMA SettledExact ==
  ASSUME NEW row, Sound(row), row.status = "active"
  PROVE  Settled(row).acc = row.acc + Yield(row)
<1> DEFINE paid == Progress(row, Yield(row))
           next == AdvanceRate(row.rate, row.dir)
           q == Settled(row)
<1>1. paid.acc = row.acc + Yield(row) /\ paid \in OrderRow
  BY YieldFits, ProgressExact, ProgressSound DEF Sound
<1>2. \/ Yield(row) = 0 /\ q = [row EXCEPT !.pending = FALSE, !.last = row.rate]
      \/ q = [paid EXCEPT !.pending = FALSE, !.last = row.rate]
      \/ q = [paid EXCEPT !.pending = FALSE, !.last = row.rate, !.rate = next.rate, !.dir = next.dir]
  BY SettledForms
<1>f. row \in OrderRow /\ row.acc \in Nat /\ row.target \in Nat
  BY RowFields DEF Sound
<1> HIDE DEF paid, next, q
<1>3. CASE Yield(row) = 0 /\ q = [row EXCEPT !.pending = FALSE, !.last = row.rate]
  <2>1. q.acc = row.acc
    BY <1>f, <1>3 DEF OrderRow
  <2> QED BY <1>f, <1>3, <2>1 DEF q
<1>4. CASE q = [paid EXCEPT !.pending = FALSE, !.last = row.rate]
  <2>1. q.acc = paid.acc
    BY <1>1, <1>4 DEF OrderRow
  <2> QED BY <1>1, <2>1 DEF q
<1>5. CASE q = [paid EXCEPT !.pending = FALSE, !.last = row.rate, !.rate = next.rate, !.dir = next.dir]
  <2>1. q.acc = paid.acc
    BY <1>1, <1>5 DEF OrderRow
  <2> QED BY <1>1, <2>1 DEF q
<1> QED BY <1>2, <1>3, <1>4, <1>5

-----------------------------------------------------------------------------
(* The three sums *)

LEMMA EarnPartsNat ==
  ASSUME Good, NEW u \in Users
  PROVE  /\ \A o \in OrderIds : Accumulated(o, u) \in Nat
         /\ \A s \in Settlers : Uncredited(s, u) \in Nat /\ Unsaved(s, u) \in Nat
<1>1. \A o \in OrderIds : orders[o].acc \in Nat
  BY RowFields DEF Good, GoodOrders
<1>2. \A s \in Settlers : run[s].applied \in Nat /\ run[s].yield \in Nat
  BY DEF Good, GoodRuns, RunState
<1> QED BY <1>1, <1>2 DEF Accumulated, Uncredited, Unsaved

LEMMA EarnPartsNatNext ==
  ASSUME Good', NEW u \in Users
  PROVE  /\ \A o \in OrderIds : Accumulated(o, u)' \in Nat
         /\ \A s \in Settlers : Uncredited(s, u)' \in Nat /\ Unsaved(s, u)' \in Nat
<1>1. \A o \in OrderIds : orders'[o].acc \in Nat
  BY RowFields DEF Good, GoodOrders
<1>2. \A s \in Settlers : run'[s].applied \in Nat /\ run'[s].yield \in Nat
  BY DEF Good, GoodRuns, RunState
<1> QED BY <1>1, <1>2 DEF Accumulated, Uncredited, Unsaved

LEMMA EarnSumsNat ==
  ASSUME Good, NEW u \in Users
  PROVE  /\ UncreditedSum(u) \in Nat /\ AccumulatedSum(u) \in Nat /\ UnsavedSum(u) \in Nat
         /\ earned[u] \in Nat
<1> DEFINE f == [s \in Settlers |-> Uncredited(s, u)]
           g == [o \in OrderIds |-> Accumulated(o, u)]
           h == [s \in Settlers |-> Unsaved(s, u)]
<1>1. (\A s \in Settlers : f[s] \in Nat /\ h[s] \in Nat) /\ \A o \in OrderIds : g[o] \in Nat
  BY EarnPartsNat
<1>2. /\ SumFunctionOnSet(f, Settlers) \in Nat /\ SumFunctionOnSet(g, OrderIds) \in Nat
      /\ SumFunctionOnSet(h, Settlers) \in Nat
  <2> HIDE DEF f, g, h
  <2> QED BY <1>1, OrderIdsFinite, SumNat
<1>3. earned[u] \in Nat
  BY DEF Good, GoodRest
<1> QED BY <1>2, <1>3 DEF UncreditedSum, AccumulatedSum, UnsavedSum

LEMMA AccumulatedKept ==
  ASSUME Good, NEW u \in Users, \A o \in OrderIds : Accumulated(o, u)' = Accumulated(o, u)
  PROVE  AccumulatedSum(u)' = AccumulatedSum(u)
<1> DEFINE f == [o \in OrderIds |-> Accumulated(o, u)]
           g == [o \in OrderIds |-> Accumulated(o, u)']
<1>1. \A o \in OrderIds : f[o] \in Int /\ g[o] = f[o]
  BY EarnPartsNat
<1>2. SumFunctionOnSet(g, OrderIds) = SumFunctionOnSet(f, OrderIds)
  <2> HIDE DEF f, g
  <2> QED BY <1>1, OrderIdsFinite, SumExt
<1> QED BY <1>2 DEF AccumulatedSum

LEMMA AccumulatedChange ==
  ASSUME Good, Good', NEW u \in Users, NEW o \in OrderIds,
         \A p \in OrderIds : p # o => orders'[p] = orders[p]
  PROVE  AccumulatedSum(u)' = AccumulatedSum(u) - Accumulated(o, u) + Accumulated(o, u)'
<1> DEFINE f == [p \in OrderIds |-> Accumulated(p, u)]
           g == [p \in OrderIds |-> Accumulated(p, u)']
<1>1. f[o] \in Int /\ g[o] \in Int
  BY EarnPartsNat, EarnPartsNatNext
<1>2. \A p \in OrderIds : p # o => f[p] \in Int /\ g[p] = f[p]
  BY EarnPartsNat DEF Accumulated
<1>3. SumFunctionOnSet(g, OrderIds) = SumFunctionOnSet(f, OrderIds) - f[o] + g[o]
  <2> HIDE DEF f, g
  <2> QED BY <1>1, <1>2, OrderIdsFinite, SumChange
<1> QED BY <1>3 DEF AccumulatedSum

LEMMA RunSumsChange ==
  ASSUME Good, Good', NEW u \in Users, NEW s \in Settlers, OthersStay(s)
  PROVE  /\ UncreditedSum(u)' = UncreditedSum(u) - Uncredited(s, u) + Uncredited(s, u)'
         /\ UnsavedSum(u)' = UnsavedSum(u) - Unsaved(s, u) + Unsaved(s, u)'
<1> DEFINE f == [t \in Settlers |-> Uncredited(t, u)]
           g == [t \in Settlers |-> Uncredited(t, u)']
           h == [t \in Settlers |-> Unsaved(t, u)]
           k == [t \in Settlers |-> Unsaved(t, u)']
<1>1. f[s] \in Int /\ g[s] \in Int /\ h[s] \in Int /\ k[s] \in Int
  BY EarnPartsNat, EarnPartsNatNext
<1>2. \A t \in Settlers : t # s => f[t] \in Int /\ g[t] = f[t] /\ h[t] \in Int /\ k[t] = h[t]
  BY EarnPartsNat DEF OthersStay, Uncredited, Unsaved
<1>3. /\ SumFunctionOnSet(g, Settlers) = SumFunctionOnSet(f, Settlers) - f[s] + g[s]
      /\ SumFunctionOnSet(k, Settlers) = SumFunctionOnSet(h, Settlers) - h[s] + k[s]
  <2> HIDE DEF f, g, h, k
  <2> QED BY <1>1, <1>2, OrderIdsFinite, SumChange
<1> QED BY <1>3 DEF UncreditedSum, UnsavedSum

LEMMA RunSumsKept ==
  ASSUME Good, NEW u \in Users, \A t \in Settlers : run'[t] = run[t]
  PROVE  UncreditedSum(u)' = UncreditedSum(u) /\ UnsavedSum(u)' = UnsavedSum(u)
<1> DEFINE f == [t \in Settlers |-> Uncredited(t, u)]
           g == [t \in Settlers |-> Uncredited(t, u)']
           h == [t \in Settlers |-> Unsaved(t, u)]
           k == [t \in Settlers |-> Unsaved(t, u)']
<1>1. \A t \in Settlers : f[t] \in Int /\ g[t] = f[t] /\ h[t] \in Int /\ k[t] = h[t]
  BY EarnPartsNat DEF Uncredited, Unsaved
<1>2. /\ SumFunctionOnSet(g, Settlers) = SumFunctionOnSet(f, Settlers)
      /\ SumFunctionOnSet(k, Settlers) = SumFunctionOnSet(h, Settlers)
  <2> HIDE DEF f, g, h, k
  <2> QED BY <1>1, OrderIdsFinite, SumExt
<1> QED BY <1>2 DEF UncreditedSum, UnsavedSum

(* A settlement's step that writes no row, and one that writes one. *)
LEMMA OwnBalance ==
  ASSUME Good, Good', NEW u \in Users, NEW s \in Settlers, OthersStay(s), UNCHANGED orders, Balanced(u),
         earned'[u] + Uncredited(s, u)' + Unsaved(s, u) = earned[u] + Uncredited(s, u) + Unsaved(s, u)'
  PROVE  Balanced(u)'
<1>1. AccumulatedSum(u)' = AccumulatedSum(u)
  BY AccumulatedKept DEF Accumulated
<1>2. /\ Uncredited(s, u) \in Nat /\ Unsaved(s, u) \in Nat
      /\ Uncredited(s, u)' \in Nat /\ Unsaved(s, u)' \in Nat /\ earned'[u] \in Nat
  BY EarnPartsNat, EarnPartsNatNext DEF Good, GoodRest
<1>3. /\ UncreditedSum(u)' = UncreditedSum(u) - Uncredited(s, u) + Uncredited(s, u)'
      /\ UnsavedSum(u)' = UnsavedSum(u) - Unsaved(s, u) + Unsaved(s, u)'
  BY RunSumsChange
<1>4. /\ UncreditedSum(u) \in Nat /\ AccumulatedSum(u) \in Nat /\ UnsavedSum(u) \in Nat
      /\ earned[u] \in Nat
  BY EarnSumsNat
<1> DEFINE c == Uncredited(s, u)
           d == Uncredited(s, u)'
           h == Unsaved(s, u)
           k == Unsaved(s, u)'
           e == earned[u]
           f == earned'[u]
           cs == UncreditedSum(u)
           hs == UnsavedSum(u)
           a == AccumulatedSum(u)
<1>5. /\ c \in Nat /\ d \in Nat /\ h \in Nat /\ k \in Nat /\ e \in Nat /\ f \in Nat
      /\ cs \in Nat /\ hs \in Nat /\ a \in Nat
  BY <1>2, <1>4
<1>6. e + cs = a + hs /\ f + d + h = e + c + k
  BY DEF Balanced
<1>7. f + (cs - c + d) = a + (hs - h + k)
  <2> HIDE DEF c, d, h, k, e, f, cs, hs, a
  <2> QED BY <1>5, <1>6
<1> QED BY <1>1, <1>3, <1>7 DEF Balanced

LEMMA RowBalance ==
  ASSUME Good, Good', NEW u \in Users, NEW s \in Settlers, OthersStay(s), UNCHANGED earned, Balanced(u),
         NEW o \in OrderIds, \A p \in OrderIds : p # o => orders'[p] = orders[p],
         Uncredited(s, u)' + Unsaved(s, u) + Accumulated(o, u)
           = Uncredited(s, u) + Unsaved(s, u)' + Accumulated(o, u)'
  PROVE  Balanced(u)'
<1>1. AccumulatedSum(u)' = AccumulatedSum(u) - Accumulated(o, u) + Accumulated(o, u)'
  BY AccumulatedChange
<1>2. /\ Uncredited(s, u) \in Nat /\ Unsaved(s, u) \in Nat /\ Accumulated(o, u) \in Nat
      /\ Uncredited(s, u)' \in Nat /\ Unsaved(s, u)' \in Nat /\ Accumulated(o, u)' \in Nat
      /\ earned'[u] = earned[u]
  BY EarnPartsNat, EarnPartsNatNext
<1> QED BY <1>1, <1>2, RunSumsChange, EarnSumsNat DEF Balanced

-----------------------------------------------------------------------------
(* Every step keeps the balance *)

LEMMA InitEarn == Init => EarnInv
<1> SUFFICES ASSUME Init PROVE EarnInv
  OBVIOUS
<1>1. AloneInv
  BY InitAlone
<1>2. \A s \in Settlers : run[s].pc = "idle" /\ run[s].applied = 0
  BY DEF Init, IdleRun
<1>3. \A o \in OrderIds : orders[o].acc = 0
  BY DEF Init, FirstOrders, NoOrder, NewOrder
<1>4. HandExact
  BY <1>2 DEF HandExact
<1>5. ASSUME NEW u \in Users PROVE Balanced(u)
  <2> DEFINE f == [s \in Settlers |-> Uncredited(s, u)]
             g == [o \in OrderIds |-> Accumulated(o, u)]
             h == [s \in Settlers |-> Unsaved(s, u)]
  <2>1. (\A s \in Settlers : f[s] = 0 /\ h[s] = 0) /\ \A o \in OrderIds : g[o] = 0
    BY <1>2, <1>3 DEF Uncredited, Unsaved, Accumulated
  <2>2. /\ SumFunctionOnSet(f, Settlers) = 0 /\ SumFunctionOnSet(g, OrderIds) = 0
        /\ SumFunctionOnSet(h, Settlers) = 0
    <3> HIDE DEF f, g, h
    <3> QED BY <2>1, OrderIdsFinite, SumZero
  <2>3. earned[u] = 0
    BY DEF Init
  <2> QED BY <2>2, <2>3 DEF Balanced, UncreditedSum, AccumulatedSum, UnsavedSum
<1> QED BY <1>1, <1>4, <1>5 DEF EarnInv

(* A request changes no order's owner or progress, and nothing in hand. *)
LEMMA RequestsEarn ==
  ASSUME EarnInv, Good', UNCHANGED <<run, earned>>,
         \A o \in OrderIds : Active(o) /\ (\E s \in Settlers : Works(s)) => orders'[o] = orders[o],
         \A o \in OrderIds, u \in Users : Accumulated(o, u)' = Accumulated(o, u)
  PROVE  HandExact' /\ \A u \in Users : Balanced(u)'
<1>1. HandExact'
  <2> SUFFICES ASSUME NEW s \in Settlers
               PROVE  /\ run[s].pc \in {"pay", "save"} => run[s].yield = Yield(orders'[run[s].id])
                      /\ run[s].pc = "write" =>
                           /\ run[s].chunk <= Room(orders'[run[s].id])
                           /\ orders'[run[s].id].by = run[s].to
                      /\ run[s].pc \notin Filling => run[s].applied = 0
    BY DEF HandExact
  <2>1. run[s].pc \in Hands => orders'[run[s].id] = orders[run[s].id]
    BY DEF EarnInv, AloneInv, HandIsFresh, Hands, Works
  <2> QED BY <2>1 DEF EarnInv, HandExact, Hands
<1>2. ASSUME NEW u \in Users PROVE Balanced(u)'
  <2>1. AccumulatedSum(u)' = AccumulatedSum(u)
    BY AccumulatedKept DEF EarnInv, AloneInv
  <2>2. UncreditedSum(u)' = UncreditedSum(u) /\ UnsavedSum(u)' = UnsavedSum(u)
    BY RunSumsKept DEF EarnInv, AloneInv
  <2> QED BY <2>1, <2>2 DEF Balanced, EarnInv
<1> QED BY <1>1, <1>2

LEMMA TurnEarn ==
  ASSUME EarnInv, Good', NEW r \in Requests, Turn(r)
  PROVE  HandExact' /\ \A u \in Users : Balanced(u)'
<1>1. PICK o \in Unwritten(r) : orders' = [orders EXCEPT ![o] = Turned(req[r].rows[o])]
  BY DEF Turn
<1> DEFINE row == req[r].rows[o]
<1>2. /\ o \in OrderIds /\ row.status = "active" /\ Sound(row) /\ orders[o] \in {row, Turned(row)}
  BY DEF Unwritten, Turn, EarnInv, AloneInv, ListIsFresh, ListedFresh, Good, GoodReqs, GoodReq
<1>3. Turned(row).acc = row.acc /\ Turned(row).by = row.by
  BY <1>2, TurnedSound, WrittenKin DEF Kin
<1>4. orders'[o] = Turned(row) /\ \A p \in OrderIds : p # o => orders'[p] = orders[p]
  BY <1>1, <1>2 DEF EarnInv, AloneInv, Good, GoodOrders
<1>5. \A p \in OrderIds, u \in Users : Accumulated(p, u)' = Accumulated(p, u)
  <2> HIDE DEF row
  <2> QED BY <1>2, <1>3, <1>4 DEF Accumulated
<1>6. \A s \in Settlers : ~Works(s)
  BY DEF EarnInv, AloneInv, Exclusive, TurnsKeepAway, Turn
<1> QED BY <1>5, <1>6, RequestsEarn DEF Turn

LEMMA CreateEarn ==
  ASSUME EarnInv, Good', NEW r \in Requests, Create(r)
  PROVE  HandExact' /\ \A u \in Users : Balanced(u)'
<1>1. PICK o \in OrderIds :
        orders[o].status = "none" /\ orders' = [orders EXCEPT ![o] = NewOrder(req[r].user, req[r].amount)]
  BY DEF Create, FirstFree, Exists
<1> DEFINE row == NewOrder(req[r].user, req[r].amount)
<1>2. row.acc = 0 /\ orders[o].acc = 0
  BY <1>1 DEF NewOrder, NoOrder, EarnInv, AloneInv, Good, GoodOrders, Sound
<1> HIDE DEF row
<1>3. orders'[o] = row /\ \A p \in OrderIds : p # o => orders'[p] = orders[p]
  BY <1>1 DEF row, EarnInv, AloneInv, Good, GoodOrders
<1>4. \A p \in OrderIds, u \in Users : Accumulated(p, u)' = Accumulated(p, u)
  BY <1>2, <1>3 DEF Accumulated
<1>5. \A p \in OrderIds : Active(p) => orders'[p] = orders[p]
  BY <1>1, <1>3 DEF Active
<1> QED BY <1>4, <1>5, RequestsEarn DEF Create

(* The hands of a settlement, when the others have none. *)
LEMMA HandsExact ==
  ASSUME EarnInv, NEW s \in Settlers, OthersStay(s), UNCHANGED orders \/ Works(s),
         run'[s].pc \in {"pay", "save"} => run'[s].yield = Yield(orders'[run'[s].id]),
         run'[s].pc = "write" =>
           run'[s].chunk <= Room(orders'[run'[s].id]) /\ orders'[run'[s].id].by = run'[s].to,
         run'[s].pc \notin Filling => run'[s].applied = 0
  PROVE  HandExact'
<1> SUFFICES ASSUME NEW t \in Settlers
             PROVE  /\ run'[t].pc \in {"pay", "save"} => run'[t].yield = Yield(orders'[run'[t].id])
                    /\ run'[t].pc = "write" =>
                         /\ run'[t].chunk <= Room(orders'[run'[t].id])
                         /\ orders'[run'[t].id].by = run'[t].to
                    /\ run'[t].pc \notin Filling => run'[t].applied = 0
  BY DEF HandExact
<1>1. CASE t = s
  BY <1>1
<1>2. CASE t # s /\ UNCHANGED orders
  BY <1>2 DEF OthersStay, EarnInv, HandExact
<1>3. CASE t # s /\ Works(s)
  <2>1. run'[t] = run[t] /\ ~Works(t)
    BY <1>3 DEF OthersStay, EarnInv, AloneInv, Exclusive, AloneAtWork
  <2>2. run[t].pc \notin Hands /\ run[t].pc \notin Filling
    BY <2>1 DEF Works, Hands, Filling
  <2> QED BY <2>1, <2>2 DEF EarnInv, HandExact, Hands
<1> QED BY <1>1, <1>2, <1>3

LEMMA SettlersEarn ==
  ASSUME EarnInv, Good', NEW s \in Settlers, Progresses(s) \/ Lock(s) \/ TryClaim(s) \/ ForceSettle(s)
  PROVE  HandExact' /\ \A u \in Users : Balanced(u)'
<1>g. /\ Good /\ Good' /\ run[s] \in RunState /\ orders \in [OrderIds -> OrderRow]
      /\ (\A o \in OrderIds : Sound(orders[o])) /\ earned \in [Users -> Nat]
      /\ (run[s].pc \in Filling => run[s].to \in Users)
      /\ run[s].applied \in Nat /\ run[s].yield \in Nat /\ run[s].chunk \in Nat
  BY DEF EarnInv, AloneInv, Good, GoodRuns, GoodRun, GoodOrders, GoodRest, RunState, Filling
<1>h. /\ run[s].pc \in {"pay", "save"} =>
           /\ run[s].id \in OrderIds /\ Active(run[s].id) /\ run[s].row = Settled(orders[run[s].id])
           /\ run[s].yield = Yield(orders[run[s].id])
      /\ run[s].pc = "write" =>
           /\ run[s].id \in OrderIds /\ Active(run[s].id)
           /\ run[s].row = Progress(orders[run[s].id], run[s].chunk)
           /\ run[s].chunk <= Room(orders[run[s].id]) /\ orders[run[s].id].by = run[s].to
      /\ run[s].pc \notin Filling => run[s].applied = 0
  BY DEF EarnInv, AloneInv, HandIsFresh, HandExact
<1>1. CASE Elsewhere(s)
  <2>1. /\ OthersStay(s) /\ UNCHANGED orders
        /\ run'[s].pc \notin Hands /\ (run'[s].pc \notin Filling => run'[s].applied = 0)
    BY <1>h, <1>1 DEF Elsewhere
  <2>2. HandExact'
    BY <2>1, HandsExact DEF Hands
  <2>3. ASSUME NEW u \in Users PROVE Balanced(u)'
    <3>1. Uncredited(s, u)' = Uncredited(s, u)
      BY <1>h, <1>1 DEF Elsewhere, Uncredited
    <3>2. Unsaved(s, u) = 0 /\ Unsaved(s, u)' = 0 /\ earned'[u] = earned[u]
      BY <1>1 DEF Elsewhere, Unsaved, Hands
    <3> QED BY <1>g, <2>1, <3>1, <3>2, OwnBalance DEF EarnInv
  <2> QED BY <2>2, <2>3
<1>2. ASSUME NEW o \in OrderIds, Loads(s, o)
      PROVE  HandExact' /\ \A u \in Users : Balanced(u)'
  <2>1. OthersStay(s) /\ UNCHANGED orders
    BY <1>2 DEF Loads
  <2>2. HandExact'
    BY <1>h, <1>2, <2>1, HandsExact DEF Loads, SameFill, Filling
  <2>3. ASSUME NEW u \in Users PROVE Balanced(u)'
    <3>1. Uncredited(s, u)' = Uncredited(s, u)
      BY <1>2 DEF Loads, SameFill, Uncredited
    <3>2. Unsaved(s, u) = 0 /\ earned'[u] = earned[u]
      BY <1>2 DEF Loads, Unsaved
    <3>3. Unsaved(s, u)' = 0
      <4>1. run'[s].pc = "save" => run'[s].yield = 0
        BY <1>g, <1>2, YieldFits DEF Loads, Active
      <4> QED BY <4>1 DEF Unsaved
    <3> QED BY <1>g, <2>1, <3>1, <3>2, <3>3, OwnBalance DEF EarnInv
  <2> QED BY <2>2, <2>3
<1>3. CASE Pays(s)
  <2>1. OthersStay(s) /\ UNCHANGED orders
    BY <1>3 DEF Pays
  <2>2. HandExact'
    BY <1>h, <1>3, <2>1, HandsExact DEF Pays, SameFill, Filling
  <2>3. ASSUME NEW u \in Users PROVE Balanced(u)'
    <3>1. Uncredited(s, u)' = Uncredited(s, u)
      BY <1>3 DEF Pays, SameFill, Uncredited
    <3>2. Unsaved(s, u) = 0 /\ Unsaved(s, u)' = IF run[s].row.by = u THEN run[s].yield ELSE 0
      BY <1>3 DEF Pays, Unsaved
    <3>3. earned'[u] = IF run[s].row.by = u THEN earned[u] + run[s].yield ELSE earned[u]
      BY <1>g, <1>3 DEF Pays
    <3>4. earned'[u] + Uncredited(s, u)' + Unsaved(s, u) = earned[u] + Uncredited(s, u) + Unsaved(s, u)'
      BY <1>g, <3>1, <3>2, <3>3, EarnPartsNat
    <3> QED BY <1>g, <2>1, <3>4, OwnBalance DEF EarnInv
  <2> QED BY <2>2, <2>3
<1>4. CASE Saves(s)
  <2> PICK o, row : o \in OrderIds /\ o = run[s].id /\ row = run[s].row
    BY <1>h, <1>4 DEF Saves
  <2>1. /\ o \in OrderIds /\ Active(o) /\ row = Settled(orders[o]) /\ run[s].yield = Yield(orders[o])
        /\ OthersStay(s) /\ Works(s)
    BY <1>h, <1>4 DEF Saves, Works
  <2>2. HandExact'
    BY <1>h, <1>4, <2>1, HandsExact DEF Saves, SameFill, Filling
  <2>3. row.acc = orders[o].acc + run[s].yield /\ row.by = orders[o].by
    BY <1>g, <2>1, SettledExact, SettledSound DEF Active
  <2>4. orders'[o] = row /\ \A p \in OrderIds : p # o => orders'[p] = orders[p]
    BY <1>g, <1>4, <2>1 DEF Saves
  <2>5. ASSUME NEW u \in Users PROVE Balanced(u)'
    <3>1. Uncredited(s, u)' = Uncredited(s, u) /\ UNCHANGED earned
      BY <1>4 DEF Saves, SameFill, Uncredited
    <3>2. Unsaved(s, u) = (IF row.by = u THEN run[s].yield ELSE 0) /\ Unsaved(s, u)' = 0
      BY <1>4 DEF Saves, Unsaved
    <3>3. Accumulated(o, u)' = Accumulated(o, u) + (IF row.by = u THEN run[s].yield ELSE 0)
      <4>1. orders[o].acc \in Nat
        BY <1>g, <2>1, RowFields
      <4> QED BY <1>g, <2>3, <2>4, <4>1 DEF Accumulated
    <3>4. Uncredited(s, u)' + Unsaved(s, u) + Accumulated(o, u)
            = Uncredited(s, u) + Unsaved(s, u)' + Accumulated(o, u)'
      BY <1>g, <2>1, <3>1, <3>2, <3>3, EarnPartsNat
    <3> QED BY <1>g, <2>1, <2>4, <3>1, <3>4, RowBalance DEF EarnInv
  <2> QED BY <2>2, <2>5
<1>5. ASSUME NEW o \in OrderIds, Fills(s, o)
      PROVE  HandExact' /\ \A u \in Users : Balanced(u)'
  <2>1. OthersStay(s) /\ UNCHANGED orders
    BY <1>5 DEF Fills
  <2>2. Lesser(run[s].left, Room(orders[o])) <= Room(orders[o])
    <3>1. Room(orders[o]) \in Nat /\ run[s].left \in Nat
      BY <1>g, <1>5, YieldFits DEF Fills, Active, RunState
    <3> QED BY <3>1 DEF Lesser
  <2>3. HandExact'
    BY <1>5, <2>1, <2>2, HandsExact DEF Fills, SameFill, Filling
  <2>4. ASSUME NEW u \in Users PROVE Balanced(u)'
    <3>1. Uncredited(s, u)' = Uncredited(s, u)
      BY <1>5 DEF Fills, SameFill, Uncredited
    <3>2. Unsaved(s, u) = 0 /\ Unsaved(s, u)' = 0 /\ earned'[u] = earned[u]
      BY <1>5 DEF Fills, Unsaved
    <3> QED BY <1>g, <2>1, <3>1, <3>2, OwnBalance DEF EarnInv
  <2> QED BY <2>3, <2>4
<1>6. CASE Writes(s)
  <2> PICK o, row : o \in OrderIds /\ o = run[s].id /\ row = run[s].row
    BY <1>h, <1>6 DEF Writes
  <2> PICK c \in Nat : c = run[s].chunk
    BY <1>g
  <2>1. /\ o \in OrderIds /\ Active(o) /\ row = Progress(orders[o], c) /\ c <= Room(orders[o])
        /\ orders[o].by = run[s].to /\ OthersStay(s) /\ Works(s)
    BY <1>h, <1>6 DEF Writes, Works
  <2>2. HandExact'
    BY <1>6, <2>1, HandsExact DEF Writes, Filling
  <2>3. row.acc = orders[o].acc + c /\ row.by = orders[o].by
    BY <1>g, <2>1, ProgressExact, ProgressSound DEF Active
  <2>4. orders'[o] = row /\ \A p \in OrderIds : p # o => orders'[p] = orders[p]
    BY <1>g, <1>6, <2>1 DEF Writes
  <2>5. ASSUME NEW u \in Users PROVE Balanced(u)'
    <3>1. Unsaved(s, u) = 0 /\ Unsaved(s, u)' = 0 /\ UNCHANGED earned
      BY <1>6 DEF Writes, Unsaved
    <3>2. Uncredited(s, u)' = Uncredited(s, u) + IF run[s].to = u THEN c ELSE 0
      BY <1>g, <1>6 DEF Writes, Uncredited
    <3>3. Accumulated(o, u)' = Accumulated(o, u) + IF run[s].to = u THEN c ELSE 0
      <4>1. orders[o].acc \in Nat /\ c \in Nat
        BY <1>g, <2>1, RowFields
      <4> QED BY <2>1, <2>3, <2>4, <4>1 DEF Accumulated
    <3>4. Uncredited(s, u)' + Unsaved(s, u) + Accumulated(o, u)
            = Uncredited(s, u) + Unsaved(s, u)' + Accumulated(o, u)'
      BY <1>g, <2>1, <3>1, <3>2, <3>3, EarnPartsNat
    <3> QED BY <1>g, <2>1, <2>4, <3>1, <3>4, RowBalance DEF EarnInv
  <2> QED BY <2>2, <2>5
<1>7. CASE Credits(s)
  <2>1. OthersStay(s) /\ UNCHANGED orders
    BY <1>7 DEF Credits
  <2>2. HandExact'
    BY <1>7, <2>1, HandsExact DEF Credits
  <2>3. ASSUME NEW u \in Users PROVE Balanced(u)'
    <3>1. /\ Uncredited(s, u) = IF run[s].to = u THEN run[s].applied ELSE 0
          /\ Uncredited(s, u)' = 0
      BY <1>7 DEF Credits, Uncredited
    <3>2. Unsaved(s, u) = 0 /\ Unsaved(s, u)' = 0
      BY <1>7 DEF Credits, Unsaved
    <3>3. earned'[u] = IF run[s].to = u THEN earned[u] + run[s].applied ELSE earned[u]
      BY <1>g, <1>7 DEF Credits
    <3>4. earned'[u] + Uncredited(s, u)' + Unsaved(s, u) = earned[u] + Uncredited(s, u) + Unsaved(s, u)'
      BY <1>g, <3>1, <3>2, <3>3
    <3> QED BY <1>g, <2>1, <3>4, OwnBalance DEF EarnInv
  <2> QED BY <2>2, <2>3
<1> QED BY <1>g, <1>1, <1>2, <1>3, <1>4, <1>5, <1>6, <1>7, SettlerSteps

LEMMA NextEarn ==
  ASSUME Apart, OneAtATime, MaxFailures = 0, EarnInv, [Next]_vars
  PROVE  EarnInv'
<1>g. AloneInv' /\ Good'
  BY NextAlone DEF EarnInv, AloneInv
<1>f. ~Fails
  BY DEF Fails, EarnInv, AloneInv, Good, GoodRest
<1>1. CASE \E r \in Requests : \/ \E u \in Users, a \in Amounts : Subscribe(r, u, a)
                               \/ \E u \in Users : ListTurns(r, u)
                               \/ SubAccountBalance(r)
  <2>1. UNCHANGED <<orders, run, earned>>
    BY <1>1 DEF Subscribe, ListTurns, SubAccountBalance
  <2> QED BY <1>g, <2>1, RequestsEarn DEF EarnInv, Accumulated
<1>2. CASE \E r \in Requests : Create(r) \/ Turn(r)
  BY <1>g, <1>2, CreateEarn, TurnEarn DEF EarnInv
<1>3. CASE \E s \in Settlers : Progresses(s) \/ Lock(s) \/ TryClaim(s) \/ ForceSettle(s)
  BY <1>g, <1>3, SettlersEarn DEF EarnInv
<1>4. CASE NextDay \/ UNCHANGED vars
  <2>1. UNCHANGED <<orders, run, earned>>
    BY <1>4 DEF NextDay, vars
  <2> QED BY <1>g, <2>1, RequestsEarn DEF EarnInv, Accumulated
<1> QED BY <1>f, <1>1, <1>2, <1>3, <1>4 DEF Next, EndRequest, EndSettlement

(* Double entry (ADR 0009) of SettleStatic and creditOrderAcceleration: where one  *)
(* settlement runs at a time, extracts keep away from it and nothing fails between *)
(* two of its statements, what a user's orders accumulated is what they added to   *)
(* his balance, to the last unit, for every number of users, orders and            *)
(* settlements.                                                                    *)
THEOREM EarnedExactly ==
  ASSUME Apart, OneAtATime, MaxFailures = 0
  PROVE  Spec => []EarnedIsAccumulated
<1>1. EarnInv /\ [Next]_vars => EarnInv'
  BY NextEarn
<1>2. EarnInv => EarnedIsAccumulated
  BY DEF EarnInv, Balanced, EarnedIsAccumulated, UncreditedSum, AccumulatedSum, UnsavedSum
<1> QED BY <1>1, <1>2, InitEarn, PTL DEF Spec

-----------------------------------------------------------------------------
(* An extract never raises a rate.  Rates move in whole steps from rate_min as     *)
(* long as rate_max lies on one: the parameters the code ships with do so, but     *)
(* UpdateParams does not ask for it.  Otherwise a rate set back by Rise may lie    *)
(* less than a step above rate_min, and Fall bounces it up.                        *)

Aligned(x) == \E k \in Nat : x = RateMin + k * RateStep

WholeSteps == Aligned(RateMax)

LEMMA AlignedMoves ==
  /\ Aligned(RateMin)
  /\ \A x : Aligned(x) => x \in Nat /\ x >= RateMin /\ Aligned(x + RateStep)
  /\ \A x : Aligned(x) /\ x # RateMin => x - RateStep >= RateMin /\ Aligned(x - RateStep)
<1>1. RateMin \in Nat /\ RateStep \in Nat \ {0}
  BY RulesAssumption
<1>2. \A k \in Nat : k * RateStep \in Nat /\ (k + 1) * RateStep = k * RateStep + RateStep
  BY <1>1
<1>3. 0 * RateStep = 0
  BY <1>1
<1>4. Aligned(RateMin)
  BY <1>1, <1>3 DEF Aligned
<1>5. ASSUME NEW x, Aligned(x) PROVE x \in Nat /\ x >= RateMin /\ Aligned(x + RateStep)
  <2>1. PICK k \in Nat : x = RateMin + k * RateStep
    BY <1>5 DEF Aligned
  <2>2. x + RateStep = RateMin + (k + 1) * RateStep /\ k + 1 \in Nat
    BY <1>1, <1>2, <2>1
  <2>3. x \in Nat /\ x >= RateMin
    BY <1>1, <1>2, <2>1
  <2> QED BY <2>2, <2>3 DEF Aligned
<1>6. ASSUME NEW x, Aligned(x), x # RateMin PROVE x - RateStep >= RateMin /\ Aligned(x - RateStep)
  <2>1. PICK k \in Nat : x = RateMin + k * RateStep
    BY <1>6 DEF Aligned
  <2>2. k # 0
    BY <1>1, <1>3, <1>6, <2>1
  <2>3. PICK j \in Nat : k = j + 1
    <3>1. k - 1 \in Nat /\ k = (k - 1) + 1
      BY <2>2
    <3> QED BY <3>1
  <2>4. k * RateStep = j * RateStep + RateStep /\ j * RateStep \in Nat
    BY <1>2, <2>3
  <2>5. x - RateStep = RateMin + j * RateStep
    BY <1>1, <2>1, <2>4
  <2> QED BY <1>1, <2>4, <2>5 DEF Aligned
<1> QED BY <1>4, <1>5, <1>6

LEMMA FallAligned ==
  ASSUME WholeSteps, NEW rate, Aligned(rate)
  PROVE  Aligned(Fall(rate).rate)
<1>1. rate \in Nat /\ RateMin \in Nat /\ RateMax \in Nat /\ RateStep \in Nat \ {0}
  BY RulesAssumption, AlignedMoves
<1>2. CASE rate - RateStep < RateMin
  <2>1. Fall(rate).rate \in {RateMin + RateStep, RateMax}
    BY <1>2 DEF Fall, AtMostMax
  <2> QED BY <2>1, AlignedMoves DEF WholeSteps
<1>3. CASE ~(rate - RateStep < RateMin)
  <2>1. Fall(rate).rate = rate - RateStep /\ rate # RateMin
    BY <1>1, <1>3 DEF Fall
  <2> QED BY <2>1, AlignedMoves
<1> QED BY <1>2, <1>3

LEMMA RiseAligned ==
  ASSUME WholeSteps, NEW rate, Aligned(rate)
  PROVE  Aligned(Rise(rate).rate)
<1>1. rate \in Nat /\ RateMin \in Nat /\ RateMax \in Nat /\ RateStep \in Nat \ {0}
  BY RulesAssumption, AlignedMoves
<1>2. CASE rate + RateStep > RateMax
  <2>1. Rise(rate).rate = AtLeastMin(RateMax - RateStep)
    BY <1>2 DEF Rise
  <2>2. CASE RateMax - RateStep < RateMin
    BY <2>1, <2>2, AlignedMoves DEF AtLeastMin
  <2>3. CASE ~(RateMax - RateStep < RateMin)
    <3>1. Rise(rate).rate = RateMax - RateStep /\ RateMax # RateMin
      BY <1>1, <2>1, <2>3 DEF AtLeastMin
    <3> QED BY <3>1, AlignedMoves DEF WholeSteps
  <2> QED BY <2>2, <2>3
<1>3. CASE ~(rate + RateStep > RateMax)
  <2>1. Rise(rate).rate = rate + RateStep
    BY <1>3 DEF Rise
  <2> QED BY <2>1, AlignedMoves
<1> QED BY <1>2, <1>3

(* The turn of a settled rate: still on a step, and no higher. *)
LEMMA TurnAligned ==
  ASSUME WholeSteps, NEW last, Aligned(last)
  PROVE  Aligned(ExtractRateTurn(last).rate) /\ ExtractRateTurn(last).rate <= last
<1>1. last \in Nat /\ last >= RateMin /\ RateMin \in Nat /\ RateStep \in Nat \ {0}
  BY RulesAssumption, AlignedMoves
<1>2. CASE last = RateMin
  BY <1>1, <1>2, AlignedMoves DEF ExtractRateTurn
<1>3. CASE last # RateMin
  <2>1. last - RateStep >= RateMin
    BY <1>3, AlignedMoves
  <2>2. ExtractRateTurn(last) = Fall(last) /\ Fall(last).rate = last - RateStep
    BY <1>1, <1>3, <2>1 DEF ExtractRateTurn, Fall
  <2>3. last - RateStep <= last
    BY <1>1
  <2> QED BY <2>2, <2>3, FallAligned
<1> QED BY <1>2, <1>3

Stepped(row) ==
  /\ Aligned(row.rate)
  /\ row.last # NoRate => Aligned(row.last)
  /\ row.pending => row.last # NoRate

TableStepped == \A o \in OrderIds : Stepped(orders[o])

ListStepped ==
  \A r \in Requests : req[r].pc = "turn" =>
    \A o \in OrderIds : req[r].rows[o].status # "none" =>
      Stepped(req[r].rows[o]) /\ req[r].rows[o].last # NoRate

StepInv == AloneInv /\ TableStepped /\ ListStepped

LEMMA SettledStepped ==
  ASSUME WholeSteps, NEW row, Sound(row), row.status = "active", Stepped(row)
  PROVE  Stepped(Settled(row))
<1> DEFINE paid == Progress(row, Yield(row))
           next == AdvanceRate(row.rate, row.dir)
           q == Settled(row)
<1>1. \/ Yield(row) = 0 /\ q = [row EXCEPT !.pending = FALSE, !.last = row.rate]
      \/ q = [paid EXCEPT !.pending = FALSE, !.last = row.rate]
      \/ q = [paid EXCEPT !.pending = FALSE, !.last = row.rate, !.rate = next.rate, !.dir = next.dir]
  BY SettledForms
<1>2. paid \in OrderRow /\ paid.rate = row.rate
  BY YieldFits, ProgressSound DEF Sound
<1>3. Aligned(next.rate) /\ Aligned(row.rate)
  BY RiseAligned, FallAligned DEF AdvanceRate, Stepped
<1>f. row \in OrderRow
  BY DEF Sound
<1> HIDE DEF paid, next, q
<1>4. CASE q = [row EXCEPT !.pending = FALSE, !.last = row.rate]
  <2>1. q.rate = row.rate /\ q.last = row.rate /\ q.pending = FALSE
    BY <1>f, <1>4 DEF OrderRow
  <2> QED BY <1>3, <2>1, AlignedMoves DEF q, Stepped, NoRate
<1>5. CASE q = [paid EXCEPT !.pending = FALSE, !.last = row.rate]
  <2>1. q.rate = row.rate /\ q.last = row.rate /\ q.pending = FALSE
    BY <1>2, <1>5 DEF OrderRow
  <2> QED BY <1>3, <2>1, AlignedMoves DEF q, Stepped, NoRate
<1>6. CASE q = [paid EXCEPT !.pending = FALSE, !.last = row.rate, !.rate = next.rate, !.dir = next.dir]
  <2>1. q.rate = next.rate /\ q.last = row.rate /\ q.pending = FALSE
    BY <1>2, <1>6 DEF OrderRow
  <2> QED BY <1>3, <2>1, AlignedMoves DEF q, Stepped, NoRate
<1> QED BY <1>1, <1>4, <1>5, <1>6

LEMMA TurnedStepped ==
  ASSUME WholeSteps, NEW row, Sound(row), Stepped(row), row.last # NoRate
  PROVE  Stepped(Turned(row))
<1>1. row \in OrderRow
  BY DEF Sound
<1>2. /\ Turned(row).rate = ExtractRateTurn(row.last).rate
      /\ Turned(row).last = row.last
  BY <1>1 DEF Turned, OrderRow
<1> QED BY <1>2, TurnAligned DEF Stepped

(* One row written, stepped as the others are. *)
LEMMA RowStepped ==
  ASSUME Good, TableStepped, NEW o, NEW row, Stepped(row), orders' = [orders EXCEPT ![o] = row]
  PROVE  TableStepped'
<1>1. \A p \in OrderIds : orders'[p] \in {row, orders[p]}
  BY DEF Good, GoodOrders
<1> QED BY <1>1 DEF TableStepped, Stepped

LEMMA NextStepped ==
  ASSUME Apart, OneAtATime, WholeSteps, StepInv, [Next]_vars
  PROVE  StepInv'
<1>g. /\ AloneInv' /\ Good /\ GoodReqs /\ req \in [Requests -> ReqState]
      /\ \A o \in OrderIds : Sound(orders[o]) /\ Stepped(orders[o])
  BY NextAlone DEF StepInv, TableStepped, AloneInv, Good, GoodReqs, GoodOrders
<1>k. UNCHANGED req => ListStepped'
  BY DEF StepInv, ListStepped
<1>t. UNCHANGED orders => TableStepped'
  BY DEF StepInv, TableStepped
<1>i. IdleReq.pc = "idle"
  BY DEF IdleReq
<1>q. ASSUME NEW r \in Requests, NEW q, req' = [req EXCEPT ![r] = q],
             q.pc = "turn" => \A o \in OrderIds : q.rows[o].status # "none" =>
                                Stepped(q.rows[o]) /\ q.rows[o].last # NoRate
      PROVE  ListStepped'
  BY <1>g, <1>q, ReqFields DEF StepInv, ListStepped
<1>1. ASSUME NEW r \in Requests, NEW u, NEW a, Subscribe(r, u, a)
      PROVE  TableStepped' /\ ListStepped'
  <2> DEFINE q == [IdleReq EXCEPT !.pc = "sub", !.user = u, !.amount = a]
  <2>1. q.pc = "sub" /\ req' = [req EXCEPT ![r] = q]
    BY <1>1 DEF IdleReq, Subscribe
  <2> HIDE DEF q
  <2> QED BY <1>1, <1>t, <1>q, <2>1 DEF Subscribe
<1>2. ASSUME NEW r \in Requests, NEW u, ListTurns(r, u)
      PROVE  TableStepped' /\ ListStepped'
  <2> DEFINE rows == [o \in OrderIds |-> IF o \in ToTurn(u) THEN orders[o] ELSE NoOrder]
             q == [IdleReq EXCEPT !.pc = "turn", !.user = u, !.rows = rows]
  <2>1. q.rows = rows /\ req' = [req EXCEPT ![r] = q]
    BY <1>2 DEF IdleReq, ListTurns
  <2>2. \A o \in OrderIds : rows[o].status # "none" => Stepped(rows[o]) /\ rows[o].last # NoRate
    BY <1>g DEF ToTurn, ToBeTurned, Turns, NoOrder
  <2> HIDE DEF q, rows
  <2> QED BY <1>2, <1>t, <1>q, <2>1, <2>2 DEF ListTurns
<1>3. ASSUME NEW r \in Requests, SubAccountBalance(r)
      PROVE  TableStepped' /\ ListStepped'
  <2>1. CASE RequestDone(r)
    BY <1>3, <1>i, <1>t, <1>q, <2>1 DEF SubAccountBalance, RequestDone
  <2>2. CASE req' = [req EXCEPT ![r].pc = "create"]
    <3> DEFINE q == [req[r] EXCEPT !.pc = "create"]
    <3>1. q.pc = "create" /\ req' = [req EXCEPT ![r] = q]
      BY <1>g, <2>2 DEF ReqState
    <3> HIDE DEF q
    <3> QED BY <1>3, <1>t, <1>q, <3>1 DEF SubAccountBalance
  <2> QED BY <1>3, <2>1, <2>2 DEF SubAccountBalance
<1>4. ASSUME NEW r \in Requests, Create(r)
      PROVE  TableStepped' /\ ListStepped'
  <2>1. PICK o, row : orders' = [orders EXCEPT ![o] = row] /\ row = NewOrder(req[r].user, req[r].amount)
    BY <1>4 DEF Create
  <2>2. row.rate = RateMin /\ row.last = NoRate /\ row.pending = FALSE
    BY <2>1 DEF NewOrder, NoOrder
  <2>3. TableStepped'
    BY <1>g, <2>1, <2>2, AlignedMoves, RowStepped DEF StepInv, Stepped
  <2>4. ListStepped'
    BY <1>4, <1>i, <1>q DEF Create, RequestDone
  <2> QED BY <2>3, <2>4
<1>5. ASSUME NEW r \in Requests, EndRequest(r)
      PROVE  TableStepped' /\ ListStepped'
  BY <1>5, <1>i, <1>t, <1>q DEF EndRequest, RequestDone
<1>6. ASSUME NEW r \in Requests, Turn(r)
      PROVE  TableStepped' /\ ListStepped'
  <2>1. PICK o \in Unwritten(r) :
          /\ orders' = [orders EXCEPT ![o] = Turned(req[r].rows[o])]
          /\ RequestDone(r) \/ req' = [req EXCEPT ![r].rows[o] = NoOrder]
    BY <1>6 DEF Turn
  <2>2. /\ o \in OrderIds /\ Stepped(req[r].rows[o]) /\ req[r].rows[o].last # NoRate
        /\ Sound(req[r].rows[o])
    BY <1>6, <1>g DEF Unwritten, Turn, StepInv, ListStepped, GoodReqs, GoodReq
  <2>3. TableStepped'
    <3>1. PICK row : row = Turned(req[r].rows[o]) /\ Stepped(row)
      BY <2>2, TurnedStepped
    <3> QED BY <1>g, <2>1, <3>1, RowStepped DEF StepInv
  <2>4. CASE RequestDone(r)
    BY <1>i, <1>q, <2>3, <2>4 DEF RequestDone
  <2>5. CASE req' = [req EXCEPT ![r].rows[o] = NoOrder]
    <3> DEFINE q == [req[r] EXCEPT !.rows = [req[r].rows EXCEPT ![o] = NoOrder]]
    <3>1. req' = [req EXCEPT ![r] = q]
      BY <2>5
    <3>2. \A p \in OrderIds : q.rows[p] = req[r].rows[p] \/ q.rows[p] = NoOrder
      BY <1>g DEF ReqState
    <3>3. NoOrder.status = "none"
      BY DEF NoOrder
    <3>4. \A p \in OrderIds : q.rows[p].status # "none" => Stepped(q.rows[p]) /\ q.rows[p].last # NoRate
      BY <1>6, <3>2, <3>3 DEF StepInv, ListStepped, Turn
    <3> HIDE DEF q
    <3> QED BY <1>q, <2>3, <3>1, <3>4
  <2> QED BY <2>1, <2>4, <2>5
<1>7. ASSUME NEW s \in Settlers, Progresses(s) \/ Lock(s) \/ TryClaim(s) \/ ForceSettle(s)
      PROVE  TableStepped' /\ ListStepped'
  <2>1. CASE UNCHANGED <<orders, req>>
    BY <1>k, <1>t, <2>1
  <2>2. CASE Saves(s)
    <3>1. PICK o, row : /\ o \in OrderIds /\ o = run[s].id /\ row = run[s].row
                                     /\ row = Settled(orders[o]) /\ Active(o)
      BY <2>2 DEF Saves, StepInv, AloneInv, HandIsFresh
    <3>2. Stepped(row)
      BY <1>g, <3>1, SettledStepped DEF Active
    <3> QED BY <1>g, <1>k, <2>2, <3>1, <3>2, RowStepped DEF Saves, StepInv
  <2>3. CASE Writes(s)
    <3>1. PICK o, row : /\ o \in OrderIds /\ o = run[s].id /\ row = run[s].row
                                     /\ row = Progress(orders[o], run[s].chunk) /\ Active(o)
      BY <2>3 DEF Writes, StepInv, AloneInv, HandIsFresh
    <3>2. run[s].chunk \in Nat
      BY <1>g DEF Good, GoodRuns, RunState
    <3>3. row.rate = orders[o].rate /\ row.last = orders[o].last /\ row.pending = orders[o].pending
      BY <1>g, <3>1, <3>2, ProgressSound DEF Active
    <3>4. Stepped(row)
      BY <1>g, <3>1, <3>3 DEF Stepped
    <3> QED BY <1>g, <1>k, <2>3, <3>1, <3>4, RowStepped DEF Writes, StepInv
  <2> QED BY <1>g, <1>7, <2>1, <2>2, <2>3, SettlerSteps DEF Elsewhere, Loads, Pays, Fills, Credits
<1>8. ASSUME (\E s \in Settlers : EndSettlement(s)) \/ NextDay \/ UNCHANGED vars
      PROVE  TableStepped' /\ ListStepped'
  BY <1>8, <1>k, <1>t DEF EndSettlement, NextDay, vars
<1> QED BY <1>g, <1>1, <1>2, <1>3, <1>4, <1>5, <1>6, <1>7, <1>8 DEF Next, StepInv

LEMMA InitStepped == Init => StepInv
<1> SUFFICES ASSUME Init PROVE StepInv
  OBVIOUS
<1>1. \A o \in OrderIds : orders[o].rate = RateMin /\ orders[o].last = NoRate /\ orders[o].pending = FALSE
  BY DEF Init, FirstOrders, NoOrder, NewOrder
<1>2. \A r \in Requests : req[r].pc = "idle"
  BY DEF Init, IdleReq
<1>3. TableStepped /\ ListStepped
  BY <1>1, <1>2, AlignedMoves DEF TableStepped, ListStepped, Stepped
<1> QED BY <1>3, InitAlone DEF StepInv

(* CONTEXT.md's turn, for every number of users, orders and extracts: where        *)
(* rate_max lies a whole number of steps above rate_min, settlements exclude each  *)
(* other and extracts keep away from them, ApplyExtractRateTurn never sets a rate  *)
(* above the one settled last.                                                     *)
THEOREM TurnedDown ==
  ASSUME Apart, OneAtATime, WholeSteps
  PROVE  Spec => []TurnNeverRaises
<1>1. StepInv /\ [Next]_vars => StepInv'
  BY NextStepped
<1>2. StepInv => TurnNeverRaises
  <2> SUFFICES ASSUME StepInv, NEW o \in OrderIds, Active(o), orders[o].pending
               PROVE  orders[o].rate <= orders[o].last
    BY DEF TurnNeverRaises
  <2>1. orders[o].rate = ExtractRateTurn(orders[o].last).rate
    <3>1. [rate |-> orders[o].rate, dir |-> orders[o].dir] = ExtractRateTurn(orders[o].last)
      BY DEF StepInv, AloneInv, TurnIsOfLast
    <3>2. [rate |-> orders[o].rate, dir |-> orders[o].dir].rate = orders[o].rate
      OBVIOUS
    <3> QED BY <3>1, <3>2
  <2>2. Aligned(orders[o].last)
    BY DEF StepInv, TableStepped, Stepped
  <2> QED BY <2>1, <2>2, TurnAligned
<1> QED BY <1>1, <1>2, InitStepped, PTL DEF Spec

-----------------------------------------------------------------------------
(* What lets an order exit in the end: no settlement of it is in vain.  Its room   *)
(* is a number that every settlement lowers, so an order is over after at most as  *)
(* many settlements as its target has units.  This needs parameters with which the *)
(* smallest order at the lowest rate yields a unit, which no validation asks for.  *)

LeastYields == Scale <= 2 * (MinSubscribe * RateMin)

LEMMA ProductGrows ==
  ASSUME NEW a \in Nat, NEW b \in Nat, NEW c \in Nat, NEW d \in Nat, a <= c, b <= d
  PROVE  a * b <= c * d
<1>1. a * b <= c * b
  <2>1. (c - a) * b \in Nat
    BY Product
  <2> QED BY <2>1
<1>2. c * b <= c * d
  <2>1. c * (d - b) \in Nat
    BY Product
  <2> QED BY <2>1
<1> QED BY <1>1, <1>2, Product

LEMMA YieldPositive ==
  ASSUME LeastYields, NEW a \in Nat, a >= MinSubscribe, NEW r \in Rates
  PROVE  CalcStaticYield(a, r) \in Nat \ {0}
<1> DEFINE p == a * r
           q == MinSubscribe * RateMin
<1>1. r \in Nat /\ RateMin \in Nat /\ MinSubscribe \in Nat /\ RateMin <= r /\ Scale \in Nat \ {0}
  BY RulesAssumption DEF Rates
<1>2. p \in Nat /\ q \in Nat /\ q <= p
  BY <1>1, Product, ProductGrows
<1>3. Scale <= 2 * q
  BY DEF LeastYields
<1>4. CalcStaticYield(a, r) = (p + Scale \div 2) \div Scale
  BY DEF CalcStaticYield, Share
<1> HIDE DEF p, q
<1>5. p + Scale \div 2 >= Scale
  BY <1>1, <1>2, <1>3
<1>6. (p + Scale \div 2) \div Scale >= 1
  BY <1>1, <1>2, <1>5
<1> QED BY <1>1, <1>4, <1>6, YieldNat

(* A row's amount is one that can be subscribed, from its opening on. *)
AmountStands == \A o \in OrderIds : Exists(o) => orders[o].amount \in Amounts

LEMMA AmountsStand ==
  ASSUME AloneInv, AmountStands, Atomic, orders' \in [OrderIds -> OrderRow]
  PROVE  AmountStands'
<1>1. CASE UNCHANGED orders
  BY <1>1 DEF AmountStands, Exists
<1>2. ASSUME NEW o \in OrderIds, NEW row, Becomes(o, row), row.status = "none" \/ row.amount \in Amounts
      PROVE  AmountStands'
  <2>1. orders'[o] = row /\ \A p \in OrderIds \ {o} : orders'[p] = orders[p]
    BY <1>2 DEF Becomes, AloneInv, Good, GoodOrders
  <2> QED BY <1>2, <2>1 DEF AmountStands, Exists
<1>3. ASSUME NEW o \in OrderIds, Active(o), NEW row, Kin(row, orders[o]), Becomes(o, row)
      PROVE  AmountStands'
  BY <1>2, <1>3 DEF Kin, AmountStands, Exists
<1>4. ASSUME NEW o \in OrderIds, Active(o)
      PROVE  Sound(orders[o]) /\ orders[o].status = "active"
  BY <1>4 DEF AloneInv, Good, GoodOrders, Active
<1>5. ASSUME NEW o \in OrderIds, Open(o) \/ SettleOne(o) \/ Accelerate(o) \/ TurnOne(o)
      PROVE  AmountStands'
  <2>1. CASE Open(o)
    <3>1. PICK u \in Users, a \in Amounts : Becomes(o, NewOrder(u, a))
      BY <2>1 DEF Open
    <3>2. NewOrder(u, a).amount = a
      BY DEF NewOrder, NoOrder
    <3> QED BY <1>2, <3>1, <3>2
  <2>2. CASE SettleOne(o)
    <3>1. Active(o) /\ Becomes(o, Settled(orders[o]))
      BY <2>2 DEF SettleOne
    <3>2. Kin(Settled(orders[o]), orders[o])
      BY <1>4, <3>1, WrittenKin
    <3> QED BY <1>3, <3>1, <3>2
  <2>3. CASE Accelerate(o)
    <3>1. PICK c \in 1..Room(orders[o]) : Active(o) /\ Becomes(o, Progress(orders[o], c))
      BY <2>3 DEF Accelerate
    <3>2. c \in Nat
      <4>1. Room(orders[o]) \in Nat
        BY <1>4, <3>1, YieldFits
      <4> QED BY <4>1
    <3>3. Kin(Progress(orders[o], c), orders[o])
      BY <1>4, <3>1, <3>2, WrittenKin
    <3> QED BY <1>3, <3>1, <3>3
  <2>4. CASE TurnOne(o)
    <3>1. Active(o) /\ Becomes(o, Turned(orders[o]))
      BY <2>4 DEF TurnOne, ToBeTurned
    <3>2. Kin(Turned(orders[o]), orders[o])
      BY <1>4, <3>1, WrittenKin
    <3> QED BY <1>3, <3>1, <3>2
  <2> QED BY <1>5, <2>1, <2>2, <2>3, <2>4
<1> QED BY <1>1, <1>5 DEF Atomic, AtomicNext

(* A settlement of a row that yields something raises what it has accumulated. *)
LEMMA SettledPays ==
  ASSUME LeastYields, NEW row, Sound(row), row.status = "active", row.amount \in Amounts
  PROVE  Settled(row).acc > row.acc
<1> DEFINE paid == Progress(row, Yield(row))
           next == AdvanceRate(row.rate, row.dir)
<1>f. row \in OrderRow /\ row.acc \in Nat /\ row.target \in Nat /\ row.acc < row.target /\ row.rate \in Rates
  BY RowFields DEF Sound
<1>1. CalcStaticYield(row.amount, row.rate) \in Nat \ {0}
  BY <1>f, YieldPositive, OrdersAssumption DEF Subscribable
<1>2. Yield(row) \in Nat \ {0}
  BY <1>1, YieldFits DEF Yield, Lesser
<1>3. paid \in OrderRow /\ paid.acc > row.acc
  <2> DEFINE y == Yield(row)
  <2>1. CASE row.acc + y >= row.target
    <3>1. paid = [row EXCEPT !.acc = row.target, !.status = "exited"]
      BY <2>1 DEF Progress, Exited
    <3> QED BY <1>f, <3>1 DEF OrderRow
  <2>2. CASE ~(row.acc + y >= row.target)
    <3>1. paid = [row EXCEPT !.acc = row.acc + y]
      BY <2>2 DEF Progress
    <3>2. row.acc + y \in Nat /\ row.acc + y > row.acc
      BY <1>f, <1>2
    <3> HIDE DEF y, paid
    <3> QED BY <1>f, <3>1, <3>2 DEF OrderRow
  <2> QED BY <2>1, <2>2
<1>4. \/ Settled(row) = [paid EXCEPT !.pending = FALSE, !.last = row.rate]
      \/ Settled(row) = [paid EXCEPT !.pending = FALSE, !.last = row.rate,
                                     !.rate = next.rate, !.dir = next.dir]
  BY <1>2, SettledForms
<1> HIDE DEF paid, next
<1>5. Settled(row).acc = paid.acc
  BY <1>3, <1>4 DEF OrderRow
<1> QED BY <1>3, <1>5

(* Every write of a settlement takes its order nearer to its target. *)
EachSettlementPays ==
  [][\A s \in Settlers : Save(s) => orders'[run[s].id].acc > orders[run[s].id].acc]_vars

(* The order a settlement saves has accumulated more by it, whatever others have   *)
(* done between its reading the row and its writing it: with what ProgressKept says *)
(* of all other steps, the safety half of every order's exit.                      *)
THEOREM SettlementsPay ==
  ASSUME Apart, OneAtATime, LeastYields
  PROVE  Spec => EachSettlementPays
<1>1. Init => AmountStands
  <2> SUFFICES ASSUME Init, NEW o \in OrderIds, Exists(o) PROVE orders[o].amount \in Amounts
    BY DEF AmountStands
  <2>1. FirstOrders
    BY DEF Init
  <2>2. CASE o \in DOMAIN Placed
    <3>1. Placed[o].by \in Users /\ Placed[o].amount \in Amounts
      BY <2>2, OrdersAssumption
    <3>2. orders[o] = NewOrder(Placed[o].by, Placed[o].amount)
      BY <2>1, <2>2 DEF FirstOrders
    <3> QED BY <3>1, <3>2 DEF NewOrder, NoOrder
  <2>3. CASE o \notin DOMAIN Placed
    BY <2>1, <2>3 DEF FirstOrders, Exists, NoOrder
  <2> QED BY <2>2, <2>3
<1>2. AloneInv /\ AmountStands /\ [Next]_vars => AloneInv' /\ AmountStands'
  <2> SUFFICES ASSUME AloneInv, AmountStands, [Next]_vars PROVE AloneInv' /\ AmountStands'
    OBVIOUS
  <2>1. AloneInv' /\ Atomic
    BY NextAlone
  <2>2. orders' \in [OrderIds -> OrderRow]
    BY <2>1 DEF AloneInv, Good, GoodOrders
  <2> QED BY <2>1, <2>2, AmountsStand
<1>3. ASSUME AloneInv, AmountStands, NEW s \in Settlers, Save(s)
      PROVE  orders'[run[s].id].acc > orders[run[s].id].acc
  <2> DEFINE o   == run[s].id
             old == orders[o]
             row == run[s].row
  <2>1. o \in OrderIds /\ old.status = "active" /\ row = Settled(old)
    BY <1>3 DEF Save, AloneInv, HandIsFresh, Active
  <2>2. Sound(old) /\ orders \in [OrderIds -> OrderRow]
    BY <1>3, <2>1 DEF AloneInv, Good, GoodOrders
  <2>3. old.amount \in Amounts
    BY <1>3, <2>1 DEF AmountStands, Exists
  <2>4. row.acc > old.acc
    <3> HIDE DEF old, row
    <3> QED BY <2>1, <2>2, <2>3, SettledPays
  <2>5. orders' = [orders EXCEPT ![o] = row]
    BY <1>3 DEF Save
  <2>6. orders'[o] = row
    <3> HIDE DEF row
    <3> QED BY <2>1, <2>2, <2>5
  <2> QED BY <2>4, <2>6
<1>4. AloneInv /\ AmountStands /\ [Next]_vars =>
        [\A s \in Settlers : Save(s) => orders'[run[s].id].acc > orders[run[s].id].acc]_vars
  BY <1>3
<1> QED
  BY <1>1, <1>2, <1>4, InitAlone, PTL DEF Spec, EachSettlementPays
=============================================================================
