---------------------------- MODULE AtomicOrders ----------------------------
(***************************************************************************)
(* Orders as the business rules speak of them: an order is opened, settled *)
(* once a day, accelerated by the rewards of others and turned by an       *)
(* extract, each of these at once and on the row as it stands.  The code   *)
(* does none of them at once (Orders): it reads a row, decides, pays, and  *)
(* writes every column back.                                               *)
(***************************************************************************)
EXTENDS Community

CONSTANTS
  MaxOrders,      \* bound: rows of locations (ids 1..MaxOrders)
  Amounts,        \* amounts subscribed
  Placed          \* orders placed before: their owners and amounts

VARIABLE orders   \* the locations table

OrderIds == 1..MaxOrders

NoOrder == [by |-> NoUser, amount |-> 0, target |-> 0, acc |-> 0, status |-> "none",
            rate |-> RateMin, dir |-> "up", pending |-> FALSE, last |-> NoRate]

NewOrder(u, a) ==
  [NoOrder EXCEPT !.by = u, !.amount = a, !.target = ExitTarget(a), !.status = "active"]

Active(o) == orders[o].status = "active"
Exists(o) == orders[o].status # "none"

FirstOrders ==
  orders = [o \in OrderIds |-> IF o \in DOMAIN Placed THEN NewOrder(Placed[o].by, Placed[o].amount)
                               ELSE NoOrder]

-----------------------------------------------------------------------------
(* What becomes of a row. *)

(* What is left to pay, and the yield of a day. *)
Room(row)  == row.target - row.acc
Yield(row) == Lesser(CalcStaticYield(row.amount, row.rate), Room(row))

Exited(row) == [row EXCEPT !.acc = row.target, !.status = "exited"]

(* Mutation: an order that just reached its target stays active. *)
ProgressUnclosed(row, amount) ==
  IF row.acc + amount > row.target THEN Exited(row) ELSE [row EXCEPT !.acc = @ + amount]

(* Progress by `amount`, and the exit at the target. *)
Progress(row, amount) ==
  IF row.acc + amount >= row.target THEN Exited(row) ELSE [row EXCEPT !.acc = @ + amount]

(* A day: the yield, the end of a turn, and the rate of the next day. *)
Settled(row) ==
  LET paid == Progress(row, Yield(row))
      next == AdvanceRate(row.rate, row.dir)
  IN  CASE Room(row) <= 0 -> [row EXCEPT !.status = "exited", !.pending = FALSE]
        [] Room(row) > 0 /\ Yield(row) <= 0 -> [row EXCEPT !.pending = FALSE, !.last = row.rate]
        [] Room(row) > 0 /\ Yield(row) > 0 /\ paid.status = "exited" ->
             [paid EXCEPT !.pending = FALSE, !.last = row.rate]
        [] OTHER -> [paid EXCEPT !.pending = FALSE, !.last = row.rate,
                                 !.rate = next.rate, !.dir = next.dir]

(* Mutation: the turn starts from the order's current rate. *)
TurnedFromCurrent(row) ==
  LET t == ExtractRateTurn(row.rate) IN [row EXCEPT !.rate = t.rate, !.dir = t.dir, !.pending = TRUE]

Turned(row) ==
  LET t == ExtractRateTurn(row.last) IN [row EXCEPT !.rate = t.rate, !.dir = t.dir, !.pending = TRUE]

(* An extract turns an order on its way up that it has not turned since its last   *)
(* settlement.                                                                     *)
ToBeTurned(o) == Active(o) /\ ~orders[o].pending /\ Turns(orders[o].dir, orders[o].last)

-----------------------------------------------------------------------------
Becomes(o, row) == orders' = [orders EXCEPT ![o] = row]

FirstFree(o) == ~Exists(o) /\ \A j \in 1..(o - 1) : Exists(j)

Open(o)       == FirstFree(o) /\ \E u \in Users, a \in Amounts : Becomes(o, NewOrder(u, a))
SettleOne(o)  == Active(o) /\ Becomes(o, Settled(orders[o]))
Accelerate(o) == Active(o) /\ \E c \in 1..Room(orders[o]) : Becomes(o, Progress(orders[o], c))
TurnOne(o)    == ToBeTurned(o) /\ Becomes(o, Turned(orders[o]))

Changes(o) == orders'[o] # orders[o]

AtomicNext ==
  \E o \in OrderIds : Changes(o) /\ (Open(o) \/ SettleOne(o) \/ Accelerate(o) \/ TurnOne(o))

AtomicSpec == FirstOrders /\ [][AtomicNext]_orders
=============================================================================
