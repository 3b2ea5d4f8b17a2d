----------------------------- MODULE OrderRules -----------------------------
(***************************************************************************)
(* The arithmetic of subscription orders (biz/rate.go, biz/generation.go,  *)
(* the chunks of biz/record.go).  Money is counted in its smallest unit,   *)
(* and every rate is a fraction of Scale.  The parameters are the ones     *)
(* GetActiveParams returns; an operation is taken to see one version of    *)
(* them.                                                                   *)
(***************************************************************************)
EXTENDS Integers, Sequences, FiniteSetsExt

CONSTANTS
  Scale,          \* the rate 100 %
  RateMin,        \* rate_min, rate_max, rate_step of the daily static rate
  RateMax,
  RateStep,
  MinSubscribe,   \* min_subscribe_amount
  Tiers,          \* multiplier tiers, in order; below = 0 stands for no upper limit
  GenRate,        \* generation_rate
  MaxGeneration   \* max_generation_depth

ASSUME RulesAssumption ==
  /\ Scale \in Nat \ {0} /\ RateMin \in Nat /\ RateMax \in Nat /\ RateStep \in Nat \ {0}
  /\ RateMin <= RateMax
  /\ MinSubscribe \in Nat \ {0}
  /\ Tiers \in Seq([below : Nat, times : Nat \ {0}])
  /\ GenRate \in Nat /\ MaxGeneration \in Nat

Rates  == RateMin..RateMax
NoRate == -1   \* last_settled_rate of an order never settled

(* decimal.Round of amount * rate: half away from zero, in the smallest unit. *)
Share(amount, rate) == (amount * rate + Scale \div 2) \div Scale

Lesser(a, b) == IF a <= b THEN a ELSE b

(* MultiplierForAmount: the first tier whose limit the amount stays below. *)
TiersFor(amount) == {i \in DOMAIN Tiers : Tiers[i].below = 0 \/ amount < Tiers[i].below}
Subscribable(amount) == amount >= MinSubscribe /\ TiersFor(amount) # {}
ExitTarget(amount) == amount * Tiers[Min(TiersFor(amount))].times

AtLeastMin(rate) == IF rate < RateMin THEN RateMin ELSE rate
AtMostMax(rate)  == IF rate > RateMax THEN RateMax ELSE rate

(* Mutation: only the direction turns at the upper bound. *)
RisePast(rate) ==
  [rate |-> rate + RateStep, dir |-> IF rate + RateStep >= RateMax THEN "down" ELSE "up"]

(* AdvanceRate: one day up or down, turning at the bounds. *)
Rise(rate) ==
  IF rate + RateStep > RateMax
  THEN [rate |-> AtLeastMin(RateMax - RateStep), dir |-> "down"]
  ELSE [rate |-> rate + RateStep, dir |-> IF rate + RateStep = RateMax THEN "down" ELSE "up"]

Fall(rate) ==
  IF rate - RateStep < RateMin
  THEN [rate |-> AtMostMax(RateMin + RateStep), dir |-> "up"]
  ELSE [rate |-> rate - RateStep, dir |-> IF rate - RateStep = RateMin THEN "up" ELSE "down"]

AdvanceRate(rate, dir) == IF dir = "up" THEN Rise(rate) ELSE Fall(rate)

(* ApplyExtractRateTurn: from the rate of the last settlement one step down, or    *)
(* back to the start of the cycle; orders on their way down do not turn.           *)
Turns(dir, last) == dir = "up" /\ last # NoRate
TurnAtMin(last) == Fall(last)   \* mutation: the lowest rate bounces

ExtractRateTurn(last) == IF last = RateMin THEN [rate |-> RateMin, dir |-> "up"] ELSE Fall(last)

CalcStaticYield(amount, rate) == Share(amount, rate)
CalcGenerationReward(yield)   == Share(yield, GenRate)

(* CanEarnGeneration: as many generations as effective direct referrals, up to the *)
(* maximum.                                                                        *)
UnlockedGenerations(directs) == IF directs > MaxGeneration THEN MaxGeneration ELSE directs
CanEarnGeneration(directs, depth) == depth \in 1..UnlockedGenerations(directs)
=============================================================================
