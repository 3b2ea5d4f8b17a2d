-------------------------------- MODULE Rules --------------------------------
(***************************************************************************)
(* Pure rules of the back office against what they are meant to compute:   *)
(* the parsing of subscribe_tiers, the passage between business parameters *)
(* and rows of business_configs, the unit of a deposit, and the gap rates  *)
(* of Community under any rates an administrator may enter.  A behaviour   *)
(* asks one question and gets the answer the code computes.                *)
(***************************************************************************)
EXTENDS Integers, Sequences, FiniteSets, SequencesExt

CONSTANTS
  Texts,            \* values of subscribe_tiers: sequences of integers, Blank and Bad
  Blank, Bad,       \* nothing between two commas; what is no number
  Tables,           \* tables of business_configs
  Empty,            \* the empty value
  MaxMultipliers,   \* how many multiplier tiers Aggregate looks for
  TopLevel,         \* the highest community level
  WeiPerUSDT,
  Payments,         \* deposits: whole USDT, a remainder in wei, the unit it is reported in
  Chain,            \* users who invited each other: each n invited n + 1
  LevelRates,       \* rates of the community levels, in any order
  Refused, Unanswered

VARIABLES asked, answer

ruleVars == <<asked, answer>>

-----------------------------------------------------------------------------
(* subscribe_tiers *)

\* Mutation: amounts that are there already are taken again.
ReadAgain(out, token) ==
  IF out = Refused \/ token = Blank THEN out
  ELSE IF token = Bad \/ token <= 0 THEN Refused
  ELSE Append(out, token)

ReadTier(out, token) ==
  IF out = Refused \/ token = Blank THEN out
  ELSE IF token = Bad \/ token <= 0 THEN Refused
  ELSE IF token \in Range(out) THEN out ELSE Append(out, token)

\* The amounts in the order in which they come first.
Mentioned(text) ==
  LET out[n \in 0..Len(text)] == IF n = 0 THEN <<>> ELSE ReadTier(out[n - 1], text[n])
  IN  out[Len(text)]

Exchanged(s, i, j) == IF s[j] < s[i] THEN [s EXCEPT ![i] = s[j], ![j] = s[i]] ELSE s

\* The inner loop of the sort, from i + 1 on, and the outer one.
Pass(s, i) ==
  LET t[j \in 0..Len(s)] == IF j <= i THEN s ELSE Exchanged(t[j - 1], i, j)
  IN  t[Len(s)]

Passes(s) ==
  LET t[i \in 0..Len(s)] == IF i = 0 THEN s ELSE Pass(t[i - 1], i)
  IN  t[Len(s)]

ParseSubscribeTiers(text) ==
  LET out == Mentioned(text) IN IF out = Refused THEN Refused ELSE Passes(out)

-----------------------------------------------------------------------------
(* Rows of business_configs: a table maps the keys it has to values.  One  *)
(* key, "plain", stands for those that are not tiers.                      *)

Key(name, n) == <<name, n>>
HasTier(m, names, n) == \E name \in names : Key(name, n) \in DOMAIN m
Multiplier == {"lt", "multiplier"}
CommunityTier == {"min_volume", "rate"}

\* The rows of n multiplier tiers and of some levels.
Rows(n, levels) ==
  {Key("plain", 0)} \cup {Key(name, i) : name \in Multiplier, i \in 1..n}
    \cup {Key(name, l) : name \in CommunityTier, l \in levels}

\* The tiers before the first number the table has no row of.
MultiplierTiers(m) ==
  {i \in 1..MaxMultipliers : \A j \in 1..i : HasTier(m, Multiplier, j)}
CommunityLevels(m) == {l \in 1..TopLevel : HasTier(m, CommunityTier, l)}

\* A multiplier must have a value, and a level both of its rows.
Complete(m) ==
  /\ \A i \in MultiplierTiers(m) : Key("multiplier", i) \in DOMAIN m /\ m[Key("multiplier", i)] # Empty
  /\ \A l \in CommunityLevels(m) : \A name \in CommunityTier : Key(name, l) \in DOMAIN m

\* Mutation: the tier without a limit is taken for the end of the tiers.
AggregateToLimit(m) ==
  IF ~Complete(m) THEN Refused
  ELSE [plain |-> m[Key("plain", 0)],
        multipliers |-> [i \in {j \in MultiplierTiers(m) : m[Key("lt", j)] # Empty} |->
                           [lt |-> m[Key("lt", i)], multiplier |-> m[Key("multiplier", i)]]],
        communities |-> [l \in CommunityLevels(m) |->
                           [min_volume |-> m[Key("min_volume", l)], rate |-> m[Key("rate", l)]]]]

AggregateBusinessParams(m) ==
  IF ~Complete(m) THEN Refused
  ELSE [plain |-> m[Key("plain", 0)],
        multipliers |-> [i \in MultiplierTiers(m) |->
                           [lt |-> IF Key("lt", i) \in DOMAIN m THEN m[Key("lt", i)] ELSE Empty,
                            multiplier |-> m[Key("multiplier", i)]]],
        communities |-> [l \in CommunityLevels(m) |->
                           [min_volume |-> m[Key("min_volume", l)], rate |-> m[Key("rate", l)]]]]

FlattenBusinessParams(p) ==
  LET keys == {Key("plain", 0)} \cup {Key(name, i) : name \in Multiplier, i \in DOMAIN p.multipliers}
                \cup {Key(name, l) : name \in CommunityTier, l \in DOMAIN p.communities}
  IN [k \in keys |-> IF k[1] = "plain" THEN p.plain
                     ELSE IF k[1] \in Multiplier THEN p.multipliers[k[2]][k[1]]
                     ELSE p.communities[k[2]][k[1]]]

-----------------------------------------------------------------------------
(* Deposits and rewards *)

\* Mutation: exactly one USDT in wei is taken for whole USDT.
AmountAbove(v) == IF v > WeiPerUSDT THEN v \div WeiPerUSDT ELSE v

\* An integer of 10^18 or more is wei, a smaller one whole USDT.
AmountAsUSDT(v) == IF v >= WeiPerUSDT THEN v \div WeiPerUSDT ELSE v

Reported(payment) == IF payment.wei THEN payment.whole * WeiPerUSDT + payment.rest ELSE payment.whole

\* Community over the chain and the rates it is asked about.
Rewards == INSTANCE Community WITH
  Users <- Chain, NoUser <- 0, Inviter <- [u \in Chain |-> u - 1],
  CommunityTiers <- [l \in DOMAIN asked.rates |-> [volume |-> l, rate |-> asked.rates[l]]],
  MinPeerLevel <- 0, PeerRate <- 0, Scale <- 1, RateMin <- 0, RateMax <- 0, RateStep <- 1,
  MinSubscribe <- 1, Tiers <- <<>>, GenRate <- 0, MaxGeneration <- 0

Source == Max(Chain)

-----------------------------------------------------------------------------
\* A text is split at its commas.  A table has the rows it was seeded with, the same for every tier and
\* level it has; a deposit in whole USDT is less than 10^18 of them.  People are numbered in the order
\* in which they were invited, and there is a rate for every level.
ASSUME RulesAssumption ==
  /\ {Blank, Bad} \cap Int = {} /\ Blank # Bad /\ Refused \notin Seq(Int)
  /\ Texts \subseteq Seq(Int \cup {Blank, Bad})
  /\ MaxMultipliers \in Nat
  /\ \A m \in Tables : \E n \in 1..MaxMultipliers, levels \in (SUBSET (1..TopLevel)) \ {{}} :
       m \in [Rows(n, levels) -> Range(m)]
  /\ WeiPerUSDT \in Nat \ {0}
  /\ Payments \subseteq {p \in [whole : Nat, rest : 0..(WeiPerUSDT - 1), wei : BOOLEAN] :
                        p.wei \/ p.whole < WeiPerUSDT}
  /\ TopLevel \in 1..9
  /\ Chain \subseteq Nat \ {0} /\ \E n \in Chain : Chain = 1..n
  /\ LevelRates \subseteq [1..TopLevel -> Nat]

RulesInit ==
  /\ answer = Unanswered
  /\ \/ asked \in [about : {"tiers"}, text : Texts]
     \/ asked \in [about : {"config"}, table : Tables]
     \/ asked \in [about : {"deposit"}, payment : Payments]
     \/ \E level \in [Chain \ {Source} -> 0..TopLevel] :
          asked \in [about : {"rewards"}, rates : LevelRates, level : {level}]

\* CompatSubscribeTiers.
SubscribeTiers ==
  /\ answer = Unanswered /\ asked.about = "tiers"
  /\ answer' = ParseSubscribeTiers(asked.text) /\ UNCHANGED asked

Configure ==
  /\ answer = Unanswered /\ asked.about = "config"
  /\ answer' = AggregateBusinessParams(asked.table) /\ UNCHANGED asked

\* What a user's deposit is taken for.
Paid ==
  /\ answer = Unanswered /\ asked.about = "deposit"
  /\ answer' = AmountAsUSDT(Reported(asked.payment)) /\ UNCHANGED asked

\* The gap rate of everybody above the last of the chain, on a yield of his.
Reward ==
  /\ answer = Unanswered /\ asked.about = "rewards"
  /\ answer' = [u \in Chain \ {Source} |-> Rewards!GapRate(Source, u, asked.level)]
  /\ UNCHANGED asked

RulesNext == SubscribeTiers \/ Configure \/ Paid \/ Reward

RulesSpec == RulesInit /\ [][RulesNext]_ruleVars

-----------------------------------------------------------------------------
Answered(about) == asked.about = about /\ answer # Unanswered

RulesTypeOK == asked.about \in {"tiers", "config", "deposit", "rewards"}

\* subscribe_tiers: the amounts in it, each once and in order; refused if any is not a positive number.
TiersParsed ==
  Answered("tiers") =>
    LET amounts == Range(asked.text) \ {Blank}
    IN IF \E t \in amounts : t = Bad \/ t <= 0 THEN answer = Refused
       ELSE /\ Range(answer) = amounts
            /\ \A i, j \in DOMAIN answer : i < j => answer[i] < answer[j]

\* No row of the table is lost on the way to the parameters that are made active and back to rows, as
\* Save and ListConfigs make them; what is refused has a multiplier without a value.
ConfigRoundTrip ==
  Answered("config") =>
    \/ answer = Refused /\ \E k \in DOMAIN asked.table : k[1] = "multiplier" /\ asked.table[k] = Empty
    \/ FlattenBusinessParams(answer) = asked.table

\* A deposit counts for the whole USDT it is, whether it is reported in USDT or in wei, unless it is
\* less than one USDT in wei.
AmountExact ==
  Answered("deposit") /\ ~(asked.payment.wei /\ asked.payment.whole = 0) => answer = asked.payment.whole

ReadsExactly == TiersParsed /\ ConfigRoundTrip /\ AmountExact

\* All that is paid on one yield is never more than the highest rate, at any levels of the people above,
\* when a higher level has no lower rate.  Nothing in the code checks the rates for that, and without it
\* more may be paid.
GapWithinTop ==
  LET ordered == \A l, k \in DOMAIN asked.rates : l <= k => asked.rates[l] <= asked.rates[k]
      gap == [u \in DOMAIN answer |-> Max({0, answer[u]})]
  IN Answered("rewards") /\ ordered =>
       SumFunctionOnSet(gap, DOMAIN answer) <= Max(Range(asked.rates))
=============================================================================
