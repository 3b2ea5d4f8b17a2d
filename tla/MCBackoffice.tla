----------------------------- MODULE MCBackoffice -----------------------------
(* Small instances of what surrounds orders and extracts.  The components here  *)
(* share no state, so a behaviour follows one of them, its scene, from the      *)
(* beginning; Accounts is seen in two scenes, each with the requests it is for. *)
EXTENDS Accounts, Levels, Balances, Params, Reports, Rules, TLC

CONSTANTS
  Scenes,             \* the components to look at
  addr1, addr2, addr3,  \* addresses
  run1, run2          \* goroutines, whatever they do in a scene

VARIABLE scene

-----------------------------------------------------------------------------
\* Values of subscribe_tiers with up to three parts.
ShortTexts == UNION {[1..n -> {Blank, Bad, -1, 0, 1, 2, 3}] : n \in 0..3}

\* Tables with one or two multiplier tiers and rows of some levels, a value in each or none.
SmallTables ==
  UNION {[Rows(n, levels) -> {"x", Empty}] : n \in 1..2, levels \in {{1}, {2}, {1, 2}}}

\* In whole USDT, less than WeiPerUSDT: nobody has 10^18 of them.
SmallPayments == {p \in [whole : 0..12, rest : 0..9, wei : BOOLEAN] : p.wei \/ p.whole < WeiPerUSDT}

\* Any rates of three levels, also where a higher level has a lower one.
AnyRates == [1..3 -> 0..3]

\* k1 takes x and y, k2 only x
ValidValues == [k \in Keys |-> IF k = "k1" THEN {"x", "y"} ELSE {"x"}]
AllX == [k \in Keys |-> "x"]

Requested == {-1, 0, 1, 2, NoSum}

Kin == 1..4

\* Two earnings and three tables.
FiveKinds == {"user", "order", "withdraw", "static", "peer"}

-----------------------------------------------------------------------------
\* Registrations, at most one each of two addresses under the first and one under another, against one
\* lock of a whole line; no login, no clock, and faults only where they cut a path.
Registry ==
  /\ now' = now /\ challenges' = challenges
  /\ \A v \in Visits : visit[v].pc = "idle" /\ visit'[v].pc = "find" =>
       /\ FindByAddress(visit'[v].addr) = {}
       /\ \A w \in Visits : visit[w].addr # visit'[v].addr
       /\ <<visit'[v].addr, visit'[v].code>> \in {<<addr1, NoCode>>, <<addr2, addr1>>, <<addr3, addr1>>, <<addr3, addr2>>}
  /\ visit' # visit /\ faults' # faults => cut' # cut
  /\ visit' = visit /\ users' # users => line.pc = "lock"
  /\ line.pc = "idle" /\ line'.pc = "list" => line'.lock /\ \A u \in Users : ~users[u].disabled

\* Logins with and without a challenge of the first user and of one nobody invites, against the clock and
\* locks of his account.
Sessions ==
  /\ line' = line /\ faults' = faults
  /\ \A v \in Visits : visit'[v].addr \in {addr1, addr2, NoCode} /\ visit'[v].code = NoCode

\* Somebody looks through a list, or at the dashboard, not both.
OneReader == board' = NoBoard \/ walk' = NoWalk

rest(vars) == UNCHANGED <<scene, vars>>

RegistryStep ==
  /\ scene = "registry" /\ AccountsNext /\ Registry
  /\ rest(<<levelVars, balanceVars, paramVars, reportVars, ruleVars>>)
SessionsStep ==
  /\ scene = "sessions" /\ AccountsNext /\ Sessions
  /\ rest(<<levelVars, balanceVars, paramVars, reportVars, ruleVars>>)
LevelsStep ==
  /\ scene = "levels" /\ LevelsNext
  /\ rest(<<accountVars, balanceVars, paramVars, reportVars, ruleVars>>)
BalancesStep ==
  /\ scene = "balances" /\ BalancesNext
  /\ rest(<<accountVars, levelVars, paramVars, reportVars, ruleVars>>)
ParamsStep ==
  /\ scene = "params" /\ ParamsNext
  /\ rest(<<accountVars, levelVars, balanceVars, reportVars, ruleVars>>)
ReportsStep ==
  /\ scene = "reports" /\ ReportsNext /\ OneReader
  /\ rest(<<accountVars, levelVars, balanceVars, paramVars, ruleVars>>)
RulesStep ==
  /\ scene = "rules" /\ RulesNext
  /\ rest(<<accountVars, levelVars, balanceVars, paramVars, reportVars>>)

FirstRules == asked = [about |-> "tiers", text |-> <<>>] /\ answer = Unanswered
FirstReports == rows = {} /\ writing = {} /\ day = 0 /\ walk = NoWalk /\ board = NoBoard

Init ==
  /\ scene \in Scenes
  /\ AccountsInit /\ LevelsInit /\ BalancesInit
  /\ IF scene = "params" THEN ParamsInit ELSE ParamsInit /\ provisioned = TRUE
  /\ IF scene = "reports" THEN ReportsInit ELSE FirstReports
  /\ IF scene = "rules" THEN RulesInit ELSE FirstRules

Next ==
  \/ RegistryStep \/ SessionsStep \/ LevelsStep \/ BalancesStep \/ ParamsStep \/ ReportsStep \/ RulesStep

Spec ==
  Init /\ [][Next]_<<scene, accountVars, levelVars, balanceVars, paramVars, reportVars, ruleVars>>

Interchangeable == Permutations({run1, run2})

-----------------------------------------------------------------------------
\* Each variable has its type.
BackofficeTypeOK ==
  /\ AccountsTypeOK /\ LevelsTypeOK /\ BalancesTypeOK
  /\ ParamsTypeOK /\ ReportsTypeOK /\ RulesTypeOK
=============================================================================
