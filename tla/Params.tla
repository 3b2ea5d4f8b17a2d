------------------------------- MODULE Params -------------------------------
(***************************************************************************)
(* Business parameters: the rows of business_configs and the copy each     *)
(* process works with.  A process loads its copy when it starts and again  *)
(* after each update of its own; nothing tells it of the updates of others.*)
(* An update lists the rows, validates them with the new value in place,   *)
(* writes one row, and loads what the table holds by then (UpdateConfig).  *)
(* Loading seeds an empty table with the defaults first, and answers with  *)
(* the defaults when a read fails (Get).                                   *)
(*                                                                         *)
(* A value is valid or not by itself, as ValidateBusinessParams compares   *)
(* no two of them.  Display names are left out.                            *)
(***************************************************************************)
EXTENDS Integers

CONSTANTS
  Keys,         \* config_key of the rows
  NoKey,        \* the key of no row
  Values,       \* what an administrator may enter
  Valid,        \* of each key, the values that pass validation
  Default,      \* of each key, its default
  Processes,
  Jobs,         \* goroutines that start a process or update a row
  NoProcess,
  MaxUpdates,   \* bound: rows written
  MaxErrors     \* bound: statements that fail and processes that end

ASSUME ParamsAssumption ==
  /\ Keys # {} /\ Valid \in [Keys -> SUBSET Values]
  /\ Default \in [Keys -> Values] /\ \A k \in Keys : Default[k] \in Valid[k]
  /\ NoProcess \notin Processes
  /\ MaxUpdates \in Nat /\ MaxErrors \in Nat

VARIABLES
  table,        \* the rows of business_configs
  seeded,       \* there are rows
  active,       \* activeParams of each process
  started,      \* the processes that have loaded theirs
  job,          \* the state of each goroutine
  updates,      \* rows written so far
  errors,       \* faults so far
  provisioned,  \* history: the table had its rows from the beginning, by scripts/schema.sql
  wanted,       \* history: of each key, the value last written
  behind        \* history: processes whose copy was made before a write they did not reload for

paramVars == <<table, seeded, active, started, job, updates, errors, provisioned, wanted, behind>>

NoJob == [pc |-> "idle", at |-> NoProcess, updating |-> FALSE, key |-> CHOOSE k \in Keys : TRUE,
          value |-> CHOOSE v \in Values : TRUE, map |-> Default, stale |-> FALSE]

ParamsInit ==
  /\ provisioned \in BOOLEAN
  /\ seeded = provisioned
  /\ table = Default /\ wanted = Default
  /\ active = [p \in Processes |-> Default] /\ started = {}
  /\ job = [j \in Jobs |-> NoJob]
  /\ updates = 0 /\ errors = 0
  /\ behind = {}

Idle(p) == \A j \in Jobs : job[j].at # p

\* A process starts: provideRepos loads its parameters before it serves anything.
Boot(j, p) ==
  /\ job[j].pc = "idle" /\ p \notin started /\ Idle(p)
  /\ job' = [job EXCEPT ![j] = [NoJob EXCEPT !.pc = "count", !.at = p]]
  /\ UNCHANGED <<table, seeded, active, started, updates, errors, provisioned, wanted, behind>>

\* An administrator changes a value.
UpdateConfig(j, p, k, v) ==
  /\ job[j].pc = "idle" /\ p \in started
  /\ job' = [job EXCEPT ![j] = [NoJob EXCEPT !.pc = "count", !.at = p, !.updating = TRUE,
                                             !.key = k, !.value = v]]
  /\ UNCHANGED <<table, seeded, active, started, updates, errors, provisioned, wanted, behind>>

\* The console names a row by its id; 0 is none.
CompatAdminConfigUpdate(j, p, k, v) == k # NoKey /\ UpdateConfig(j, p, k, v)
AdminUpdateConfig(j, p, k, v) == k # NoKey /\ UpdateConfig(j, p, k, v)

\* After seedIfEmpty, an update goes on to ListConfigs and a load to loadMap.
Seeded(j) == IF job[j].updating THEN "list" ELSE "load"

\* Mutation: the rows are not counted, and a start always writes the defaults.
CountNothing(j) ==
  /\ job[j].pc = "count"
  /\ job' = [job EXCEPT ![j].pc = "seed"]
  /\ UNCHANGED <<table, seeded, active, started, updates, errors, provisioned, wanted, behind>>

CountRows(j) ==
  /\ job[j].pc = "count"
  /\ job' = [job EXCEPT ![j].pc = IF seeded THEN Seeded(j) ELSE "seed"]
  /\ UNCHANGED <<table, seeded, active, started, updates, errors, provisioned, wanted, behind>>

\* The load a goroutine has done is older than the table from now on.
Outdated(writer) ==
  [j \in Jobs |-> IF j # writer /\ job[j].pc = "publish" THEN [job[j] EXCEPT !.stale = TRUE] ELSE job[j]]

\* One transaction that creates the rows, or assigns them the defaults if somebody has created them since.
Save(j) ==
  /\ job[j].pc = "seed"
  /\ table' = Default /\ seeded' = TRUE
  /\ job' = [Outdated(j) EXCEPT ![j].pc = Seeded(j)]
  /\ behind' = behind \cup started
  /\ UNCHANGED <<active, started, updates, errors, provisioned, wanted>>

Merged(j) == [table EXCEPT ![job[j].key] = job[j].value]
Validated(map) == \A k \in Keys : map[k] \in Valid[k]

\* Mutation: the rows are validated as they are, without the new value.
ListAndSkip(j) ==
  /\ job[j].pc = "list"
  /\ job' = [job EXCEPT ![j] = IF Validated(table) THEN [@ EXCEPT !.pc = "write"] ELSE NoJob]
  /\ UNCHANGED <<table, seeded, active, started, updates, errors, provisioned, wanted, behind>>

\* ListConfigs and the validation of what it returned.
ListConfigs(j) ==
  /\ job[j].pc = "list"
  /\ job' = [job EXCEPT ![j] = IF Validated(Merged(j)) THEN [@ EXCEPT !.pc = "write"] ELSE NoJob]
  /\ UNCHANGED <<table, seeded, active, started, updates, errors, provisioned, wanted, behind>>

\* UPDATE of one row.
UpdateValue(j) ==
  /\ job[j].pc = "write" /\ updates < MaxUpdates
  /\ table' = Merged(j)
  /\ wanted' = [wanted EXCEPT ![job[j].key] = job[j].value]
  /\ job' = [Outdated(j) EXCEPT ![j].pc = "count", ![j].updating = FALSE]
  /\ behind' = behind \cup (started \ {job[j].at})
  /\ updates' = updates + 1
  /\ UNCHANGED <<seeded, active, started, errors, provisioned>>

\* Mutation: what was validated is made active, without reading the table again.
LoadOwn(j) ==
  /\ job[j].pc = "load"
  /\ job' = [job EXCEPT ![j].pc = "publish", ![j].map = [active[job[j].at] EXCEPT ![job[j].key] = job[j].value]]
  /\ UNCHANGED <<table, seeded, active, started, updates, errors, provisioned, wanted, behind>>

LoadMap(j) ==
  /\ job[j].pc = "load"
  /\ job' = [job EXCEPT ![j].pc = "publish", ![j].map = table]
  /\ UNCHANGED <<table, seeded, active, started, updates, errors, provisioned, wanted, behind>>

\* A statement of Get fails: the defaults, and no error.
GetDefaults(j) ==
  /\ job[j].pc \in {"count", "seed", "load"} /\ ~job[j].updating /\ errors < MaxErrors
  /\ job' = [job EXCEPT ![j].pc = "publish", ![j].map = Default, ![j].stale = TRUE]
  /\ errors' = errors + 1
  /\ UNCHANGED <<table, seeded, active, started, updates, provisioned, wanted, behind>>

SetActiveParams(j) ==
  /\ job[j].pc = "publish"
  /\ active' = [active EXCEPT ![job[j].at] = job[j].map]
  /\ started' = started \cup {job[j].at}
  /\ behind' = IF job[j].stale THEN behind \cup {job[j].at} ELSE behind \ {job[j].at}
  /\ job' = [job EXCEPT ![j] = NoJob]
  /\ UNCHANGED <<table, seeded, updates, errors, provisioned, wanted>>

\* An UPDATE with the value that stands there affects no row, as updated_at has whole seconds and was
\* written within the same one: an error, and nothing is loaded.
UpdateUnchanged(j) ==
  /\ job[j].pc = "write" /\ table[job[j].key] = job[j].value
  /\ job' = [job EXCEPT ![j] = NoJob]
  /\ UNCHANGED <<table, seeded, active, started, updates, errors, provisioned, wanted, behind>>

\* A statement of an update fails before its row is written.
UpdateFails(j) ==
  /\ job[j].updating /\ errors < MaxErrors
  /\ job' = [job EXCEPT ![j] = NoJob]
  /\ errors' = errors + 1
  /\ UNCHANGED <<table, seeded, active, started, updates, provisioned, wanted, behind>>

\* A process ends, and forgets its copy.
Stop(p) ==
  /\ errors < MaxErrors /\ (p \in started \/ ~Idle(p))
  /\ started' = started \ {p} /\ behind' = behind \ {p}
  /\ active' = [active EXCEPT ![p] = Default]
  /\ job' = [j \in Jobs |-> IF job[j].at = p THEN NoJob ELSE job[j]]
  /\ errors' = errors + 1
  /\ UNCHANGED <<table, seeded, updates, provisioned, wanted>>

ParamsNext ==
  \/ \E j \in Jobs, p \in Processes :
       \/ Boot(j, p)
       \/ \E k \in Keys \cup {NoKey}, v \in Values :
            CompatAdminConfigUpdate(j, p, k, v) \/ AdminUpdateConfig(j, p, k, v)
  \/ \E j \in Jobs :
       \/ CountRows(j) \/ Save(j) \/ ListConfigs(j) \/ UpdateValue(j) \/ UpdateUnchanged(j)
       \/ UpdateFails(j) \/ LoadMap(j) \/ GetDefaults(j) \/ SetActiveParams(j)
  \/ \E p \in Processes : Stop(p)

ParamsSpec == ParamsInit /\ [][ParamsNext]_paramVars

-----------------------------------------------------------------------------
Maps == [Keys -> Values]
JobState == [pc : {"idle", "count", "seed", "list", "write", "load", "publish"},
             at : Processes \cup {NoProcess}, updating : BOOLEAN, key : Keys,
             value : Values, map : Maps, stale : BOOLEAN]

ParamsTypeOK ==
  /\ table \in Maps /\ wanted \in Maps /\ active \in [Processes -> Maps]
  /\ {seeded, provisioned} \subseteq BOOLEAN
  /\ started \in SUBSET Processes /\ behind \in SUBSET started
  /\ job \in [Jobs -> JobState]
  /\ updates \in 0..MaxUpdates /\ errors \in 0..MaxErrors

\* Every value in the table and in every copy passes validation, though each update validates the rows
\* it listed and other updates write between its listing and its writing.  The code parses values
\* without an error path (decimal.RequireFromString panics).
ConfigValid ==
  /\ Validated(table)
  /\ \A p \in Processes : Validated(active[p])

\* Where schema.sql has created the rows, no start and no update puts defaults over a value written.
SeedNeverOverwrites == provisioned => table = wanted

\* An update of p has written its row and has yet to make it active.
Reloading(p) == \E j \in Jobs : job[j].at = p /\ job[j].pc # "idle" /\ ~job[j].updating

\* A process works with the values of the table, unless another process or the seeding has written
\* since, its last load answered with defaults, or its last load was overtaken by a write.
ActiveIsFresh == \A p \in started \ behind : ~Reloading(p) => active[p] = table
=============================================================================
