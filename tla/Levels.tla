------------------------------- MODULE Levels -------------------------------
(***************************************************************************)
(* Community levels: the administrator sets one and locks it (SetVIP) or   *)
(* unlocks it (UnlockVIP) while a settlement refreshes them all            *)
(* (settleCommunity).  The refresh lists the users and then writes them    *)
(* one by one, by what it read of their locks in the list.                 *)
(*                                                                         *)
(* The level a refresh computes is any: it depends on the orders of the    *)
(* user's line, which is the subject of Community.  Settlements of several *)
(* processes may overlap, as a forced one does.                            *)
(***************************************************************************)
EXTENDS Integers

CONSTANTS
  Members,      \* users: a set of ids
  MaxLevel,     \* the highest level: V9
  NoNumber,     \* a vip that is no number
  Refreshers    \* settlements

ASSUME LevelsAssumption == Members \subseteq Nat /\ MaxLevel \in Nat

VARIABLES
  member,   \* community_level and community_level_locked of each user
  refresh,  \* the state of each settlement
  granted,  \* history: the level an administrator gave each user, NoLevel when it is not locked
  raced     \* history: the users who were given theirs while a settlement was to overwrite it

levelVars == <<member, refresh, granted, raced>>

LevelRange == 0..MaxLevel
NoLevel == -1
NoRefresh == [pc |-> "idle", unlocked |-> {}, todo |-> {}]

\* A settlement has read that u is not locked and has yet to write him.
Overwriting(u) == \E s \in Refreshers : u \in refresh[s].todo \cap refresh[s].unlocked

LevelsInit ==
  /\ member = [u \in Members |-> [level |-> 0, locked |-> FALSE]]
  /\ refresh = [s \in Refreshers |-> NoRefresh]
  /\ granted = [u \in Members |-> NoLevel]
  /\ raced = {}

\* Mutation: any number is taken for a level.
SetVIPUnchecked(u, level) ==
  /\ member' = [member EXCEPT ![u] = [level |-> level, locked |-> TRUE]]
  /\ granted' = [granted EXCEPT ![u] = level]
  /\ raced' = IF Overwriting(u) THEN raced \cup {u} ELSE raced \ {u}
  /\ UNCHANGED refresh

\* SetCommunityLevel: the level and its lock in one UPDATE.  The console gives any number; one that is
\* no level is refused.
SetVIP(u, level) ==
  /\ level \in LevelRange
  /\ member' = [member EXCEPT ![u] = [level |-> level, locked |-> TRUE]]
  /\ granted' = [granted EXCEPT ![u] = level]
  /\ raced' = IF Overwriting(u) THEN raced \cup {u} ELSE raced \ {u}
  /\ UNCHANGED refresh

UnlockVIP(u) ==
  /\ member' = [member EXCEPT ![u].locked = FALSE]
  /\ granted' = [granted EXCEPT ![u] = NoLevel]
  /\ UNCHANGED <<refresh, raced>>

\* The console names a user and, in vip, what should be a number.
CompatAdminVIPUpdate(u, vip) == vip # NoNumber /\ SetVIP(u, vip)
CompatAdminVIPUnlock(u) == UnlockVIP(u)

\* settleCommunity begins with the list of all users.
ListAll(s) ==
  /\ refresh[s].pc = "idle"
  /\ refresh' = [refresh EXCEPT ![s] = [pc |-> "write", todo |-> Members,
                                        unlocked |-> {u \in Members : ~member[u].locked}]]
  /\ UNCHANGED <<member, granted, raced>>

\* Mutation: the lock is not looked at.
UpdateEvery(s, u, level) ==
  /\ u \in refresh[s].todo /\ \A w \in refresh[s].todo : u <= w
  /\ level \in LevelRange
  /\ member' = [member EXCEPT ![u].level = level]
  /\ refresh' = [refresh EXCEPT ![s].todo = @ \ {u}]
  /\ UNCHANGED <<granted, raced>>

\* UpdateCommunity, or UpdateCommunityVolume for a user who was locked when he was listed.
UpdateCommunity(s, u, level) ==
  /\ u \in refresh[s].todo /\ \A w \in refresh[s].todo : u <= w
  /\ level \in LevelRange
  /\ member' = IF u \in refresh[s].unlocked THEN [member EXCEPT ![u].level = level] ELSE member
  /\ refresh' = [refresh EXCEPT ![s].todo = @ \ {u}]
  /\ UNCHANGED <<granted, raced>>

\* The levels are all written, a statement fails, or the process ends.
EndRefresh(s) ==
  /\ refresh[s].pc = "write"
  /\ refresh' = [refresh EXCEPT ![s] = NoRefresh]
  /\ UNCHANGED <<member, granted, raced>>

LevelsNext ==
  \/ \E u \in Members :
       \/ CompatAdminVIPUnlock(u)
       \/ \E vip \in (-1..(MaxLevel + 1)) \cup {NoNumber} : CompatAdminVIPUpdate(u, vip)
  \/ \E s \in Refreshers :
       \/ ListAll(s) \/ EndRefresh(s)
       \/ \E u \in Members, level \in LevelRange : UpdateCommunity(s, u, level)

LevelsSpec == LevelsInit /\ [][LevelsNext]_levelVars

-----------------------------------------------------------------------------
MemberRow == [level : LevelRange, locked : BOOLEAN]
RefreshState == [pc : {"idle", "write"}, unlocked : SUBSET Members, todo : SUBSET Members]

LevelsTypeOK ==
  /\ member \in [Members -> MemberRow]
  /\ refresh \in [Refreshers -> RefreshState]
  /\ granted \in [Members -> LevelRange \cup {NoLevel}]
  /\ raced \in SUBSET Members

\* A level an administrator has given stays what he made it until he changes or unlocks it, unless he
\* gave it to a user whom a settlement had listed unlocked and not yet written.
GrantedLevelStays ==
  \A u \in Members \ raced : granted[u] # NoLevel => member[u] = [level |-> granted[u], locked |-> TRUE]

\* The same without the exception, as CONTEXT.md says it: no settlement overwrites a level set by hand.
NeverOverwritten ==
  \A u \in Members : granted[u] # NoLevel => member[u].level = granted[u]
=============================================================================
