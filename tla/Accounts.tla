------------------------------ MODULE Accounts ------------------------------
(***************************************************************************)
(* Accounts: login with a one-time challenge (Login) or without            *)
(* (EthAuthorize), registration under an inviter, the referral paths, the  *)
(* tokens issued, and the administrator's locks of one account or of a     *)
(* whole line.  A request is a goroutine that talks to the database        *)
(* statement by statement; nothing holds the rows of users,                *)
(* user_recommends and login_challenges together but their UNIQUE keys.    *)
(*                                                                         *)
(* The id of a user is his place in `users`; of his disabled_at nobody     *)
(* looks at more than whether it is NULL.  A request that a check turns    *)
(* down before it has changed anything is not an action.  Signatures are   *)
(* genuine: Verify refuses the others before anything is written.          *)
(***************************************************************************)
EXTENDS Integers, Sequences, SequencesExt

CONSTANTS
  Addresses,      \* wallet addresses
  Genesis,        \* the one that registers without an inviter
  NoCode,         \* no invite code, no address
  Visits,         \* request goroutines
  TokenTTL,       \* how long a token is accepted
  MaxTime,        \* bound: the clock stops there
  MaxChallenges,  \* bound: rows of login_challenges
  MaxFaults       \* bound: statements that fail and goroutines that end early

ASSUME AccountsAssumption ==
  /\ Genesis \in Addresses /\ NoCode \notin Addresses
  /\ TokenTTL \in Nat \ {0}
  /\ MaxTime \in Nat /\ MaxChallenges \in Nat /\ MaxFaults \in Nat

VARIABLES
  users,       \* the users table
  paths,       \* user_recommends: the path of each user, <<>> when he has no row
  challenges,  \* the login_challenges table
  visit,       \* the state of each request goroutine
  line,        \* the administrator's request that locks a line
  tokens,      \* the tokens that are accepted
  now,         \* the clock
  cut,         \* history: the users whose path may lack ancestors
  passed,      \* history: how many logins each challenge has let through
  shut,        \* history: when the UPDATE was made that locked each user last
  faults       \* how many faults there have been

accountVars == <<users, paths, challenges, visit, line, tokens, now, cut, passed, shut, faults>>

Users == DOMAIN users

Request(pc, a, code, c) == [pc |-> pc, addr |-> a, code |-> code, nonce |-> c,
                            inviter |-> 0, id |-> 0, since |-> 0, path |-> <<>>]
LineRequest(pc, u, lock, prefix, rash) ==
  [pc |-> pc, root |-> u, lock |-> lock, prefix |-> prefix, rash |-> rash,
   listed |-> {}, todo |-> {}, tree |-> {}, intact |-> {}]
NoVisit == Request("idle", NoCode, NoCode, 0)
NoLine == LineRequest("idle", 0, FALSE, <<>>, FALSE)

FindByAddress(a) == {u \in Users : users[u].addr = a}

\* Registrations between the INSERT of the user and that of his path.
Unfinished == {visit[v].id : v \in {v \in Visits : visit[v].pc \in {"parent", "save"}}}

\* The inviters of u, the eldest first, and u.
Lineage[u \in 0..Len(users)] ==
  IF u = 0 THEN <<>> ELSE Append(Lineage[users[u].inviter], u)

\* u and all who descend from him, and those of them with no cut on the way down from u.
Tree(u) == {v \in Users : u \in Range(Lineage[v])}
Intact(u) == {v \in Tree(u) : \A w \in Tree(u) \cap Range(Lineage[v]) : w \notin cut \cup Unfinished}

-----------------------------------------------------------------------------
AccountsInit ==
  /\ users = <<>> /\ paths = <<>> /\ challenges = <<>>
  /\ visit = [v \in Visits |-> NoVisit]
  /\ line = NoLine
  /\ tokens = {} /\ now = 0
  /\ cut = {} /\ passed = <<>> /\ shut = <<>> /\ faults = 0

CreateLoginChallenge(a) ==
  /\ Len(challenges) < MaxChallenges
  /\ challenges' = Append(challenges, [addr |-> a, used |-> FALSE, lapsed |-> FALSE])
  /\ passed' = Append(passed, 0)
  /\ UNCHANGED <<users, paths, visit, line, tokens, now, cut, shut, faults>>

\* A challenge passes its expires_at.
Lapse(c) ==
  /\ ~challenges[c].lapsed
  /\ challenges' = [challenges EXCEPT ![c].lapsed = TRUE]
  /\ UNCHANGED <<users, paths, visit, line, tokens, now, cut, passed, shut, faults>>

\* Login reads its challenge and verifies the signature of it.
FindUsable(v, a, code, c) ==
  /\ visit[v].pc = "idle"
  /\ challenges[c].addr = a /\ ~challenges[c].used /\ ~challenges[c].lapsed
  /\ visit' = [visit EXCEPT ![v] = Request("mark", a, code, c)]
  /\ UNCHANGED <<users, paths, challenges, line, tokens, now, cut, passed, shut, faults>>

\* Mutation: used_at is not looked at again.
MarkUsedBlindly(v) ==
  /\ visit[v].pc = "mark"
  /\ challenges' = [challenges EXCEPT ![visit[v].nonce].used = TRUE]
  /\ passed' = [passed EXCEPT ![visit[v].nonce] = @ + 1]
  /\ visit' = [visit EXCEPT ![v].pc = "find"]
  /\ UNCHANGED <<users, paths, line, tokens, now, cut, shut, faults>>

MarkUsed(v) ==
  /\ visit[v].pc = "mark"
  /\ LET c == visit[v].nonce
     IN IF challenges[c].used
        THEN /\ visit' = [visit EXCEPT ![v] = NoVisit]
             /\ UNCHANGED <<challenges, passed>>
        ELSE /\ challenges' = [challenges EXCEPT ![c].used = TRUE]
             /\ passed' = [passed EXCEPT ![c] = @ + 1]
             /\ visit' = [visit EXCEPT ![v].pc = "find"]
  /\ UNCHANGED <<users, paths, line, tokens, now, cut, shut, faults>>

\* EthAuthorize: the same from here on, without a challenge.
EthAuthorize(v, a, code) ==
  /\ visit[v].pc = "idle"
  /\ visit' = [visit EXCEPT ![v] = Request("find", a, code, 0)]
  /\ UNCHANGED <<users, paths, challenges, line, tokens, now, cut, passed, shut, faults>>

\* The middleware accepts a token until it expires, whatever has become of its user.
RequireJWT(t, time) == time < t.exp

\* Mutation: users.disabled_at is not looked at.
FindKnownLocked(v) ==
  /\ visit[v].pc = "find"
  /\ \E u \in FindByAddress(visit[v].addr) :
       visit' = [visit EXCEPT ![v].pc = "issue", ![v].id = u, ![v].since = now]
  /\ UNCHANGED <<users, paths, challenges, line, tokens, now, cut, passed, shut, faults>>

\* The user exists and, as far as this statement tells, is not locked.
FindKnown(v) ==
  /\ visit[v].pc = "find"
  /\ \E u \in FindByAddress(visit[v].addr) :
       visit' = [visit EXCEPT ![v] =
         IF users[u].disabled THEN NoVisit ELSE [@ EXCEPT !.pc = "issue", !.id = u, !.since = now]]
  /\ UNCHANGED <<users, paths, challenges, line, tokens, now, cut, passed, shut, faults>>

\* A token expires TokenTTL after the clock that Issue reads; `took` is how long the request has
\* had its user in hand by then.
Issue(u, since) == [user |-> u, exp |-> now + TokenTTL, took |-> now - since]

\* The user is not looked at again.
IssueToken(v) ==
  /\ visit[v].pc = "issue"
  /\ tokens' = tokens \cup {Issue(visit[v].id, visit[v].since)}
  /\ visit' = [visit EXCEPT ![v] = NoVisit]
  /\ UNCHANGED <<users, paths, challenges, line, now, cut, passed, shut, faults>>

\* The user does not exist: he needs the code of somebody else, unless he is the first.
FindNone(v) ==
  /\ visit[v].pc = "find" /\ FindByAddress(visit[v].addr) = {}
  /\ visit' = [visit EXCEPT ![v] =
       IF visit[v].addr = Genesis THEN [@ EXCEPT !.pc = "create"]
       ELSE IF visit[v].code \in {NoCode, visit[v].addr} THEN NoVisit
       ELSE [@ EXCEPT !.pc = "inviter"]]
  /\ UNCHANGED <<users, paths, challenges, line, tokens, now, cut, passed, shut, faults>>

FindInviter(v) ==
  /\ visit[v].pc = "inviter"
  /\ \/ \E i \in FindByAddress(visit[v].code) :
          visit' = [visit EXCEPT ![v].pc = "create", ![v].inviter = i]
     \/ /\ FindByAddress(visit[v].code) = {}
        /\ visit' = [visit EXCEPT ![v] = NoVisit]
  /\ UNCHANGED <<users, paths, challenges, line, tokens, now, cut, passed, shut, faults>>

\* INSERT of the user; the address is UNIQUE.
Create(v) ==
  /\ visit[v].pc = "create"
  /\ IF FindByAddress(visit[v].addr) # {}
     THEN /\ visit' = [visit EXCEPT ![v] = NoVisit]
          /\ UNCHANGED <<users, paths, shut>>
     ELSE LET id == Len(users) + 1
          IN /\ users' = Append(users, [addr |-> visit[v].addr, inviter |-> visit[v].inviter,
                                        disabled |-> FALSE])
             /\ paths' = Append(paths, <<>>) /\ shut' = Append(shut, now)
             /\ visit' = [visit EXCEPT ![v].id = id, ![v].since = now, ![v].path = <<id>>,
                            ![v].pc = IF visit[v].inviter = 0 THEN "save" ELSE "parent"]
  /\ UNCHANGED <<challenges, line, tokens, now, cut, passed, faults>>

\* Mutation: the inviter is left out of the path, as if the INSERT had been of a first user.
GetPathOfFirst(v) ==
  /\ visit[v].pc = "parent"
  /\ visit' = [visit EXCEPT ![v].pc = "save"]
  /\ UNCHANGED <<users, paths, challenges, line, tokens, now, cut, passed, shut, faults>>

\* Mutation: the path of the inviter is put after the id.
GetPathAfter(v) ==
  /\ visit[v].pc = "parent"
  /\ visit' = [visit EXCEPT ![v].pc = "save", ![v].path = <<visit[v].id>> \o paths[visit[v].inviter]]
  /\ UNCHANGED <<users, paths, challenges, line, tokens, now, cut, passed, shut, faults>>

\* The path of the inviter is put before the id.  An inviter who has not saved his own yet gives none.
GetPath(v) ==
  /\ visit[v].pc = "parent"
  /\ LET i == visit[v].inviter
     IN /\ visit' = [visit EXCEPT ![v].pc = "save", ![v].path = Append(paths[i], visit[v].id)]
        /\ cut' = IF i \in Unfinished THEN cut \cup {visit[v].id} ELSE cut
  /\ UNCHANGED <<users, paths, challenges, line, tokens, now, passed, shut, faults>>

\* The error of GetPath is ignored.
GetPathFails(v) ==
  /\ visit[v].pc = "parent" /\ faults < MaxFaults
  /\ visit' = [visit EXCEPT ![v].pc = "save"]
  /\ cut' = cut \cup {visit[v].id} /\ faults' = faults + 1
  /\ UNCHANGED <<users, paths, challenges, line, tokens, now, passed, shut>>

SavePath(v) ==
  /\ visit[v].pc = "save"
  /\ paths' = [paths EXCEPT ![visit[v].id] = visit[v].path]
  /\ visit' = [visit EXCEPT ![v].pc = "issue"]
  /\ UNCHANGED <<users, challenges, line, tokens, now, cut, passed, shut, faults>>

\* The error of SavePath is ignored.
SavePathFails(v) ==
  /\ visit[v].pc = "save" /\ faults < MaxFaults
  /\ visit' = [visit EXCEPT ![v].pc = "issue"]
  /\ cut' = cut \cup {visit[v].id} /\ faults' = faults + 1
  /\ UNCHANGED <<users, paths, challenges, line, tokens, now, passed, shut>>

\* Any other statement fails, the user read back after the INSERT included, or the process ends.
VisitEnds(v) ==
  /\ visit[v].pc # "idle" /\ faults < MaxFaults
  /\ visit' = [visit EXCEPT ![v] = NoVisit]
  /\ cut' = IF visit[v].pc \in {"parent", "save"} THEN cut \cup {visit[v].id} ELSE cut
  /\ faults' = faults + 1
  /\ UNCHANGED <<users, paths, challenges, line, tokens, now, passed, shut>>

Tick ==
  /\ now < MaxTime
  /\ now' = now + 1
  /\ tokens' = {t \in tokens : RequireJWT(t, now + 1)}
  /\ UNCHANGED <<users, paths, challenges, visit, line, cut, passed, shut, faults>>

-----------------------------------------------------------------------------
\* SoftDelete and Restore of data/user.go: one UPDATE.
WithLock(u, lock) == [users EXCEPT ![u].disabled = lock]

\* To lock him again changes nothing.
Shut(u, lock) == IF lock /\ ~users[u].disabled THEN [shut EXCEPT ![u] = now] ELSE shut

SetUserLock(u, lock) ==
  /\ users' = WithLock(u, lock) /\ shut' = Shut(u, lock)
  /\ UNCHANGED <<paths, challenges, visit, line, tokens, now, cut, passed, faults>>

\* A root without a path row is taken for a first user.
SetLineLock(u, lock) ==
  /\ line.pc = "idle"
  /\ line' = LineRequest("list", u, lock, IF paths[u] = <<>> THEN <<u>> ELSE paths[u], u \in Unfinished)
  /\ UNCHANGED <<users, paths, challenges, visit, tokens, now, cut, passed, shut, faults>>

\* Mutation: without the ids that follow the prefix, only the root is found.
ListRootOnly ==
  /\ line.pc = "list"
  /\ LET found == {v \in Users : paths[v] = line.prefix}
     IN line' = [line EXCEPT !.pc = "lock", !.listed = found, !.todo = found,
                             !.tree = Tree(line.root), !.intact = Intact(line.root)]
  /\ UNCHANGED <<users, paths, challenges, visit, tokens, now, cut, passed, shut, faults>>

\* The users whose path is the root's or goes on from it.
ListByPathPrefix ==
  /\ line.pc = "list"
  /\ LET found == {v \in Users : IsPrefix(line.prefix, paths[v])}
     IN line' = [line EXCEPT !.pc = "lock", !.listed = found, !.todo = found,
                             !.tree = Tree(line.root), !.intact = Intact(line.root)]
  /\ UNCHANGED <<users, paths, challenges, visit, tokens, now, cut, passed, shut, faults>>

\* One UPDATE per user listed, in the order of their ids.
LockNext ==
  /\ line.pc = "lock"
  /\ \/ /\ line.todo = {}
        /\ line' = NoLine
        /\ UNCHANGED <<users, shut>>
     \/ \E u \in line.todo :
          /\ \A w \in line.todo : u <= w
          /\ users' = WithLock(u, line.lock) /\ shut' = Shut(u, line.lock)
          /\ line' = [line EXCEPT !.todo = @ \ {u}]
  /\ UNCHANGED <<paths, challenges, visit, tokens, now, cut, passed, faults>>

\* A statement fails, or affects no row (to unlock twice within a second is an error), and the rest of
\* the line stays as it was.
LineEnds ==
  /\ line.pc # "idle" /\ faults < MaxFaults
  /\ line' = NoLine
  /\ faults' = faults + 1
  /\ UNCHANGED <<users, paths, challenges, visit, tokens, now, cut, passed, shut>>

\* The console asks for one account or, with one = "1", for the line below it.
CompatAdminLockUser(u, lock, one) ==
  /\ lock # ""
  /\ IF one = "1" THEN SetLineLock(u, lock \in {"1", "true"}) ELSE SetUserLock(u, lock \in {"1", "true"})

-----------------------------------------------------------------------------
LoginChallenge == \E a \in Addresses : CreateLoginChallenge(a)

\* A request comes with an address, the code of an inviter or none, and in LoginVerify a nonce.
LoginVerify(v) ==
  \E a \in Addresses, code \in Addresses \cup {NoCode}, c \in DOMAIN challenges : FindUsable(v, a, code, c)
CompatEthAuthorize(v) ==
  \E a \in Addresses, code \in Addresses \cup {NoCode} : EthAuthorize(v, a, code)

Challenge ==
  \/ LoginChallenge
  \/ \E c \in DOMAIN challenges : Lapse(c)

Visiting(v) ==
  \/ LoginVerify(v) \/ CompatEthAuthorize(v)
  \/ MarkUsed(v) \/ FindKnown(v) \/ FindNone(v) \/ FindInviter(v) \/ Create(v)
  \/ GetPath(v) \/ GetPathFails(v) \/ SavePath(v) \/ SavePathFails(v) \/ IssueToken(v) \/ VisitEnds(v)

Locking ==
  \/ \E u \in Users, lock \in {"", "0", "1"}, one \in {"", "1"} : CompatAdminLockUser(u, lock, one)
  \/ ListByPathPrefix \/ LockNext \/ LineEnds

AccountsNext == Challenge \/ (\E v \in Visits : Visiting(v)) \/ Locking \/ Tick

AccountsSpec == AccountsInit /\ [][AccountsNext]_accountVars

-----------------------------------------------------------------------------
Times == 0..MaxTime
UserRow == [addr : Addresses, inviter : Nat, disabled : BOOLEAN]
ChallengeRow == [addr : Addresses, used : BOOLEAN, lapsed : BOOLEAN]
VisitState == [pc : {"idle", "mark", "find", "inviter", "create", "parent", "save", "issue"},
               addr : Addresses \cup {NoCode}, code : Addresses \cup {NoCode},
               nonce : Nat, inviter : Nat, id : Nat, since : Times, path : Seq(Nat)]
LineState == [pc : {"idle", "list", "lock"}, root : Nat, lock : BOOLEAN, prefix : Seq(Nat),
              rash : BOOLEAN, listed : SUBSET Nat, todo : SUBSET Nat, tree : SUBSET Nat, intact : SUBSET Nat]

AccountsTypeOK ==
  /\ users \in Seq(UserRow)
  /\ paths \in Seq(Seq(Nat)) /\ Len(paths) = Len(users)
  /\ challenges \in Seq(ChallengeRow)
  /\ visit \in [Visits -> VisitState]
  /\ line \in LineState /\ line.todo \subseteq Users
  /\ tokens \in SUBSET [user : Users, exp : Nat, took : Int]
  /\ now \in Times /\ cut \in SUBSET Users
  /\ passed \in [DOMAIN challenges -> Nat] /\ shut \in [Users -> Times] /\ faults \in 0..MaxFaults

\* A challenge lets one login through at the most, however many present it at once
\* (FindUsable reads it before MarkUsed writes it).
NonceOnce == \A c \in DOMAIN passed : passed[c] <= 1

\* One user per address, and the inviter of a user was there before him: the referrals are a forest,
\* whatever registrations overlap (each looks its address and its inviter up before it inserts).
ReferralForest ==
  \A u \in Users : /\ users[u].inviter \in 0..(u - 1)
                   /\ FindByAddress(users[u].addr) = {u}

\* A saved path ends in its user, and each id in it was invited by the one before: it may lack the
\* eldest ancestors, but it never names a stranger.
PathIsLineage ==
  \A u \in Users : paths[u] # <<>> =>
    /\ paths[u][Len(paths[u])] = u
    /\ \A i \in 1..(Len(paths[u]) - 1) : paths[u][i] = users[paths[u][i + 1]].inviter

\* The damage stays where it is done: the path of a user whose own registration ran to its end, after
\* his inviter's, is his inviter's path and he.
PathExtendsInviters ==
  \A u \in Users \ (cut \cup Unfinished) :
    LET i == users[u].inviter
    IN paths[u] = Append(IF i = 0 THEN <<>> ELSE paths[i], u)

\* Locking a line reaches only the root and those who descend from him, and all of them between whom
\* and the root every registration ran to its end.
LineExact ==
  line.pc = "lock" => /\ line.listed \subseteq line.tree
                      /\ ~line.rash => line.intact \subseteq line.listed

\* A token of a locked user is accepted no longer than TokenTTL after the UPDATE that locked him, and
\* as much longer as its request took from the statement that found him unlocked, or created him, to
\* its token: whoever is read after the lock gets none, though nobody looks at the lock again.
LockedOut ==
  \A t \in tokens : users[t.user].disabled => t.exp <= shut[t.user] + TokenTTL + t.took
=============================================================================
