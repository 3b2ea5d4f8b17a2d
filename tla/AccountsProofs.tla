---------------------------- MODULE AccountsProofs ----------------------------
(***************************************************************************)
(* Theorems about Accounts, for every set of addresses and of requests,    *)
(* every number of challenges and faults, and any clock.                   *)
(***************************************************************************)
EXTENDS Accounts, SumTheorems, TLAPS

-----------------------------------------------------------------------------
(* Type correctness.  AccountsTypeOK alone is not inductive: what a request  *)
(* writes under the id it holds is typed only because it holds one by then.  *)

\* What a request in state s has in hand, when `us` is the users table and there are n challenges.
Held(s, us, n) ==
  /\ s.pc # "idle" => s.addr \in Addresses
  /\ s.pc = "mark" => s.nonce \in 1..n
  /\ s.inviter \in 0..Len(us)
  /\ s.pc \in {"parent", "save"} => s.id \in 1..Len(us) /\ us[s.id].inviter = s.inviter
  /\ s.pc = "issue" => s.id \in 1..Len(us)
  /\ s.pc = "parent" => s.inviter # 0

VisitsHold == \A v \in Visits : Held(visit[v], users, Len(challenges))

TypeInv == AccountsTypeOK /\ VisitsHold

TokenSet == [user : Users, exp : Nat, took : Int]

LEMMA TimeStarts == 0 \in Times
BY AccountsAssumption DEF Times

LEMMA InitTypes == AccountsInit => TypeInv
<1> SUFFICES ASSUME AccountsInit PROVE TypeInv
  OBVIOUS
<1>1. NoVisit \in VisitState
  BY TimeStarts DEF NoVisit, Request, VisitState
<1>2. NoLine \in LineState /\ NoLine.todo = {}
  BY DEF NoLine, LineRequest, LineState
<1>3. AccountsTypeOK
  BY <1>1, <1>2, AccountsAssumption DEF AccountsInit, AccountsTypeOK, Times, Users
<1>4. VisitsHold
  BY DEF AccountsInit, VisitsHold, Held, NoVisit, Request
<1> QED
  BY <1>3, <1>4 DEF TypeInv

\* The lengths the type invariant speaks of.
LEMMA Lengths ==
  ASSUME TypeInv
  PROVE  /\ Len(users) \in Nat /\ Users = 1..Len(users)
         /\ Len(challenges) \in Nat /\ DOMAIN challenges = 1..Len(challenges)
         /\ Len(paths) = Len(users) /\ DOMAIN paths = Users
         /\ \A u \in Users : users[u] \in UserRow /\ paths[u] \in Seq(Nat)
         /\ \A v \in Visits : visit[v] \in VisitState /\ Held(visit[v], users, Len(challenges))
         /\ now \in Times
BY DEF TypeInv, AccountsTypeOK, VisitsHold, Users

\* No step forgets a user, his inviter or a challenge.
Kept == /\ Len(users') \in Nat /\ Len(users') >= Len(users)
        /\ \A u \in Users : users'[u].inviter = users[u].inviter
        /\ Len(challenges') \in Nat /\ Len(challenges') >= Len(challenges)

LEMMA SameIsKept ==
  ASSUME TypeInv, UNCHANGED <<users, challenges>> PROVE Kept
BY Lengths DEF Kept

LEMMA HeldOn ==
  ASSUME TypeInv, Kept, NEW s, Held(s, users, Len(challenges))
  PROVE  Held(s, users', Len(challenges'))
BY Lengths DEF Kept, Held, Users

\* What becomes of the requests when one of them moves to the state s.
LEMMA VisitMoves ==
  ASSUME TypeInv, Kept, NEW v \in Visits, NEW s \in VisitState, Held(s, users', Len(challenges')),
         visit' = [visit EXCEPT ![v] = s]
  PROVE  visit' \in [Visits -> VisitState] /\ VisitsHold'
<1>1. visit' \in [Visits -> VisitState]
  BY DEF TypeInv, AccountsTypeOK
<1>2. \A w \in Visits : visit'[w] = IF w = v THEN s ELSE visit[w]
  BY DEF TypeInv, AccountsTypeOK
<1>3. \A w \in Visits : Held(visit[w], users', Len(challenges'))
  BY HeldOn, Lengths
<1>4. \A w \in Visits : Held(visit'[w], users', Len(challenges'))
  BY <1>2, <1>3
<1> QED
  BY <1>1, <1>4 DEF VisitsHold

LEMMA VisitsStay ==
  ASSUME TypeInv, Kept, UNCHANGED visit
  PROVE  visit' \in [Visits -> VisitState] /\ VisitsHold'
<1>1. \A w \in Visits : Held(visit[w], users', Len(challenges'))
  BY HeldOn, Lengths
<1> QED
  BY <1>1 DEF VisitsHold, TypeInv, AccountsTypeOK

LEMMA IdleHolds ==
  ASSUME Len(users) \in Nat, NEW n
  PROVE  NoVisit \in VisitState /\ Held(NoVisit, users, n)
BY TimeStarts DEF NoVisit, Request, VisitState, Held

\* A request that ends without a trace in the tables.
LEMMA VisitStops ==
  ASSUME TypeInv, UNCHANGED <<users, challenges>>, NEW v \in Visits,
         visit' = [visit EXCEPT ![v] = NoVisit]
  PROVE  visit' \in [Visits -> VisitState] /\ VisitsHold'
<1>1. Held(NoVisit, users, Len(challenges)) /\ NoVisit \in VisitState
  BY Lengths, IdleHolds
<1> QED
  BY <1>1, SameIsKept, VisitMoves

\* A request that goes on to s, and leaves users and challenges alone.
LEMMA VisitGoesOn ==
  ASSUME TypeInv, UNCHANGED <<users, challenges>>, NEW v \in Visits, NEW s \in VisitState,
         Held(s, users, Len(challenges)), visit' = [visit EXCEPT ![v] = s]
  PROVE  visit' \in [Visits -> VisitState] /\ VisitsHold'
BY SameIsKept, VisitMoves

LEMMA TokenTypes ==
  ASSUME TypeInv, NEW u \in Users, NEW since \in Times
  PROVE  Issue(u, since) \in TokenSet
BY AccountsAssumption DEF TypeInv, AccountsTypeOK, Issue, Times, TokenSet

-----------------------------------------------------------------------------
LEMMA ChallengeTypes == TypeInv /\ Challenge => TypeInv'
<1> SUFFICES ASSUME TypeInv, Challenge PROVE TypeInv'
  OBVIOUS
<1>1. ASSUME NEW a \in Addresses, CreateLoginChallenge(a) PROVE TypeInv'
  <2> DEFINE row == [addr |-> a, used |-> FALSE, lapsed |-> FALSE]
  <2>1. row \in ChallengeRow
    BY DEF ChallengeRow
  <2>2. challenges' = Append(challenges, row)
    BY <1>1 DEF CreateLoginChallenge
  <2> HIDE DEF row
  <2>3. /\ challenges' \in Seq(ChallengeRow) /\ Len(challenges') = Len(challenges) + 1
        /\ DOMAIN challenges' = 1..(Len(challenges) + 1)
    BY <2>1, <2>2 DEF TypeInv, AccountsTypeOK
  <2>4. passed \in Seq(Nat) /\ Len(passed) = Len(challenges)
    <3>1. passed \in [1..Len(challenges) -> Nat]
      BY Lengths DEF TypeInv, AccountsTypeOK
    <3> QED
      BY <3>1, Lengths
  <2>5. passed' \in [DOMAIN challenges' -> Nat]
    <3>1. passed' = Append(passed, 0)
      BY <1>1 DEF CreateLoginChallenge
    <3>2. passed' \in Seq(Nat) /\ Len(passed') = Len(challenges) + 1
      BY <2>4, <3>1, Lengths
    <3> QED
      BY <2>3, <3>2
  <2>6. Kept
    BY <1>1, <2>3, Lengths DEF Kept, CreateLoginChallenge
  <2>7. visit' \in [Visits -> VisitState] /\ VisitsHold'
    BY <1>1, <2>6, VisitsStay DEF CreateLoginChallenge
  <2> QED
    BY <1>1, <2>3, <2>5, <2>7 DEF CreateLoginChallenge, TypeInv, AccountsTypeOK, Users
<1>2. ASSUME NEW c \in DOMAIN challenges, Lapse(c) PROVE TypeInv'
  <2>1. challenges' \in Seq(ChallengeRow) /\ Len(challenges') = Len(challenges)
        /\ DOMAIN challenges' = DOMAIN challenges
    <3> DEFINE row == [challenges[c] EXCEPT !.lapsed = TRUE]
    <3>1. challenges[c] \in ChallengeRow /\ challenges \in Seq(ChallengeRow)
      BY DEF TypeInv, AccountsTypeOK
    <3>2. row \in ChallengeRow
      BY <3>1 DEF ChallengeRow
    <3>3. challenges' = [challenges EXCEPT ![c] = row]
      BY <1>2 DEF Lapse
    <3> HIDE DEF row
    <3> QED
      BY <3>1, <3>2, <3>3
  <2>2. Kept
    BY <1>2, <2>1, Lengths DEF Kept, Lapse
  <2>3. visit' \in [Visits -> VisitState] /\ VisitsHold'
    BY <1>2, <2>2, VisitsStay DEF Lapse
  <2> QED
    BY <1>2, <2>1, <2>3 DEF Lapse, TypeInv, AccountsTypeOK, Users
<1> QED
  BY <1>1, <1>2 DEF Challenge, LoginChallenge

LEMMA InvitedTypes ==
  ASSUME NEW s \in VisitState, NEW i \in Nat
  PROVE  LET new == [s EXCEPT !.pc = "create", !.inviter = i]
         IN new \in VisitState /\ new.pc = "create" /\ new.inviter = i /\ new.addr = s.addr
BY DEF VisitState

\* A request that has found its user unlocked.
Found(s, u) == [s EXCEPT !.pc = "issue", !.id = u, !.since = now]

LEMMA FoundTypes ==
  ASSUME NEW s \in VisitState, NEW us, NEW n, Held(s, us, n), s.pc = "find",
         NEW u \in Nat, u \in 1..Len(us), now \in Times
  PROVE  /\ Found(s, u) \in VisitState /\ Held(Found(s, u), us, n)
         /\ Found(s, u).pc = "issue" /\ Found(s, u).id = u /\ Found(s, u).since = now
BY DEF VisitState, Held, Found

LEMMA LoginTypes ==
  ASSUME TypeInv, NEW v \in Visits,
         \/ LoginVerify(v) \/ CompatEthAuthorize(v) \/ FindKnown(v) \/ FindNone(v) \/ FindInviter(v)
  PROVE  TypeInv'
<1> DEFINE s == visit[v]
<1>0. s \in VisitState /\ Held(s, users, Len(challenges))
  BY Lengths
<1>a. FindNone(v) \/ FindInviter(v) => s.addr \in Addresses
  BY <1>0 DEF FindNone, FindInviter, Held
<1>1. CASE LoginVerify(v)
  <2>1. PICK a \in Addresses, code \in Addresses \cup {NoCode}, c \in DOMAIN challenges : FindUsable(v, a, code, c)
    BY <1>1 DEF LoginVerify
  <2> DEFINE new == Request("mark", a, code, c)
  <2>2. new \in VisitState /\ Held(new, users, Len(challenges))
    BY Lengths, TimeStarts DEF VisitState, Held, Request
  <2>3. visit' = [visit EXCEPT ![v] = new] /\ UNCHANGED <<users, challenges>>
    BY <2>1 DEF FindUsable
  <2> HIDE DEF new
  <2>4. visit' \in [Visits -> VisitState] /\ VisitsHold'
    BY <2>2, <2>3, VisitGoesOn
  <2> QED
    BY <2>1, <2>4 DEF FindUsable, TypeInv, AccountsTypeOK, Users
<1>2. CASE CompatEthAuthorize(v)
  <2>1. PICK a \in Addresses, code \in Addresses \cup {NoCode} : EthAuthorize(v, a, code)
    BY <1>2 DEF CompatEthAuthorize
  <2> DEFINE new == Request("find", a, code, 0)
  <2>2. new \in VisitState /\ Held(new, users, Len(challenges))
    BY Lengths, TimeStarts DEF VisitState, Held, Request
  <2>3. visit' = [visit EXCEPT ![v] = new] /\ UNCHANGED <<users, challenges>>
    BY <2>1 DEF EthAuthorize
  <2> HIDE DEF new
  <2>4. visit' \in [Visits -> VisitState] /\ VisitsHold'
    BY <2>2, <2>3, VisitGoesOn
  <2> QED
    BY <2>1, <2>4 DEF EthAuthorize, TypeInv, AccountsTypeOK, Users
<1>3. CASE FindKnown(v)
  <2>1. PICK u \in FindByAddress(s.addr) :
          visit' = [visit EXCEPT ![v] = IF users[u].disabled THEN NoVisit ELSE Found(s, u)]
    BY <1>3 DEF FindKnown, Found
  <2>2. u \in 1..Len(users) /\ u \in Nat /\ now \in Times
    BY Lengths DEF FindByAddress, TypeInv, AccountsTypeOK
  <2>3. Found(s, u) \in VisitState /\ Held(Found(s, u), users, Len(challenges))
    BY <1>0, <1>3, <2>2, FoundTypes DEF FindKnown
  <2>4. UNCHANGED <<users, challenges>>
    BY <1>3 DEF FindKnown
  <2>5. visit' \in [Visits -> VisitState] /\ VisitsHold'
    BY <2>1, <2>3, <2>4, VisitStops, VisitGoesOn
  <2> QED
    BY <1>3, <2>5 DEF FindKnown, TypeInv, AccountsTypeOK, Users
<1>4. CASE FindNone(v)
  <2> DEFINE create == [s EXCEPT !.pc = "create"]
             ask == [s EXCEPT !.pc = "inviter"]
  <2>1. /\ create \in VisitState /\ Held(create, users, Len(challenges))
        /\ ask \in VisitState /\ Held(ask, users, Len(challenges))
    BY <1>0, <1>4, <1>a DEF VisitState, Held
  <2>2. \E new \in {create, ask, NoVisit} : visit' = [visit EXCEPT ![v] = new]
    BY <1>4 DEF FindNone
  <2> HIDE DEF create, ask
  <2>3. UNCHANGED <<users, challenges>>
    BY <1>4 DEF FindNone
  <2>4. visit' \in [Visits -> VisitState] /\ VisitsHold'
    BY <2>1, <2>2, <2>3, VisitStops, VisitGoesOn
  <2> QED
    BY <1>4, <2>4 DEF FindNone, TypeInv, AccountsTypeOK, Users
<1>5. CASE FindInviter(v)
  <2>0. UNCHANGED <<users, challenges>>
    BY <1>5 DEF FindInviter
  <2>1. ASSUME NEW i \in FindByAddress(visit[v].code),
               visit' = [visit EXCEPT ![v].pc = "create", ![v].inviter = i]
        PROVE  visit' \in [Visits -> VisitState] /\ VisitsHold'
    <3> DEFINE new == [s EXCEPT !.pc = "create", !.inviter = i]
    <3>1. i \in 1..Len(users) /\ i \in Nat /\ Len(users) \in Nat
      BY Lengths DEF FindByAddress
    <3>2. new \in VisitState /\ new.pc = "create" /\ new.inviter = i /\ new.addr \in Addresses
      BY <1>0, <1>5, <1>a, <3>1, InvitedTypes
    <3>4. visit' = [visit EXCEPT ![v] = new]
      BY <2>1 DEF TypeInv, AccountsTypeOK
    <3> HIDE DEF new
    <3>5. Held(new, users, Len(challenges))
      BY <3>1, <3>2 DEF Held
    <3> QED
      BY <2>0, <3>2, <3>4, <3>5, VisitGoesOn
  <2>2. visit' \in [Visits -> VisitState] /\ VisitsHold'
    BY <1>5, <2>0, <2>1, VisitStops DEF FindInviter
  <2> QED
    BY <1>5, <2>2 DEF FindInviter, TypeInv, AccountsTypeOK, Users
<1> QED
  BY <1>1, <1>2, <1>3, <1>4, <1>5

\* A goroutine that goes on to the state p, which asks no more of what it holds.
LEMMA PcTypes ==
  ASSUME NEW s \in VisitState, NEW us, NEW n, Held(s, us, n), s.pc # "idle",
         NEW p \in {"find", "save", "issue"}, p \in {"save", "issue"} => s.pc \in {"parent", "save"}
  PROVE  [s EXCEPT !.pc = p] \in VisitState /\ Held([s EXCEPT !.pc = p], us, n)
BY DEF VisitState, Held

LEMMA MarkTypes ==
  ASSUME TypeInv, NEW v \in Visits, MarkUsed(v) PROVE TypeInv'
<1> DEFINE s == visit[v]
           c == s.nonce
<1>1. s \in VisitState /\ Held(s, users, Len(challenges)) /\ c \in DOMAIN challenges /\ s.pc # "idle"
  BY Lengths DEF Held, MarkUsed
<1>2. CASE challenges[c].used
  <2>1. visit' \in [Visits -> VisitState] /\ VisitsHold'
    BY <1>2, VisitStops DEF MarkUsed
  <2> QED
    BY <1>2, <2>1 DEF MarkUsed, TypeInv, AccountsTypeOK, Users
<1>3. CASE ~challenges[c].used
  <2> DEFINE row == [challenges[c] EXCEPT !.used = TRUE]
             new == [s EXCEPT !.pc = "find"]
  <2>1. challenges[c] \in ChallengeRow /\ challenges \in Seq(ChallengeRow)
    BY <1>1 DEF TypeInv, AccountsTypeOK
  <2>2. row \in ChallengeRow
    BY <2>1 DEF ChallengeRow
  <2>3. challenges' = [challenges EXCEPT ![c] = row]
    BY <1>3 DEF MarkUsed
  <2>4. new \in VisitState /\ Held(new, users, Len(challenges))
    BY <1>1, PcTypes
  <2>5. visit' = [visit EXCEPT ![v] = new] /\ users' = users
    BY <1>3 DEF MarkUsed
  <2> HIDE DEF row, new
  <2>6. /\ challenges' \in Seq(ChallengeRow) /\ Len(challenges') = Len(challenges)
        /\ DOMAIN challenges' = DOMAIN challenges
    BY <1>1, <2>1, <2>2, <2>3
  <2>7. Kept
    BY <2>5, <2>6, Lengths DEF Kept
  <2>8. visit' \in [Visits -> VisitState] /\ VisitsHold'
    BY <2>4, <2>5, <2>6, <2>7, VisitMoves
  <2>9. passed' \in [DOMAIN challenges' -> Nat]
    <3>1. passed \in [DOMAIN challenges -> Nat] /\ passed' = [passed EXCEPT ![c] = @ + 1]
      BY <1>3 DEF MarkUsed, TypeInv, AccountsTypeOK
    <3> QED
      BY <1>1, <2>6, <3>1
  <2> QED
    BY <2>5, <2>6, <2>8, <2>9 DEF MarkUsed, TypeInv, AccountsTypeOK, Users
<1> QED
  BY <1>2, <1>3

\* What Create leaves a request with, and the row it inserts.
Named(s, i, p) == [s EXCEPT !.id = i, !.since = now, !.path = <<i>>, !.pc = p]
RowOf(v) == [addr |-> visit[v].addr, inviter |-> visit[v].inviter, disabled |-> FALSE]

LEMMA NamedTypes ==
  ASSUME NEW s \in VisitState, NEW i \in Nat, NEW p, p \in {"save", "parent"}, now \in Times
  PROVE  /\ Named(s, i, p) \in VisitState /\ Named(s, i, p).pc = p
         /\ Named(s, i, p).inviter = s.inviter /\ Named(s, i, p).id = i
         /\ Named(s, i, p).path = <<i>> /\ Named(s, i, p).addr = s.addr /\ Named(s, i, p).since = now
<1>1. <<i>> \in Seq(Nat)
  OBVIOUS
<1> QED
  BY <1>1 DEF VisitState, Named

\* The INSERT of Create, when the address is free.
Inserted(v, p) ==
  /\ users' = Append(users, RowOf(v))
  /\ paths' = Append(paths, <<>>) /\ shut' = Append(shut, now)
  /\ visit' = [visit EXCEPT ![v] = Named(visit[v], Len(users) + 1, p)]
  /\ p = IF visit[v].inviter = 0 THEN "save" ELSE "parent"
  /\ FindByAddress(visit[v].addr) = {}

LEMMA CreateCases ==
  ASSUME TypeInv, NEW v \in Visits, Create(v)
  PROVE  /\ UNCHANGED <<challenges, line, tokens, now, cut, passed, faults>>
         /\ \/ visit' = [visit EXCEPT ![v] = NoVisit] /\ UNCHANGED <<users, paths, shut>>
            \/ \E p \in {"save", "parent"} : Inserted(v, p)
<1>1. CASE FindByAddress(visit[v].addr) # {}
  BY <1>1 DEF Create
<1>2. CASE FindByAddress(visit[v].addr) = {}
  <2> DEFINE p == IF visit[v].inviter = 0 THEN "save" ELSE "parent"
  <2>1. visit' = [visit EXCEPT ![v] = Named(visit[v], Len(users) + 1, p)]
    BY <1>2 DEF Create, Named
  <2>2. Inserted(v, p)
    BY <1>2, <2>1 DEF Create, Inserted, RowOf
  <2> QED
    BY <2>2 DEF Create
<1> QED
  BY <1>1, <1>2

LEMMA InsertedRows ==
  ASSUME TypeInv, NEW v \in Visits, visit[v].pc = "create", NEW p \in {"save", "parent"}, Inserted(v, p)
  PROVE  /\ Len(users') = Len(users) + 1 /\ users' \in Seq(UserRow) /\ Users' = 1..(Len(users) + 1)
         /\ paths' \in Seq(Seq(Nat)) /\ Len(paths') = Len(users')
         /\ \A u \in Users : users'[u] = users[u] /\ paths'[u] = paths[u]
         /\ users'[Len(users) + 1] = RowOf(v)
         /\ paths'[Len(users) + 1] = <<>>
         /\ shut' \in [Users' -> Times] /\ \A u \in Users : shut'[u] = shut[u]
<1>1. RowOf(v) \in UserRow
  <2>1. visit[v].addr \in Addresses
    BY Lengths DEF Held
  <2>2. visit[v].inviter \in Nat
    BY Lengths DEF VisitState
  <2> QED
    BY <2>1, <2>2 DEF UserRow, RowOf
<1>2. users' = Append(users, RowOf(v)) /\ paths' = Append(paths, <<>>)
  BY DEF Inserted
<1>3. users \in Seq(UserRow) /\ paths \in Seq(Seq(Nat)) /\ <<>> \in Seq(Nat)
  BY DEF TypeInv, AccountsTypeOK
<1>4. /\ Len(users') = Len(users) + 1 /\ users' \in Seq(UserRow)
      /\ \A u \in Users : users'[u] = users[u]
      /\ users'[Len(users) + 1] = RowOf(v)
  BY <1>1, <1>2, <1>3 DEF Users
<1>5. /\ paths' \in Seq(Seq(Nat)) /\ Len(paths') = Len(paths) + 1
      /\ \A u \in DOMAIN paths : paths'[u] = paths[u]
      /\ paths'[Len(paths) + 1] = <<>>
  BY <1>2, <1>3
<1>6. Users' = 1..(Len(users) + 1)
  BY <1>4 DEF Users
<1>7. shut \in Seq(Times) /\ Len(shut) = Len(users)
  <2>1. shut \in [1..Len(users) -> Times] /\ Len(users) \in Nat
    BY Lengths DEF TypeInv, AccountsTypeOK
  <2> QED
    BY <2>1
<1>8. shut' \in [Users' -> Times] /\ \A u \in Users : shut'[u] = shut[u]
  <2>1. shut' = Append(shut, now) /\ now \in Times
    BY DEF Inserted, TypeInv, AccountsTypeOK
  <2>2. /\ shut' \in Seq(Times) /\ Len(shut') = Len(users) + 1
        /\ \A u \in 1..Len(users) : shut'[u] = shut[u]
    BY <1>7, <2>1
  <2> QED
    BY <1>6, <2>2, Lengths
<1> QED
  BY <1>4, <1>5, <1>6, <1>8, Lengths

LEMMA CreateTypes ==
  ASSUME TypeInv, NEW v \in Visits, Create(v) PROVE TypeInv'
<1> DEFINE s == visit[v]
<1>1. s \in VisitState /\ Held(s, users, Len(challenges)) /\ s.pc = "create"
  BY Lengths DEF Create
<1>2. UNCHANGED <<challenges, line, tokens, now, cut, passed, faults>>
  BY CreateCases
<1>3. CASE visit' = [visit EXCEPT ![v] = NoVisit] /\ UNCHANGED <<users, paths, shut>>
  <2>1. visit' \in [Visits -> VisitState] /\ VisitsHold'
    BY <1>2, <1>3, VisitStops
  <2> QED
    BY <1>2, <1>3, <2>1 DEF TypeInv, AccountsTypeOK, Users
<1>4. ASSUME NEW p \in {"save", "parent"}, Inserted(v, p) PROVE TypeInv'
  <2> DEFINE new == Named(s, Len(users) + 1, p)
  <2>1. /\ Len(users') = Len(users) + 1 /\ users' \in Seq(UserRow) /\ Users' = 1..(Len(users) + 1)
        /\ paths' \in Seq(Seq(Nat)) /\ Len(paths') = Len(users')
        /\ \A u \in Users : users'[u] = users[u]
        /\ users'[Len(users) + 1] = RowOf(v) /\ shut' \in [Users' -> Times]
    BY <1>1, <1>4, InsertedRows
  <2>a. RowOf(v).inviter = s.inviter
    BY DEF RowOf
  <2>2. /\ new \in VisitState /\ new.pc = p /\ new.inviter = s.inviter
        /\ new.id = Len(users) + 1 /\ new.addr = s.addr
    <3> DEFINE i == Len(users) + 1
    <3>1. i \in Nat /\ now \in Times
      BY Lengths DEF TypeInv, AccountsTypeOK
    <3> HIDE DEF i
    <3>2. /\ Named(s, i, p) \in VisitState /\ Named(s, i, p).pc = p /\ Named(s, i, p).inviter = s.inviter
          /\ Named(s, i, p).id = i /\ Named(s, i, p).addr = s.addr
      BY <1>1, <1>4, <3>1, NamedTypes
    <3> QED
      BY <3>2 DEF i
  <2>3. visit' = [visit EXCEPT ![v] = new] /\ (p = "parent" => s.inviter # 0)
    BY <1>4 DEF Inserted
  <2> HIDE DEF new
  <2>4. Kept
    BY <1>2, <2>1, Lengths DEF Kept
  <2>5. Held(new, users', Len(challenges'))
    BY <1>1, <2>1, <2>a, <2>2, <2>3, Lengths DEF Held
  <2>6. visit' \in [Visits -> VisitState] /\ VisitsHold'
    BY <2>2, <2>3, <2>4, <2>5, VisitMoves
  <2>7. line'.todo \subseteq Users' /\ cut' \subseteq Users' /\ tokens' \subseteq TokenSet'
    <3>1. Users \subseteq Users'
      BY <2>1, Lengths
    <3> QED
      BY <1>2, <3>1 DEF TypeInv, AccountsTypeOK, TokenSet
  <2> QED
    BY <1>2, <2>1, <2>6, <2>7 DEF TypeInv, AccountsTypeOK, TokenSet
<1> QED
  BY <1>3, <1>4, CreateCases

\* A request that has its path and saves it next.
Pathed(s, path) == [s EXCEPT !.pc = "save", !.path = path]

LEMMA PathedTypes ==
  ASSUME NEW s \in VisitState, NEW path \in Seq(Nat), NEW us, NEW n, Held(s, us, n),
         s.pc \in {"parent", "save"}
  PROVE  /\ Pathed(s, path) \in VisitState /\ Held(Pathed(s, path), us, n)
         /\ Pathed(s, path).pc = "save" /\ Pathed(s, path).path = path
         /\ Pathed(s, path).id = s.id /\ Pathed(s, path).inviter = s.inviter
BY DEF VisitState, Held, Pathed

\* What GetPath and GetPathFails do to the request: a path that ends in its id.
LEMMA GetPathMoves ==
  ASSUME TypeInv, NEW v \in Visits, GetPath(v) \/ GetPathFails(v)
  PROVE  /\ visit[v].pc = "parent" /\ visit[v].inviter \in Users /\ visit[v].id \in Users
         /\ visit[v].id \in Nat
         /\ \E path \in Seq(Nat) : /\ visit' = [visit EXCEPT ![v] = Pathed(visit[v], path)]
                                   /\ path = IF GetPath(v)
                                             THEN Append(paths[visit[v].inviter], visit[v].id)
                                             ELSE visit[v].path
<1> DEFINE s == visit[v]
<1>1. s \in VisitState /\ Held(s, users, Len(challenges)) /\ s.pc = "parent"
  BY Lengths DEF GetPath, GetPathFails
<1>2. s.inviter \in Users /\ s.id \in Users /\ s.id \in Nat
  BY <1>1, Lengths DEF Held
<1>3. CASE GetPath(v)
  <2> DEFINE path == Append(paths[s.inviter], s.id)
  <2>1. paths[s.inviter] \in Seq(Nat)
    BY <1>2, Lengths
  <2>2. path \in Seq(Nat)
    BY <1>2, <2>1
  <2>3. visit' = [visit EXCEPT ![v] = Pathed(s, path)]
    BY <1>3 DEF GetPath, Pathed
  <2> QED
    BY <1>1, <1>2, <1>3, <2>2, <2>3
<1>4. CASE GetPathFails(v) /\ ~GetPath(v)
  <2>1. s.path \in Seq(Nat)
    BY <1>1 DEF VisitState
  <2>2. Pathed(s, s.path) = [s EXCEPT !.pc = "save"]
    BY <1>1 DEF Pathed, VisitState
  <2>3. visit' = [visit EXCEPT ![v] = Pathed(s, s.path)]
    BY <1>4, <2>2 DEF GetPathFails
  <2> QED
    BY <1>1, <1>2, <1>4, <2>1, <2>3
<1> QED
  BY <1>3, <1>4

LEMMA GetPathTypes ==
  ASSUME TypeInv, NEW v \in Visits, GetPath(v) \/ GetPathFails(v) PROVE TypeInv'
<1>1. PICK path \in Seq(Nat) : visit' = [visit EXCEPT ![v] = Pathed(visit[v], path)]
  BY GetPathMoves
<1>2. visit[v].pc = "parent" /\ visit[v].id \in Users
  BY GetPathMoves
<1>3. Pathed(visit[v], path) \in VisitState /\ Held(Pathed(visit[v], path), users, Len(challenges))
  BY <1>2, Lengths, PathedTypes
<1>4. UNCHANGED <<users, paths, challenges, line, tokens, now, passed, shut>>
  BY DEF GetPath, GetPathFails
<1>5. visit' \in [Visits -> VisitState] /\ VisitsHold'
  BY <1>1, <1>3, <1>4, VisitGoesOn
<1>6. cut' \subseteq Users /\ faults' \in 0..MaxFaults
  BY <1>2, AccountsAssumption DEF GetPath, GetPathFails, TypeInv, AccountsTypeOK
<1> QED
  BY <1>4, <1>5, <1>6 DEF TypeInv, AccountsTypeOK, Users

LEMMA SaveTypes ==
  ASSUME TypeInv, NEW v \in Visits, SavePath(v) \/ SavePathFails(v) \/ IssueToken(v) \/ VisitEnds(v)
  PROVE  TypeInv'
<1> DEFINE s == visit[v]
<1>1. s \in VisitState /\ Held(s, users, Len(challenges))
  BY Lengths
<1>2. UNCHANGED <<users, challenges, line, now, passed, shut>>
  BY DEF SavePath, SavePathFails, IssueToken, VisitEnds
<1>3. visit' \in [Visits -> VisitState] /\ VisitsHold'
  <2>1. CASE SavePath(v) \/ SavePathFails(v)
    <3> DEFINE new == [s EXCEPT !.pc = "issue"]
    <3>1. new \in VisitState /\ Held(new, users, Len(challenges))
      BY <1>1, <2>1, PcTypes DEF SavePath, SavePathFails
    <3>2. visit' = [visit EXCEPT ![v] = new]
      BY <2>1 DEF SavePath, SavePathFails
    <3> HIDE DEF new
    <3> QED
      BY <1>2, <3>1, <3>2, VisitGoesOn
  <2>2. CASE IssueToken(v) \/ VisitEnds(v)
    BY <1>2, <2>2, VisitStops DEF IssueToken, VisitEnds
  <2> QED
    BY <2>1, <2>2
<1>4. s.pc \in {"parent", "save", "issue"} => s.id \in Users
  BY <1>1, Lengths DEF Held
<1>5. tokens' \subseteq TokenSet
  <2>1. CASE IssueToken(v)
    <3>1. s.id \in Users /\ s.since \in Times /\ tokens' = tokens \cup {Issue(s.id, s.since)}
      BY <1>1, <1>4, <2>1 DEF IssueToken, VisitState
    <3> QED
      BY <3>1, TokenTypes DEF TypeInv, AccountsTypeOK, TokenSet
  <2>2. CASE ~IssueToken(v)
    BY <2>2 DEF SavePath, SavePathFails, VisitEnds, TypeInv, AccountsTypeOK, TokenSet
  <2> QED
    BY <2>1, <2>2
<1>6. cut' \subseteq Users /\ faults' \in 0..MaxFaults
  <2>1. cut \subseteq Users /\ faults \in 0..MaxFaults /\ MaxFaults \in Nat
    BY AccountsAssumption DEF TypeInv, AccountsTypeOK
  <2>2. CASE SavePath(v) \/ IssueToken(v)
    BY <2>1, <2>2 DEF SavePath, IssueToken
  <2>3. CASE SavePathFails(v)
    BY <1>4, <2>1, <2>3 DEF SavePathFails
  <2>4. CASE VisitEnds(v)
    <3>1. cut' \subseteq Users
      BY <1>4, <2>1, <2>4 DEF VisitEnds
    <3>2. faults' = faults + 1 /\ faults < MaxFaults
      BY <2>4 DEF VisitEnds
    <3> QED
      BY <2>1, <3>1, <3>2
  <2> QED
    BY <2>2, <2>3, <2>4
<1>7. paths' \in Seq(Seq(Nat)) /\ Len(paths') = Len(users)
  <2>1. CASE SavePath(v)
    <3>1. s.id \in DOMAIN paths /\ s.path \in Seq(Nat)
      BY <1>1, <1>4, <2>1, Lengths DEF SavePath, VisitState
    <3>2. paths' = [paths EXCEPT ![s.id] = s.path] /\ paths \in Seq(Seq(Nat))
      BY <2>1 DEF SavePath, TypeInv, AccountsTypeOK
    <3> QED
      BY <3>1, <3>2, Lengths
  <2>2. CASE ~SavePath(v)
    BY <2>2, Lengths DEF SavePathFails, IssueToken, VisitEnds, TypeInv, AccountsTypeOK
  <2> QED
    BY <2>1, <2>2
<1> QED
  BY <1>2, <1>3, <1>5, <1>6, <1>7 DEF TypeInv, AccountsTypeOK, Users, TokenSet

LEMMA VisitingTypes ==
  ASSUME TypeInv, NEW v \in Visits, Visiting(v) PROVE TypeInv'
BY LoginTypes, MarkTypes, CreateTypes, GetPathTypes, SaveTypes DEF Visiting

LEMMA TickTypes ==
  ASSUME TypeInv, Tick PROVE TypeInv'
<1>1. UNCHANGED <<users, paths, challenges, visit, line, cut, passed, shut, faults>>
  BY DEF Tick
<1>2. now' \in Times
  BY AccountsAssumption DEF Tick, TypeInv, AccountsTypeOK, Times
<1>3. tokens' \subseteq TokenSet
  BY DEF Tick, TypeInv, AccountsTypeOK, TokenSet
<1>4. visit' \in [Visits -> VisitState] /\ VisitsHold'
  BY <1>1, SameIsKept, VisitsStay
<1> QED
  BY <1>1, <1>2, <1>3, <1>4 DEF TypeInv, AccountsTypeOK, Users, TokenSet

-----------------------------------------------------------------------------
(* The administrator's requests write nothing but disabled. *)

\* users with the lock of u written, and the history of it.
LEMMA LockRows ==
  ASSUME TypeInv, NEW u \in Users, NEW lock \in BOOLEAN,
         users' = WithLock(u, lock), shut' = Shut(u, lock)
  PROVE  /\ users' \in Seq(UserRow) /\ Len(users') = Len(users) /\ Users' = Users
         /\ shut' \in [Users -> Times]
         /\ \A w \in Users : /\ users'[w].inviter = users[w].inviter
                             /\ users'[w].addr = users[w].addr
                             /\ users'[w].disabled => \/ users[w].disabled /\ shut'[w] = shut[w]
                                                     \/ shut'[w] = now
<1> DEFINE row == [users[u] EXCEPT !.disabled = lock]
<1>1. users \in Seq(UserRow) /\ users[u] \in UserRow /\ shut \in [Users -> Times] /\ now \in Times
  BY Lengths DEF TypeInv, AccountsTypeOK
<1>2. row \in UserRow /\ row.addr = users[u].addr /\ row.inviter = users[u].inviter /\ row.disabled = lock
  BY <1>1 DEF UserRow
<1>3. users' = [users EXCEPT ![u] = row]
  BY DEF WithLock
<1> HIDE DEF row
<1>4. /\ users' \in Seq(UserRow) /\ Len(users') = Len(users) /\ DOMAIN users' = DOMAIN users
      /\ \A w \in DOMAIN users : users'[w] = IF w = u THEN row ELSE users[w]
  BY <1>1, <1>2, <1>3, Lengths
<1>5. Users' = Users
  BY <1>4 DEF Users
<1>6. /\ shut' \in [Users -> Times]
      /\ \A w \in Users : shut'[w] = IF w = u /\ lock /\ ~users[u].disabled THEN now ELSE shut[w]
  BY <1>1 DEF Shut
<1> QED
  BY <1>2, <1>4, <1>5, <1>6 DEF Users

LEMMA LineTypes == NoLine \in LineState /\ NoLine.todo = {}
BY DEF NoLine, LineRequest, LineState

LEMMA InBoolean == \A x, S : (x \in S) \in BOOLEAN
OBVIOUS

LEMMA LineAsked ==
  ASSUME TypeInv, NEW u \in Users, NEW on \in BOOLEAN, SetLineLock(u, on)
  PROVE  line' \in LineState /\ line'.todo = {}
<1> DEFINE prefix == IF paths[u] = <<>> THEN <<u>> ELSE paths[u]
           rash == u \in Unfinished
<1>1. u \in Nat /\ paths[u] \in Seq(Nat)
  BY Lengths
<1>2. prefix \in Seq(Nat)
  <2>1. <<u>> \in Seq(Nat)
    BY <1>1
  <2> QED
    BY <1>1, <2>1
<1>3. rash \in BOOLEAN
  BY InBoolean
<1>4. line' = LineRequest("list", u, on, prefix, rash)
  BY DEF SetLineLock
<1> HIDE DEF prefix, rash
<1> QED
  BY <1>1, <1>2, <1>3, <1>4 DEF LineRequest, LineState

\* What Locking does: it writes the lock of one user, or of none, and the rest of it is its own.
LEMMA LockingMoves ==
  ASSUME TypeInv, Locking
  PROVE  /\ UNCHANGED <<paths, challenges, visit, tokens, now, cut, passed>>
         /\ \/ UNCHANGED <<users, shut>>
            \/ \E u \in Users, lock \in BOOLEAN : users' = WithLock(u, lock) /\ shut' = Shut(u, lock)
         /\ line' \in LineState /\ line'.todo \subseteq Users /\ faults' \in 0..MaxFaults
<1>1. ASSUME NEW u \in Users, NEW on \in BOOLEAN, SetLineLock(u, on) \/ SetUserLock(u, on)
      PROVE  /\ UNCHANGED <<paths, challenges, visit, tokens, now, cut, passed, faults>>
             /\ \/ UNCHANGED <<users, shut>>
                \/ users' = WithLock(u, on) /\ shut' = Shut(u, on)
             /\ line' \in LineState /\ line'.todo \subseteq Users
  <2>1. CASE SetUserLock(u, on)
    BY <2>1 DEF SetUserLock, TypeInv, AccountsTypeOK
  <2>2. CASE SetLineLock(u, on)
    <3>1. line' \in LineState /\ line'.todo = {}
      BY <1>1, <2>2, LineAsked
    <3> QED
      BY <2>2, <3>1 DEF SetLineLock
  <2> QED
    BY <1>1, <2>1, <2>2
<1>2. ASSUME ListByPathPrefix
      PROVE  /\ UNCHANGED <<users, paths, challenges, visit, tokens, now, cut, passed, shut, faults>>
             /\ line' \in LineState /\ line'.todo \subseteq Users
  <2> DEFINE found == {v \in Users : IsPrefix(line.prefix, paths[v])}
             tree == Tree(line.root)
             intact == Intact(line.root)
  <2>1. Users \subseteq Nat /\ found \subseteq Users /\ tree \subseteq Users /\ intact \subseteq Users
    BY Lengths DEF Tree, Intact
  <2>2. line' = [line EXCEPT !.pc = "lock", !.listed = found, !.todo = found, !.tree = tree, !.intact = intact]
    BY <1>2 DEF ListByPathPrefix
  <2> HIDE DEF found, tree, intact
  <2>3. line \in LineState
    BY DEF TypeInv, AccountsTypeOK
  <2>4. line' \in LineState /\ line'.todo = found
    BY <2>1, <2>2, <2>3 DEF LineState
  <2> QED
    BY <1>2, <2>1, <2>4 DEF ListByPathPrefix
<1>3. ASSUME LockNext
      PROVE  /\ UNCHANGED <<paths, challenges, visit, tokens, now, cut, passed, faults>>
             /\ \/ UNCHANGED <<users, shut>>
                \/ \E u \in Users, lock \in BOOLEAN : users' = WithLock(u, lock) /\ shut' = Shut(u, lock)
             /\ line' \in LineState /\ line'.todo \subseteq Users
  <2>1. CASE line' = NoLine /\ UNCHANGED <<users, shut>>
    BY <1>3, <2>1, LineTypes DEF LockNext
  <2>2. ASSUME NEW u \in line.todo, users' = WithLock(u, line.lock), shut' = Shut(u, line.lock),
               line' = [line EXCEPT !.todo = @ \ {u}]
        PROVE  /\ line' \in LineState /\ line'.todo \subseteq Users
               /\ \E w \in Users, lock \in BOOLEAN : users' = WithLock(w, lock) /\ shut' = Shut(w, lock)
    <3>1. line \in LineState /\ line.todo \subseteq Users
      BY DEF TypeInv, AccountsTypeOK
    <3>2. line.lock \in BOOLEAN /\ u \in Users
      BY <2>2, <3>1 DEF LineState
    <3>3. line' \in LineState /\ line'.todo = line.todo \ {u}
      BY <2>2, <3>1 DEF LineState
    <3> QED
      BY <2>2, <3>1, <3>2, <3>3
  <2> QED
    BY <1>3, <2>1, <2>2 DEF LockNext
<1>4. ASSUME LineEnds
      PROVE  /\ UNCHANGED <<users, paths, challenges, visit, tokens, now, cut, passed, shut>>
             /\ line' \in LineState /\ line'.todo \subseteq Users /\ faults' \in 0..MaxFaults
  BY <1>4, LineTypes, AccountsAssumption DEF LineEnds, TypeInv, AccountsTypeOK
<1>5. faults \in 0..MaxFaults
  BY DEF TypeInv, AccountsTypeOK
<1>6. CASE \E u \in Users, lock \in {"", "0", "1"}, one \in {"", "1"} : CompatAdminLockUser(u, lock, one)
  <2>1. \E u \in Users, on \in BOOLEAN : SetLineLock(u, on) \/ SetUserLock(u, on)
    <3>1. PICK u \in Users, lock \in {"", "0", "1"}, one \in {"", "1"} : CompatAdminLockUser(u, lock, one)
      BY <1>6
    <3> DEFINE on == lock \in {"1", "true"}
    <3>2. on \in BOOLEAN
      BY InBoolean
    <3>3. SetLineLock(u, on) \/ SetUserLock(u, on)
      BY <3>1, Zenon DEF CompatAdminLockUser
    <3> HIDE DEF on
    <3> QED
      BY <3>2, <3>3
  <2> QED
    BY <1>1, <1>5, <2>1
<1> QED
  BY <1>2, <1>3, <1>4, <1>5, <1>6 DEF Locking

\* The users after a step of Locking: the same but for their locks, and a lock is as old as it was
\* or of this moment.
LEMMA LockingRows ==
  ASSUME TypeInv, Locking
  PROVE  /\ users' \in Seq(UserRow) /\ Len(users') = Len(users) /\ Users' = Users
         /\ shut' \in [Users -> Times]
         /\ \A w \in Users : /\ users'[w].inviter = users[w].inviter
                             /\ users'[w].addr = users[w].addr
                             /\ users'[w].disabled => \/ users[w].disabled /\ shut'[w] = shut[w]
                                                     \/ shut'[w] = now
<1>1. CASE UNCHANGED <<users, shut>>
  BY <1>1 DEF TypeInv, AccountsTypeOK, Users
<1>2. CASE \E u \in Users, lock \in BOOLEAN : users' = WithLock(u, lock) /\ shut' = Shut(u, lock)
  BY <1>2, LockRows
<1> QED
  BY <1>1, <1>2, LockingMoves

LEMMA LockingTypes ==
  ASSUME TypeInv, Locking PROVE TypeInv'
<1>1. UNCHANGED <<paths, challenges, visit, tokens, now, cut, passed>>
  BY LockingMoves
<1>2. /\ users' \in Seq(UserRow) /\ Len(users') = Len(users) /\ Users' = Users
      /\ shut' \in [Users -> Times]
      /\ \A w \in Users : users'[w].inviter = users[w].inviter
  BY LockingRows
<1>3. Kept
  BY <1>1, <1>2, Lengths DEF Kept
<1>4. visit' \in [Visits -> VisitState] /\ VisitsHold'
  BY <1>1, <1>3, VisitsStay
<1>5. line' \in LineState /\ line'.todo \subseteq Users /\ faults' \in 0..MaxFaults
  BY LockingMoves
<1> QED
  BY <1>1, <1>2, <1>4, <1>5 DEF TypeInv, AccountsTypeOK

LEMMA StepTypes == TypeInv /\ [AccountsNext]_accountVars => TypeInv'
<1> SUFFICES ASSUME TypeInv, [AccountsNext]_accountVars PROVE TypeInv'
  OBVIOUS
<1>1. CASE UNCHANGED accountVars
  BY <1>1 DEF accountVars, TypeInv, AccountsTypeOK, VisitsHold, Users
<1> QED
  BY <1>1, ChallengeTypes, VisitingTypes, LockingTypes, TickTypes DEF AccountsNext

\* Type correctness of the accounts.
THEOREM AccountsTypeCorrect == AccountsSpec => []AccountsTypeOK
<1>1. AccountsSpec => []TypeInv
  BY InitTypes, StepTypes, PTL DEF AccountsSpec
<1>2. TypeInv => AccountsTypeOK
  BY DEF TypeInv
<1> QED
  BY <1>1, <1>2, PTL

-----------------------------------------------------------------------------
(* A challenge lets one login through: once it has, it is marked. *)

NonceInv == \A c \in DOMAIN challenges : passed[c] <= IF challenges[c].used THEN 1 ELSE 0

LEMMA StepNonce ==
  ASSUME TypeInv, NonceInv, [AccountsNext]_accountVars PROVE NonceInv'
<1>0. /\ passed \in [DOMAIN challenges -> Nat] /\ challenges \in Seq(ChallengeRow)
      /\ DOMAIN challenges = 1..Len(challenges) /\ Len(challenges) \in Nat
  BY Lengths DEF TypeInv, AccountsTypeOK
<1>1. CASE UNCHANGED <<challenges, passed>>
  BY <1>1 DEF NonceInv
<1>2. ASSUME NEW a \in Addresses, CreateLoginChallenge(a) PROVE NonceInv'
  <2> DEFINE row == [addr |-> a, used |-> FALSE, lapsed |-> FALSE]
  <2>1. row \in ChallengeRow /\ ~row.used
    BY DEF ChallengeRow
  <2>2. challenges' = Append(challenges, row) /\ passed' = Append(passed, 0)
    BY <1>2 DEF CreateLoginChallenge
  <2> HIDE DEF row
  <2>3. passed \in Seq(Nat) /\ Len(passed) = Len(challenges)
    <3>1. passed \in [1..Len(challenges) -> Nat]
      BY <1>0
    <3> QED
      BY <1>0, <3>1
  <2>4. /\ DOMAIN challenges' = 1..(Len(challenges) + 1)
        /\ \A c \in DOMAIN challenges : challenges'[c] = challenges[c] /\ passed'[c] = passed[c]
        /\ challenges'[Len(challenges) + 1] = row /\ passed'[Len(challenges) + 1] = 0
    BY <1>0, <2>1, <2>2, <2>3
  <2>5. ASSUME NEW c \in 1..(Len(challenges) + 1)
        PROVE  passed'[c] <= IF challenges'[c].used THEN 1 ELSE 0
    <3>1. CASE c \in DOMAIN challenges
      BY <2>4, <3>1 DEF NonceInv
    <3>2. CASE c = Len(challenges) + 1
      BY <2>1, <2>4, <3>2
    <3> QED
      BY <1>0, <2>5, <3>1, <3>2
  <2> QED
    BY <2>4, <2>5 DEF NonceInv
<1>3. ASSUME NEW c \in DOMAIN challenges, Lapse(c) PROVE NonceInv'
  <2> DEFINE row == [challenges[c] EXCEPT !.lapsed = TRUE]
  <2>1. challenges[c] \in ChallengeRow
    BY <1>0, <1>3
  <2>2. row.used = challenges[c].used
    BY <2>1 DEF ChallengeRow
  <2>3. challenges' = [challenges EXCEPT ![c] = row] /\ passed' = passed
    BY <1>3 DEF Lapse
  <2> HIDE DEF row
  <2> QED
    BY <1>0, <1>3, <2>2, <2>3 DEF NonceInv
<1>4. ASSUME NEW v \in Visits, MarkUsed(v) PROVE NonceInv'
  <2> DEFINE c == visit[v].nonce
             row == [challenges[c] EXCEPT !.used = TRUE]
  <2>1. CASE challenges[c].used
    BY <1>1, <1>4, <2>1 DEF MarkUsed
  <2>2. CASE ~challenges[c].used
    <3>1. c \in DOMAIN challenges
      BY <1>4, Lengths DEF MarkUsed, Held
    <3>2. challenges[c] \in ChallengeRow
      BY <1>0, <3>1
    <3>3. row.used
      BY <3>2 DEF ChallengeRow
    <3>4. challenges' = [challenges EXCEPT ![c] = row] /\ passed' = [passed EXCEPT ![c] = @ + 1]
      BY <1>4, <2>2 DEF MarkUsed
    <3>5. passed[c] <= 0 /\ passed[c] \in Nat
      BY <1>0, <2>2, <3>1 DEF NonceInv
    <3> HIDE DEF row, c
    <3> QED
      BY <1>0, <3>1, <3>3, <3>4, <3>5 DEF NonceInv
  <2> QED
    BY <2>1, <2>2
<1>5. ASSUME NEW v \in Visits, Visiting(v), ~MarkUsed(v) PROVE NonceInv'
  <2>1. UNCHANGED <<challenges, passed>>
    BY <1>5 DEF Visiting, LoginVerify, CompatEthAuthorize, FindUsable, EthAuthorize, FindKnown, FindNone,
                FindInviter, Create, GetPath, GetPathFails, SavePath, SavePathFails, IssueToken, VisitEnds
  <2> QED
    BY <1>1, <2>1
<1>6. CASE Locking
  BY <1>1, <1>6, LockingMoves
<1>7. CASE Tick \/ UNCHANGED accountVars
  BY <1>1, <1>7 DEF Tick, accountVars
<1> QED
  BY <1>2, <1>3, <1>4, <1>5, <1>6, <1>7 DEF AccountsNext, Challenge, LoginChallenge

\* However many requests present a challenge at once, it lets one login through.
THEOREM ChallengesLetOneThrough == AccountsSpec => []NonceOnce
<1>1. AccountsInit => NonceInv
  BY DEF AccountsInit, NonceInv
<1>2. AccountsSpec => []TypeInv
  BY InitTypes, StepTypes, PTL DEF AccountsSpec
<1>3. AccountsSpec => []NonceInv
  BY <1>1, <1>2, StepNonce, PTL DEF AccountsSpec
<1>4. TypeInv /\ NonceInv => NonceOnce
  <2> SUFFICES ASSUME TypeInv, NonceInv, NEW c \in DOMAIN passed PROVE passed[c] <= 1
    BY DEF NonceOnce
  <2>1. c \in DOMAIN challenges /\ passed[c] \in Nat
    BY DEF TypeInv, AccountsTypeOK
  <2> QED
    BY <2>1 DEF NonceInv
<1> QED
  BY <1>2, <1>3, <1>4, PTL

-----------------------------------------------------------------------------
(* The users table only grows, by the user whose address was free; his      *)
(* inviter has an id already.                                               *)

\* What a step does to the users: nothing, a lock set or lifted, or the INSERT.
LEMMA UserSteps ==
  ASSUME TypeInv, [AccountsNext]_accountVars
  PROVE  \/ UNCHANGED <<users, paths, visit>>
         \/ Locking
         \/ \E v \in Visits : Visiting(v)
BY DEF AccountsNext, Challenge, LoginChallenge, CreateLoginChallenge, Lapse, Tick, accountVars

LEMMA VisitUsers ==
  ASSUME TypeInv, NEW v \in Visits, Visiting(v)
  PROVE  \/ users' = users
         \/ visit[v].pc = "create" /\ \E p \in {"save", "parent"} : Inserted(v, p)
<1>1. CASE Create(v)
  BY <1>1, CreateCases DEF Create
<1>2. CASE ~Create(v)
  BY <1>2 DEF Visiting, LoginVerify, CompatEthAuthorize, FindUsable, EthAuthorize, MarkUsed, FindKnown,
              FindNone, FindInviter, GetPath, GetPathFails, SavePath, SavePathFails, IssueToken, VisitEnds
<1> QED
  BY <1>1, <1>2

LEMMA StepForest ==
  ASSUME TypeInv, ReferralForest, [AccountsNext]_accountVars PROVE ReferralForest'
<1>1. CASE users' = users
  BY <1>1 DEF ReferralForest, FindByAddress, Users
<1>2. CASE Locking
  <2>1. /\ Users' = Users
        /\ \A w \in Users : users'[w].inviter = users[w].inviter /\ users'[w].addr = users[w].addr
    BY <1>2, LockingRows
  <2> QED
    BY <2>1 DEF ReferralForest, FindByAddress
<1>3. ASSUME NEW v \in Visits, visit[v].pc = "create", NEW p \in {"save", "parent"}, Inserted(v, p)
      PROVE  ReferralForest'
  <2> DEFINE id == Len(users) + 1
  <2>1. /\ Users' = 1..id /\ \A u \in Users : users'[u] = users[u]
        /\ users'[id] = RowOf(v)
    BY <1>3, InsertedRows
  <2>2. /\ RowOf(v).addr = visit[v].addr /\ RowOf(v).inviter = visit[v].inviter
        /\ visit[v].inviter \in 0..Len(users)
    BY Lengths DEF RowOf, Held
  <2>3. \A u \in Users : users[u].addr # visit[v].addr
    BY <1>3 DEF Inserted, FindByAddress
  <2>4. Users = 1..Len(users) /\ Len(users) \in Nat
    BY Lengths
  <2>5. ASSUME NEW u \in 1..id
        PROVE  users'[u].inviter \in 0..(u - 1) /\ \A w \in 1..id : users'[w].addr = users'[u].addr <=> w = u
    <3>1. CASE u \in Users
      <4>1. users'[u].inviter \in 0..(u - 1) /\ FindByAddress(users[u].addr) = {u}
        BY <2>1, <3>1 DEF ReferralForest
      <4>2. \A w \in Users : users[w].addr = users[u].addr <=> w = u
        BY <4>1 DEF FindByAddress
      <4> QED
        BY <2>1, <2>2, <2>3, <2>4, <3>1, <4>1, <4>2
    <3>2. CASE u = id
      BY <2>1, <2>2, <2>3, <2>4, <3>2
    <3> QED
      BY <2>4, <3>1, <3>2
  <2> QED
    BY <2>1, <2>5 DEF ReferralForest, FindByAddress
<1> QED
  BY <1>1, <1>2, <1>3, UserSteps, VisitUsers

\* The referrals are a forest, however registrations overlap.
THEOREM ReferralsAreAForest == AccountsSpec => []ReferralForest
<1>1. AccountsInit => ReferralForest
  BY DEF AccountsInit, ReferralForest, Users
<1>2. AccountsSpec => []TypeInv
  BY InitTypes, StepTypes, PTL DEF AccountsSpec
<1> QED
  BY <1>1, <1>2, StepForest, PTL DEF AccountsSpec

-----------------------------------------------------------------------------
(* A lock shuts a user out.  A token may be of a request that had found its  *)
(* user unlocked before: what must hold of it is said of the request first.   *)

\* Whoever is locked, the request s had him in hand before that.
Sooner(s, us, sh) == us[s.id].disabled => s.since <= sh[s.id]

VisitInv ==
  \A v \in Visits :
    /\ visit[v].since <= now
    /\ visit[v].pc \in {"parent", "save", "issue"} => Sooner(visit[v], users, shut)

TokenInv ==
  \A t \in tokens :
    /\ now < t.exp /\ t.exp <= now + TokenTTL /\ t.took >= 0
    /\ users[t.user].disabled => t.exp <= shut[t.user] + TokenTTL + t.took

LEMMA TokenFacts ==
  ASSUME TypeInv
  PROVE  /\ now \in Nat /\ TokenTTL \in Nat /\ TokenTTL > 0
         /\ \A t \in tokens : t.user \in Users /\ t.exp \in Nat /\ t.took \in Int
         /\ \A u \in Users : shut[u] \in Nat
         /\ \A v \in Visits : /\ visit[v].since \in Nat
                              /\ visit[v].pc \in {"parent", "save", "issue"} => visit[v].id \in Users
<1>1. \A v \in Visits : visit[v] \in VisitState /\ Held(visit[v], users, Len(challenges))
  BY Lengths
<1>2. \A v \in Visits : visit[v].since \in Nat
  BY <1>1, AccountsAssumption DEF VisitState, Times
<1>3. \A v \in Visits : visit[v].pc \in {"parent", "save", "issue"} => visit[v].id \in Users
  BY <1>1, Lengths DEF Held
<1> QED
  BY <1>2, <1>3, AccountsAssumption DEF TypeInv, AccountsTypeOK, Times

\* A step that leaves every lock as it was, or sets it now, and the requests and tokens alone.
LEMMA LocksAge ==
  ASSUME TypeInv, TokenInv, VisitInv, UNCHANGED <<visit, now>>, tokens' \subseteq tokens,
         \A u \in Users : /\ users'[u].disabled => \/ users[u].disabled /\ shut'[u] = shut[u]
                                                  \/ shut'[u] = now
  PROVE  TokenInv' /\ VisitInv'
<1>1. TokenInv'
  <2> SUFFICES ASSUME NEW t \in tokens'
               PROVE  /\ now < t.exp /\ t.exp <= now + TokenTTL /\ t.took >= 0
                      /\ users'[t.user].disabled => t.exp <= shut'[t.user] + TokenTTL + t.took
    BY DEF TokenInv
  <2>1. t \in tokens
    OBVIOUS
  <2> QED
    BY <2>1, TokenFacts DEF TokenInv
<1>2. VisitInv'
  <2> SUFFICES ASSUME NEW v \in Visits
               PROVE  /\ visit[v].since <= now
                      /\ visit[v].pc \in {"parent", "save", "issue"} => Sooner(visit[v], users', shut')
    BY DEF VisitInv
  <2> QED
    BY TokenFacts DEF VisitInv, Sooner
<1> QED
  BY <1>1, <1>2

\* A step of one request that leaves the users and the tokens there were alone.
LEMMA VisitAges ==
  ASSUME TypeInv, TokenInv, VisitInv, NEW v \in Visits, UNCHANGED now, tokens' \subseteq tokens,
         \A u \in Users : users'[u] = users[u] /\ shut'[u] = shut[u],
         \A w \in Visits \ {v} : visit'[w] = visit[w],
         visit'[v].since <= now,
         visit'[v].pc \in {"parent", "save", "issue"} => Sooner(visit'[v], users', shut')
  PROVE  TokenInv' /\ VisitInv'
<1>1. TokenInv'
  BY TokenFacts DEF TokenInv
<1>2. VisitInv'
  BY TokenFacts DEF VisitInv, Sooner
<1> QED
  BY <1>1, <1>2

\* A step of a request, other than the INSERT of its user and the issue of its token.
LEMMA StepVisitAges ==
  ASSUME TypeInv, TokenInv, VisitInv, NEW v \in Visits, Visiting(v), ~Create(v), ~IssueToken(v)
  PROVE  /\ UNCHANGED <<users, shut, now, tokens>>
         /\ \A w \in Visits \ {v} : visit'[w] = visit[w]
         /\ visit'[v].since <= now
         /\ visit'[v].pc \in {"parent", "save", "issue"} => Sooner(visit'[v], users, shut)
<1> DEFINE s == visit[v]
<1>0. /\ visit \in [Visits -> VisitState] /\ s \in VisitState /\ now \in Nat /\ s.since <= now
      /\ NoVisit.pc = "idle" /\ NoVisit.since = 0
      /\ \A pc, a, code, c : Request(pc, a, code, c).pc = pc /\ Request(pc, a, code, c).since = 0
  BY TokenFacts DEF TypeInv, AccountsTypeOK, VisitInv, NoVisit, Request
<1>1. UNCHANGED <<users, shut, now, tokens>>
  BY DEF Visiting, LoginVerify, CompatEthAuthorize, FindUsable, EthAuthorize, MarkUsed, FindKnown, FindNone,
     FindInviter, GetPath, GetPathFails, SavePath, SavePathFails, VisitEnds
<1>2. CASE LoginVerify(v) \/ CompatEthAuthorize(v)
  BY <1>0, <1>1, <1>2 DEF LoginVerify, CompatEthAuthorize, FindUsable, EthAuthorize
<1>3. CASE MarkUsed(v) \/ FindNone(v) \/ FindInviter(v)
  <2>1. /\ \A w \in Visits \ {v} : visit'[w] = visit[w]
        /\ visit'[v].since \in {0, s.since} /\ visit'[v].pc \in {"idle", "find", "inviter", "create"}
    <3>1. CASE MarkUsed(v)
      BY <1>0, <3>1 DEF MarkUsed, VisitState
    <3>2. CASE FindNone(v)
      BY <1>0, <3>2 DEF FindNone, VisitState
    <3>3. CASE FindInviter(v)
      BY <1>0, <3>3 DEF FindInviter, VisitState
    <3> QED
      BY <1>3, <3>1, <3>2, <3>3
  <2> QED
    BY <1>0, <1>1, <2>1
<1>4. CASE FindKnown(v)
  <2>1. PICK u \in FindByAddress(s.addr) :
          visit' = [visit EXCEPT ![v] = IF users[u].disabled THEN NoVisit ELSE Found(s, u)]
    BY <1>4 DEF FindKnown, Found
  <2>2. \A w \in Visits \ {v} : visit'[w] = visit[w]
    BY <1>0, <2>1
  <2>3. CASE users[u].disabled
    <3>1. visit'[v] = NoVisit
      BY <1>0, <2>1, <2>3
    <3> QED
      BY <1>0, <1>1, <2>2, <3>1
  <2>4. CASE ~users[u].disabled
    <3>1. visit'[v] = Found(s, u)
      BY <1>0, <2>1, <2>4
    <3>2. Found(s, u).id = u /\ Found(s, u).since = now
      BY <1>0 DEF Found, VisitState
    <3> QED
      BY <1>0, <1>1, <2>2, <2>4, <3>1, <3>2 DEF Sooner
  <2> QED
    BY <2>3, <2>4
<1>5. CASE GetPath(v) \/ GetPathFails(v) \/ SavePath(v) \/ SavePathFails(v)
  <2>1. s.pc \in {"parent", "save"}
    BY <1>5 DEF GetPath, GetPathFails, SavePath, SavePathFails
  <2>2. /\ \A w \in Visits \ {v} : visit'[w] = visit[w]
        /\ visit'[v].since = s.since /\ visit'[v].id = s.id
    BY <1>0, <1>5 DEF GetPath, GetPathFails, SavePath, SavePathFails, VisitState
  <2>3. Sooner(s, users, shut)
    BY <2>1 DEF VisitInv
  <2> QED
    BY <1>0, <1>1, <2>2, <2>3 DEF Sooner
<1>6. CASE VisitEnds(v)
  <2>1. visit'[v] = NoVisit /\ \A w \in Visits \ {v} : visit'[w] = visit[w]
    BY <1>0, <1>6 DEF VisitEnds
  <2> QED
    BY <1>0, <1>1, <2>1
<1> QED
  BY <1>2, <1>3, <1>4, <1>5, <1>6 DEF Visiting

\* The user of a request, found or created at `since`, is locked no sooner; the token it gives him
\* expires TokenTTL after now.
LEMMA IssueAges ==
  ASSUME TypeInv, TokenInv, VisitInv, NEW v \in Visits, IssueToken(v) PROVE TokenInv' /\ VisitInv'
<1> DEFINE s == visit[v]
           token == Issue(s.id, s.since)
<1>0. /\ s.pc = "issue" /\ UNCHANGED <<users, shut, now>> /\ tokens' = tokens \cup {token}
      /\ visit' = [visit EXCEPT ![v] = NoVisit]
  BY DEF IssueToken
<1>1. token.user = s.id /\ token.exp = now + TokenTTL /\ token.took = now - s.since
  BY DEF Issue
<1>2. /\ now \in Nat /\ TokenTTL \in Nat /\ TokenTTL > 0 /\ s.id \in Users /\ s.since \in Nat
      /\ shut[s.id] \in Nat
  BY <1>0, TokenFacts
<1>3. s.since <= now /\ (users[s.id].disabled => s.since <= shut[s.id])
  BY <1>0 DEF VisitInv, Sooner
<1> HIDE DEF token
<1>4. /\ now < token.exp /\ token.exp <= now + TokenTTL /\ token.took >= 0
      /\ users[token.user].disabled => token.exp <= shut[token.user] + TokenTTL + token.took
  BY <1>1, <1>2, <1>3
<1>5. TokenInv'
  BY <1>0, <1>4 DEF TokenInv
<1>6. VisitInv'
  <2>1. NoVisit.pc = "idle" /\ NoVisit.since = 0
    BY DEF NoVisit, Request
  <2>2. \A w \in Visits : visit'[w] = IF w = v THEN NoVisit ELSE visit[w]
    BY <1>0 DEF TypeInv, AccountsTypeOK
  <2> QED
    BY <1>0, <1>2, <2>1, <2>2 DEF VisitInv
<1> QED
  BY <1>5, <1>6

\* A user is created unlocked, and in the hands of his request from then on.
LEMMA CreateAges ==
  ASSUME TypeInv, TokenInv, VisitInv, NEW v \in Visits, Create(v) PROVE TokenInv' /\ VisitInv'
<1> DEFINE s == visit[v]
<1>0. /\ visit \in [Visits -> VisitState] /\ s \in VisitState /\ s.pc = "create" /\ now \in Times
      /\ now \in Nat /\ UNCHANGED <<now, tokens>>
  BY TokenFacts DEF Create, TypeInv, AccountsTypeOK
<1>1. CASE visit' = [visit EXCEPT ![v] = NoVisit] /\ UNCHANGED <<users, paths, shut>>
  <2>1. NoVisit.pc = "idle" /\ NoVisit.since = 0
    BY DEF NoVisit, Request
  <2>2. visit'[v] = NoVisit /\ \A w \in Visits \ {v} : visit'[w] = visit[w]
    BY <1>0, <1>1
  <2> QED
    BY <1>0, <1>1, <2>1, <2>2, VisitAges
<1>2. ASSUME NEW p \in {"save", "parent"}, Inserted(v, p) PROVE TokenInv' /\ VisitInv'
  <2> DEFINE id == Len(users) + 1
  <2>1. /\ users'[id] = RowOf(v)
        /\ \A u \in Users : users'[u] = users[u] /\ shut'[u] = shut[u]
    BY <1>0, <1>2, InsertedRows
  <2>2. id \in Nat
    BY Lengths
  <2>3. visit' = [visit EXCEPT ![v] = Named(s, id, p)]
    BY <1>2 DEF Inserted
  <2> HIDE DEF id
  <2>4. Named(s, id, p).id = id /\ Named(s, id, p).since = now
    BY <1>0, <1>2, <2>2, NamedTypes
  <2>5. visit'[v] = Named(s, id, p) /\ \A w \in Visits \ {v} : visit'[w] = visit[w]
    BY <1>0, <2>3
  <2>6. ~users'[id].disabled
    BY <2>1 DEF RowOf
  <2>7. Sooner(visit'[v], users', shut') /\ visit'[v].since <= now
    BY <1>0, <2>4, <2>5, <2>6 DEF Sooner
  <2> QED
    BY <1>0, <2>1, <2>5, <2>7, VisitAges
<1> QED
  BY <1>1, <1>2, CreateCases

LEMMA StepTokens ==
  ASSUME TypeInv, TokenInv, VisitInv, [AccountsNext]_accountVars PROVE TokenInv' /\ VisitInv'
<1>1. CASE Challenge \/ UNCHANGED accountVars
  <2>1. UNCHANGED <<users, shut, visit, tokens, now>>
    BY <1>1 DEF Challenge, LoginChallenge, CreateLoginChallenge, Lapse, accountVars
  <2> QED
    BY <2>1, LocksAge
<1>2. CASE Locking
  BY <1>2, LockingMoves, LockingRows, LocksAge
<1>3. CASE Tick
  <2>1. /\ now' = now + 1 /\ UNCHANGED <<users, visit, shut>>
        /\ \A t \in tokens' : t \in tokens /\ now + 1 < t.exp
    BY <1>3 DEF Tick, RequireJWT
  <2>2. TokenInv'
    BY <2>1, TokenFacts DEF TokenInv
  <2>3. VisitInv'
    BY <2>1, TokenFacts DEF VisitInv
  <2> QED
    BY <2>2, <2>3
<1>4. ASSUME NEW v \in Visits, Visiting(v) PROVE TokenInv' /\ VisitInv'
  <2>1. CASE ~Create(v) /\ ~IssueToken(v)
    BY <1>4, <2>1, StepVisitAges, VisitAges
  <2> QED
    BY <2>1, CreateAges, IssueAges
<1> QED
  BY <1>1, <1>2, <1>3, <1>4 DEF AccountsNext

\* The token of a locked user outlives the lock by no more than TokenTTL and the time its request took
\* from the statement that found him unlocked, or created him, to the issue of the token.
THEOREM LocksShutOut == AccountsSpec => []LockedOut
<1>1. AccountsInit => TokenInv /\ VisitInv
  BY DEF AccountsInit, TokenInv, VisitInv, NoVisit, Request
<1>2. AccountsSpec => []TypeInv
  BY InitTypes, StepTypes, PTL DEF AccountsSpec
<1>3. AccountsSpec => [](TokenInv /\ VisitInv)
  BY <1>1, <1>2, StepTokens, PTL DEF AccountsSpec
<1>4. TokenInv => LockedOut
  BY DEF TokenInv, LockedOut
<1> QED
  BY <1>3, <1>4, PTL

-----------------------------------------------------------------------------
(* A path names no stranger.  The same must be said of the path a request   *)
(* is about to save.                                                        *)

\* p leads to u, each id on it invited by the one before.
ChainTo(p, u, us) ==
  /\ p \in Seq(Nat) /\ p # <<>> /\ p[Len(p)] = u
  /\ \A i \in 1..Len(p) : p[i] \in 1..Len(us)
  /\ \A i \in 1..(Len(p) - 1) : p[i] = us[p[i + 1]].inviter

PathsChain == \A u \in Users : paths[u] # <<>> => ChainTo(paths[u], u, users)
VisitsChain == \A v \in Visits : visit[v].pc \in {"parent", "save"} => ChainTo(visit[v].path, visit[v].id, users)

\* The users of `us` are in `wider` with the inviters they had.
Widened(us, wider) ==
  /\ Len(us) \in Nat /\ Len(wider) \in Nat /\ Len(us) <= Len(wider)
  /\ \A u \in 1..Len(us) : wider[u].inviter = us[u].inviter

LEMMA ChainKept ==
  ASSUME NEW p, NEW u, NEW us, NEW wider, ChainTo(p, u, us), Widened(us, wider)
  PROVE  ChainTo(p, u, wider)
<1>1. p \in Seq(Nat) /\ Len(p) \in Nat
  BY DEF ChainTo
<1>2. \A i \in 1..Len(p) : p[i] \in 1..Len(us) /\ p[i] \in 1..Len(wider)
  BY DEF ChainTo, Widened
<1>3. ASSUME NEW i \in 1..(Len(p) - 1) PROVE p[i] = wider[p[i + 1]].inviter
  <2>1. i + 1 \in 1..Len(p)
    BY <1>1, <1>3
  <2>2. p[i + 1] \in 1..Len(us)
    BY <1>2, <2>1
  <2> QED
    BY <1>3, <2>2 DEF ChainTo, Widened
<1> QED
  BY <1>1, <1>2, <1>3 DEF ChainTo

LEMMA ChainAppend ==
  ASSUME NEW us, NEW p \in Seq(Nat), NEW i, NEW u \in Nat, u \in 1..Len(us), us[u].inviter = i,
         p # <<>> => ChainTo(p, i, us)
  PROVE  ChainTo(Append(p, u), u, us)
<1> DEFINE q == Append(p, u)
<1>1. /\ q \in Seq(Nat) /\ Len(q) = Len(p) + 1 /\ Len(p) \in Nat /\ q[Len(p) + 1] = u
      /\ \A k \in 1..Len(p) : q[k] = p[k]
  OBVIOUS
<1> HIDE DEF q
<1>2. q # <<>> /\ q[Len(q)] = u
  BY <1>1
<1>3. \A k \in 1..Len(q) : q[k] \in 1..Len(us)
  <2> SUFFICES ASSUME NEW k \in 1..Len(q) PROVE q[k] \in 1..Len(us)
    OBVIOUS
  <2>1. CASE k \in 1..Len(p)
    <3>1. ChainTo(p, i, us)
      BY <1>1, <2>1
    <3> QED
      BY <1>1, <2>1, <3>1 DEF ChainTo
  <2>2. CASE k = Len(p) + 1
    BY <1>1, <2>2
  <2> QED
    BY <1>1, <2>1, <2>2
<1>4. \A k \in 1..(Len(q) - 1) : q[k] = us[q[k + 1]].inviter
  <2> SUFFICES ASSUME NEW k \in 1..(Len(q) - 1) PROVE q[k] = us[q[k + 1]].inviter
    OBVIOUS
  <2>1. p # <<>> /\ ChainTo(p, i, us) /\ k \in 1..Len(p)
    BY <1>1
  <2>2. CASE k \in 1..(Len(p) - 1)
    <3>1. k + 1 \in 1..Len(p)
      BY <1>1, <2>2
    <3> QED
      BY <1>1, <2>1, <2>2, <3>1 DEF ChainTo
  <2>3. CASE k = Len(p)
    BY <1>1, <2>1, <2>3 DEF ChainTo
  <2> QED
    BY <1>1, <2>1, <2>2, <2>3
<1> QED
  BY <1>1, <1>2, <1>3, <1>4 DEF ChainTo, q

LEMMA WidenedStep ==
  ASSUME TypeInv, [AccountsNext]_accountVars
  PROVE  Widened(users, users')
<1>0. Users = 1..Len(users) /\ Len(users) \in Nat
  BY Lengths
<1>1. CASE users' = users
  BY <1>0, <1>1 DEF Widened
<1>2. CASE Locking
  BY <1>0, <1>2, LockingRows DEF Widened
<1>3. ASSUME NEW v \in Visits, visit[v].pc = "create", NEW p \in {"save", "parent"}, Inserted(v, p)
      PROVE  Widened(users, users')
  BY <1>0, <1>3, InsertedRows DEF Widened
<1> QED
  BY <1>1, <1>2, <1>3, UserSteps, VisitUsers

\* Where a step of a request that has not inserted its user yet leaves it, Create apart.
LEMMA LoginPlaces ==
  ASSUME TypeInv, NEW v \in Visits,
         \/ LoginVerify(v) \/ CompatEthAuthorize(v) \/ MarkUsed(v)
         \/ FindKnown(v) \/ FindNone(v) \/ FindInviter(v)
  PROVE  visit'[v].pc \notin {"parent", "save"} /\ \A w \in Visits \ {v} : visit'[w] = visit[w]
<1>0. visit \in [Visits -> VisitState] /\ visit[v] \in VisitState
  BY DEF TypeInv, AccountsTypeOK
<1>1. NoVisit.pc = "idle"
  BY DEF NoVisit, Request
<1>2. \A pc, a, code, c : Request(pc, a, code, c).pc = pc
  BY DEF Request
<1>3. visit'[v].pc \in {"idle", "mark", "find", "inviter", "create", "issue"} /\ \A w \in Visits \ {v} : visit'[w] = visit[w]
  <2>1. CASE LoginVerify(v) \/ CompatEthAuthorize(v)
    BY <1>0, <1>2, <2>1 DEF LoginVerify, CompatEthAuthorize, FindUsable, EthAuthorize
  <2>2. CASE MarkUsed(v)
    BY <1>0, <1>1, <2>2 DEF MarkUsed, VisitState
  <2>3. CASE FindKnown(v)
    BY <1>0, <1>1, <2>3 DEF FindKnown, VisitState
  <2>4. CASE FindNone(v)
    BY <1>0, <1>1, <2>4 DEF FindNone, VisitState
  <2>5. CASE FindInviter(v)
    BY <1>0, <1>1, <2>5 DEF FindInviter, VisitState
  <2> QED
    BY <2>1, <2>2, <2>3, <2>4, <2>5
<1> QED
  BY <1>3

\* Where the steps leave it that follow its path.
LEMMA EndPlaces ==
  ASSUME TypeInv, NEW v \in Visits, SavePath(v) \/ SavePathFails(v) \/ IssueToken(v) \/ VisitEnds(v)
  PROVE  visit'[v].pc \notin {"parent", "save"} /\ \A w \in Visits \ {v} : visit'[w] = visit[w]
<1>0. visit \in [Visits -> VisitState] /\ visit[v] \in VisitState
  BY DEF TypeInv, AccountsTypeOK
<1>1. NoVisit.pc = "idle"
  BY DEF NoVisit, Request
<1>2. CASE SavePath(v) \/ SavePathFails(v)
  BY <1>0, <1>2 DEF SavePath, SavePathFails, VisitState
<1>3. CASE IssueToken(v) \/ VisitEnds(v)
  BY <1>0, <1>1, <1>3 DEF IssueToken, VisitEnds
<1> QED
  BY <1>2, <1>3

\* What a step of a request does to its own path, and to the path it saves.
LEMMA StepVisitsChain ==
  ASSUME TypeInv, PathsChain, VisitsChain, NEW v \in Visits, Visiting(v)
  PROVE  /\ \A w \in Visits \ {v} : visit'[w] = visit[w]
         /\ visit'[v].pc \in {"parent", "save"} => ChainTo(visit'[v].path, visit'[v].id, users')
<1> DEFINE s == visit[v]
<1>0. visit \in [Visits -> VisitState] /\ s \in VisitState /\ Held(s, users, Len(challenges))
  BY Lengths DEF TypeInv, AccountsTypeOK
<1>1. CASE Create(v)
  <2>1. CASE visit' = [visit EXCEPT ![v] = NoVisit]
    BY <1>0, <2>1 DEF NoVisit, Request
  <2>2. ASSUME NEW p \in {"save", "parent"}, Inserted(v, p)
        PROVE  /\ \A w \in Visits \ {v} : visit'[w] = visit[w]
               /\ visit'[v].pc \in {"parent", "save"} => ChainTo(visit'[v].path, visit'[v].id, users')
    <3> DEFINE id == Len(users) + 1
    <3>1. id \in Nat /\ id \in 1..Len(users')
      BY <1>1, <2>2, InsertedRows, Lengths DEF Create
    <3>2. visit' = [visit EXCEPT ![v] = Named(s, id, p)]
      BY <2>2 DEF Inserted
    <3> HIDE DEF id
    <3>3. Named(s, id, p).path = <<id>> /\ Named(s, id, p).id = id
      BY <1>0, <2>2, <3>1, NamedTypes, Lengths
    <3>4. ChainTo(<<id>>, id, users')
      BY <3>1 DEF ChainTo
    <3> QED
      BY <1>0, <3>2, <3>3, <3>4
  <2> QED
    BY <1>1, <2>1, <2>2, CreateCases
<1>2. CASE GetPath(v) \/ GetPathFails(v)
  <2>1. PICK path \in Seq(Nat) : /\ visit' = [visit EXCEPT ![v] = Pathed(s, path)]
                                 /\ path = IF GetPath(v) THEN Append(paths[s.inviter], s.id) ELSE s.path
    BY <1>2, GetPathMoves
  <2>2. s.pc = "parent" /\ s.inviter \in Users /\ s.id \in Users /\ s.id \in Nat
    BY <1>2, GetPathMoves
  <2>3. /\ Pathed(s, path).path = path /\ Pathed(s, path).id = s.id
    BY <1>0, <2>2, PathedTypes
  <2>4. users' = users
    BY <1>2 DEF GetPath, GetPathFails
  <2>5. ChainTo(path, s.id, users)
    <3>1. CASE GetPath(v)
      <4>1. paths[s.inviter] \in Seq(Nat) /\ s.id \in 1..Len(users) /\ users[s.id].inviter = s.inviter
        BY <1>0, <2>2, Lengths DEF Held
      <4>2. paths[s.inviter] # <<>> => ChainTo(paths[s.inviter], s.inviter, users)
        BY <2>2 DEF PathsChain
      <4>3. ChainTo(Append(paths[s.inviter], s.id), s.id, users)
        BY <2>2, <4>1, <4>2, ChainAppend
      <4> QED
        BY <2>1, <3>1, <4>3
    <3>2. CASE ~GetPath(v)
      BY <2>1, <2>2, <3>2 DEF VisitsChain
    <3> QED
      BY <3>1, <3>2
  <2> QED
    BY <1>0, <2>1, <2>3, <2>4, <2>5
<1>3. CASE SavePath(v) \/ SavePathFails(v) \/ IssueToken(v) \/ VisitEnds(v)
  <2>1. visit'[v].pc \notin {"parent", "save"} /\ \A w \in Visits \ {v} : visit'[w] = visit[w]
    BY <1>3, EndPlaces
  <2> QED
    BY <2>1
<1>4. CASE LoginVerify(v) \/ CompatEthAuthorize(v) \/ MarkUsed(v) \/ FindKnown(v) \/ FindNone(v) \/ FindInviter(v)
  <2>1. visit'[v].pc \notin {"parent", "save"} /\ \A w \in Visits \ {v} : visit'[w] = visit[w]
    BY <1>4, LoginPlaces
  <2> QED
    BY <2>1
<1> QED
  BY <1>1, <1>2, <1>3, <1>4 DEF Visiting

\* What a step of a request does to the saved paths.
LEMMA StepPaths ==
  ASSUME TypeInv, NEW v \in Visits, Visiting(v)
  PROVE  /\ \A u \in Users : u # visit[v].id \/ ~SavePath(v) => paths'[u] = paths[u]
         /\ SavePath(v) => users' = users /\ paths'[visit[v].id] = visit[v].path /\ visit[v].pc = "save"
         /\ ~SavePath(v) => /\ \A u \in Users' \ Users : paths'[u] = <<>>
                            /\ Users \subseteq Users'
<1>0. DOMAIN paths = Users /\ Users = 1..Len(users) /\ Len(users) \in Nat
  BY Lengths
<1>1. CASE SavePath(v)
  <2>1. visit[v].id \in Users
    BY <1>1, Lengths DEF SavePath, Held
  <2> QED
    BY <1>0, <1>1, <2>1 DEF SavePath
<1>2. CASE paths' = paths /\ users' = users
  BY <1>0, <1>2, Lengths DEF SavePath, Held, Users
<1>3. ASSUME visit[v].pc = "create", NEW p \in {"save", "parent"}, Inserted(v, p)
      PROVE  /\ \A u \in Users : paths'[u] = paths[u]
             /\ \A u \in Users' \ Users : paths'[u] = <<>>
             /\ Users \subseteq Users'
  <2>1. /\ Users' = 1..(Len(users) + 1) /\ paths'[Len(users) + 1] = <<>>
        /\ \A u \in Users : paths'[u] = paths[u]
    BY <1>3, InsertedRows
  <2>2. ASSUME NEW u \in Users' \ Users PROVE u = Len(users) + 1
    BY <1>0, <2>1, <2>2
  <2>3. Users \subseteq Users'
    BY <1>0, <2>1
  <2> QED
    BY <2>1, <2>2, <2>3
<1>4. CASE Create(v)
  BY <1>2, <1>3, <1>4, CreateCases DEF Create, SavePath
<1>5. CASE ~Create(v) /\ ~SavePath(v)
  BY <1>2, <1>5 DEF Visiting, LoginVerify, CompatEthAuthorize, FindUsable, EthAuthorize, MarkUsed, FindKnown,
     FindNone, FindInviter, GetPath, GetPathFails, SavePathFails, IssueToken, VisitEnds
<1> QED
  BY <1>1, <1>4, <1>5

LEMMA StepChain ==
  ASSUME TypeInv, PathsChain, VisitsChain, [AccountsNext]_accountVars PROVE PathsChain' /\ VisitsChain'
<1>0. /\ Widened(users, users') /\ Users = 1..Len(users)
      /\ \A p, u : ChainTo(p, u, users) => ChainTo(p, u, users')
  BY WidenedStep, ChainKept, Lengths
<1>1. CASE UNCHANGED <<paths, visit>> /\ Users' = Users
  BY <1>0, <1>1 DEF PathsChain, VisitsChain
<1>2. CASE UNCHANGED <<users, paths, visit>>
  BY <1>1, <1>2 DEF Users
<1>3. CASE Locking
  BY <1>1, <1>3, LockingMoves, LockingRows
<1>4. ASSUME NEW v \in Visits, Visiting(v) PROVE PathsChain' /\ VisitsChain'
  <2>1. VisitsChain'
    <3>1. ASSUME NEW w \in Visits, visit'[w].pc \in {"parent", "save"}
          PROVE  ChainTo(visit'[w].path, visit'[w].id, users')
      <4>1. CASE w = v
        BY <1>4, <3>1, <4>1, StepVisitsChain
      <4>2. CASE w # v
        <5>1. visit'[w] = visit[w]
          BY <1>4, <4>2, StepVisitsChain
        <5> QED
          BY <1>0, <3>1, <5>1 DEF VisitsChain
      <4> QED
        BY <4>1, <4>2
    <3> QED
      BY <3>1 DEF VisitsChain
  <2>2. ASSUME NEW u \in Users', paths'[u] # <<>> PROVE ChainTo(paths'[u], u, users')
    <3>1. CASE SavePath(v) /\ u = visit[v].id
      <4>1. paths'[u] = visit[v].path /\ visit[v].pc = "save"
        BY <1>4, <3>1, StepPaths
      <4> QED
        BY <1>0, <3>1, <4>1 DEF VisitsChain
    <3>2. CASE ~(SavePath(v) /\ u = visit[v].id)
      <4>1. u \in Users /\ paths'[u] = paths[u]
        BY <1>4, <2>2, <3>2, StepPaths DEF Users
      <4> QED
        BY <1>0, <2>2, <4>1 DEF PathsChain
    <3> QED
      BY <3>1, <3>2
  <2> QED
    BY <2>1, <2>2 DEF PathsChain
<1> QED
  BY <1>2, <1>3, <1>4, UserSteps

\* A saved path ends in its user and names no stranger.
THEOREM PathsNameNoStranger == AccountsSpec => []PathIsLineage
<1>1. AccountsInit => PathsChain /\ VisitsChain
  BY DEF AccountsInit, PathsChain, VisitsChain, Users, NoVisit, Request
<1>2. AccountsSpec => []TypeInv
  BY InitTypes, StepTypes, PTL DEF AccountsSpec
<1>3. AccountsSpec => [](PathsChain /\ VisitsChain)
  BY <1>1, <1>2, StepChain, PTL DEF AccountsSpec
<1>4. PathsChain => PathIsLineage
  BY DEF PathsChain, PathIsLineage, ChainTo
<1> QED
  BY <1>3, <1>4, PTL

-----------------------------------------------------------------------------
(* The path of a user extends his inviter's, unless his registration was    *)
(* cut.  What carries it: between the two statements of a registration the  *)
(* path in hand is right already, because the inviter had saved his when it *)
(* was read and nothing writes a saved path again.                          *)

\* `us` is the users table, `ps` the saved paths and `open` the registrations that have not ended.
Base(u, us, ps) == IF us[u].inviter = 0 THEN <<>> ELSE ps[us[u].inviter]

Whole(path, u, us, ps, open) == path = Append(Base(u, us, ps), u) /\ us[u].inviter \notin open

Extending == \A u \in Users \ (cut \cup Unfinished) : Whole(paths[u], u, users, paths, Unfinished)
ReadyAt(v) == visit[v].pc = "save" /\ visit[v].id \notin cut => Whole(visit[v].path, visit[v].id, users, paths, Unfinished)
Ready == \A v \in Visits : ReadyAt(v)

LEMMA UnfinishedUsers == TypeInv => Unfinished \subseteq Users
BY Lengths DEF Unfinished, Held

LEMMA UnfinishedMoves ==
  ASSUME NEW v \in Visits, \A w \in Visits \ {v} : visit'[w] = visit[w]
  PROVE  /\ \A u \in Unfinished' : u \in Unfinished \/ (visit'[v].pc \in {"parent", "save"} /\ u = visit'[v].id)
         /\ \A u \in Unfinished : u \in Unfinished' \/ (visit[v].pc \in {"parent", "save"} /\ u = visit[v].id)
BY DEF Unfinished

\* A step that writes no path: the inviters stay, and so do the saved paths; who begins a registration
\* is new, and who leaves one without saving his path is cut.
Gentle ==
  /\ Users \subseteq Users' /\ \A u \in Users : users'[u].inviter = users[u].inviter /\ paths'[u] = paths[u]
  /\ cut \subseteq cut'
  /\ \A u \in Unfinished' : u \in Unfinished \/ u \notin 0..Len(users)
  /\ \A u \in Unfinished : u \in Unfinished' \/ u \in cut'
  /\ \A u \in Users' : u \in Users \/ u \in Unfinished'

LEMMA BaseKept ==
  ASSUME TypeInv, ReferralForest, Gentle, NEW u \in Users
  PROVE  /\ Base(u, users', paths') = Base(u, users, paths)
         /\ users[u].inviter \notin Unfinished => users'[u].inviter \notin Unfinished'
<1>1. users[u].inviter \in 0..Len(users) /\ (users[u].inviter = 0 \/ users[u].inviter \in Users)
  BY Lengths DEF ReferralForest
<1>2. users'[u].inviter = users[u].inviter
  BY DEF Gentle
<1> QED
  BY <1>1, <1>2 DEF Gentle, Base

LEMMA GentleExtends ==
  ASSUME TypeInv, ReferralForest, Extending, Gentle
  PROVE  Extending'
<1> SUFFICES ASSUME NEW u \in Users', u \notin cut', u \notin Unfinished'
             PROVE  Whole(paths'[u], u, users', paths', Unfinished')
  BY DEF Extending
<1>1. u \in Users /\ u \notin cut /\ u \notin Unfinished /\ paths'[u] = paths[u]
  BY DEF Gentle
<1>2. Whole(paths[u], u, users, paths, Unfinished)
  BY <1>1 DEF Extending
<1>3. Base(u, users', paths') = Base(u, users, paths) /\ (users[u].inviter \notin Unfinished => users'[u].inviter \notin Unfinished')
  BY <1>1, BaseKept
<1> QED
  BY <1>1, <1>2, <1>3 DEF Whole

\* The requests that do not move.
LEMMA GentleReady ==
  ASSUME TypeInv, ReferralForest, Ready, Gentle, NEW w \in Visits, visit'[w] = visit[w]
  PROVE  ReadyAt(w)'
<1> SUFFICES ASSUME visit[w].pc = "save", visit[w].id \notin cut'
             PROVE  Whole(visit[w].path, visit[w].id, users', paths', Unfinished')
  BY DEF ReadyAt
<1> DEFINE u == visit[w].id
<1>1. u \in Users /\ u \notin cut
  BY Lengths DEF Gentle, Held
<1>2. Whole(visit[w].path, u, users, paths, Unfinished)
  BY <1>1 DEF Ready, ReadyAt
<1>3. Base(u, users', paths') = Base(u, users, paths) /\ (users[u].inviter \notin Unfinished => users'[u].inviter \notin Unfinished')
  <2> HIDE DEF u
  <2> QED
    BY <1>1, BaseKept
<1> QED
  BY <1>2, <1>3 DEF Whole

LEMMA NoVisitExtends ==
  ASSUME TypeInv, ReferralForest, Extending, Ready, UNCHANGED <<paths, visit, cut>>, Users' = Users,
         \A u \in Users : users'[u].inviter = users[u].inviter
  PROVE  Extending' /\ Ready'
<1>1. Unfinished' = Unfinished
  BY DEF Unfinished
<1>2. Gentle
  BY <1>1 DEF Gentle
<1> QED
  BY <1>2, GentleExtends, GentleReady DEF Ready

\* A request that has not inserted its user yet, and does not in this step.
LEMMA LoginExtends ==
  ASSUME TypeInv, ReferralForest, Extending, Ready, NEW v \in Visits, UNCHANGED <<users, paths>>,
         \A w \in Visits \ {v} : visit'[w] = visit[w],
         visit'[v].pc \notin {"parent", "save"},
         cut \subseteq cut', visit[v].pc \in {"parent", "save"} => visit[v].id \in cut'
  PROVE  Extending' /\ Ready'
<1>1. Users' = Users
  BY DEF Users
<1>2. Gentle
  BY <1>1, UnfinishedMoves DEF Gentle
<1>3. ReadyAt(v)'
  BY DEF ReadyAt
<1>4. \A w \in Visits : ReadyAt(w)'
  BY <1>2, <1>3, GentleReady
<1> QED
  BY <1>2, <1>4, GentleExtends DEF Ready

LEMMA InsertExtends ==
  ASSUME TypeInv, ReferralForest, Extending, Ready, NEW v \in Visits, visit[v].pc = "create",
         NEW p \in {"save", "parent"}, Inserted(v, p), cut' = cut
  PROVE  Extending' /\ Ready'
<1> DEFINE id == Len(users) + 1
           s == visit[v]
<1>1. /\ Users' = 1..id /\ Users = 1..Len(users) /\ Len(users) \in Nat /\ id \in Nat
      /\ \A u \in Users : users'[u] = users[u] /\ paths'[u] = paths[u]
      /\ users'[id] = RowOf(v)
  BY InsertedRows, Lengths
<1>2. visit' = [visit EXCEPT ![v] = Named(s, id, p)] /\ (p = "save" => s.inviter = 0)
  BY DEF Inserted
<1>3. visit \in [Visits -> VisitState] /\ s \in VisitState
  BY DEF TypeInv, AccountsTypeOK
<1>4. /\ \A w \in Visits \ {v} : visit'[w] = visit[w]
      /\ visit'[v].pc = p /\ visit'[v].id = id /\ visit'[v].path = <<id>>
  <2> HIDE DEF id
  <2>1. Named(s, id, p).pc = p /\ Named(s, id, p).id = id /\ Named(s, id, p).path = <<id>>
    BY <1>1, <1>3, NamedTypes, Lengths
  <2> QED
    BY <1>2, <1>3, <2>1
<1>5. \A u \in Unfinished' : u \in Unfinished \/ u = id
  BY <1>4, UnfinishedMoves
<1>6. Unfinished \subseteq Unfinished' /\ id \in Unfinished'
  <2>1. Unfinished \subseteq Unfinished'
    BY <1>4, UnfinishedMoves
  <2>2. id \in Unfinished'
    BY <1>4 DEF Unfinished
  <2> QED
    BY <2>1, <2>2
<1>7. Gentle
  <2>1. \A u \in Unfinished' : u \in Unfinished \/ u \notin 0..Len(users)
    BY <1>1, <1>5
  <2>2. \A u \in Users' : u \in Users \/ u \in Unfinished'
    BY <1>1, <1>6
  <2>3. Users \subseteq Users'
    BY <1>1
  <2> QED
    BY <1>1, <1>6, <2>1, <2>2, <2>3 DEF Gentle
<1>8. ReadyAt(v)'
  <2> SUFFICES ASSUME p = "save" PROVE Whole(<<id>>, id, users', paths', Unfinished')
    BY <1>4 DEF ReadyAt
  <2>1. users'[id].inviter = 0
    BY <1>1, <1>2 DEF RowOf
  <2>2. 0 \notin Unfinished'
    <3>1. 0 \notin Unfinished
      BY <1>1, UnfinishedUsers
    <3> QED
      BY <1>1, <1>5, <3>1
  <2>3. <<id>> = Append(<<>>, id)
    OBVIOUS
  <2> QED
    BY <2>1, <2>2, <2>3 DEF Whole, Base
<1>9. \A w \in Visits : ReadyAt(w)'
  BY <1>4, <1>7, <1>8, GentleReady
<1> QED
  BY <1>7, <1>9, GentleExtends DEF Ready

LEMMA GetPathExtends ==
  ASSUME TypeInv, ReferralForest, Extending, Ready, NEW v \in Visits, GetPath(v) \/ GetPathFails(v)
  PROVE  Extending' /\ Ready'
<1> DEFINE s == visit[v]
<1>0. visit \in [Visits -> VisitState] /\ s \in VisitState /\ Held(s, users, Len(challenges))
  BY Lengths DEF TypeInv, AccountsTypeOK
<1>1. PICK path \in Seq(Nat) : /\ visit' = [visit EXCEPT ![v] = Pathed(s, path)]
                               /\ path = IF GetPath(v) THEN Append(paths[s.inviter], s.id) ELSE s.path
  BY GetPathMoves
<1>2. s.pc = "parent" /\ s.inviter \in Users /\ s.id \in Users
  BY GetPathMoves
<1>3. /\ \A w \in Visits \ {v} : visit'[w] = visit[w]
      /\ visit'[v].pc = "save" /\ visit'[v].id = s.id /\ visit'[v].path = path
  <2>1. Pathed(s, path).path = path /\ Pathed(s, path).id = s.id /\ Pathed(s, path).pc = "save"
    BY <1>0, <1>2, PathedTypes
  <2> QED
    BY <1>0, <1>1, <2>1
<1>4. UNCHANGED <<users, paths>> /\ Users' = Users /\ cut \subseteq cut'
  BY DEF GetPath, GetPathFails, Users
<1>5. Unfinished' = Unfinished
  <2>1. s.id \in Unfinished /\ s.id \in Unfinished'
    BY <1>2, <1>3 DEF Unfinished
  <2>2. \A u \in Unfinished' : u \in Unfinished \/ u = s.id
    BY <1>3, UnfinishedMoves
  <2>3. \A u \in Unfinished : u \in Unfinished' \/ u = s.id
    BY <1>3, UnfinishedMoves
  <2>4. Unfinished' \subseteq Unfinished
    BY <2>1, <2>2
  <2>5. Unfinished \subseteq Unfinished'
    BY <2>1, <2>3
  <2> QED
    BY <2>4, <2>5
<1>6. Gentle
  BY <1>4, <1>5 DEF Gentle
<1>7. ReadyAt(v)'
  <2> SUFFICES ASSUME s.id \notin cut' PROVE Whole(path, s.id, users', paths', Unfinished')
    BY <1>3 DEF ReadyAt
  <2>1. GetPath(v) /\ s.inviter \notin Unfinished
    BY DEF GetPath, GetPathFails
  <2>2. users[s.id].inviter = s.inviter /\ s.inviter # 0
    BY <1>0, <1>2 DEF Held
  <2>3. Base(s.id, users, paths) = paths[s.inviter]
    BY <2>2 DEF Base
  <2>4. Base(s.id, users', paths') = Base(s.id, users, paths)
    BY <1>4 DEF Base
  <2> QED
    BY <1>1, <1>4, <1>5, <2>1, <2>2, <2>3, <2>4 DEF Whole
<1>8. \A w \in Visits : ReadyAt(w)'
  BY <1>3, <1>6, <1>7, GentleReady
<1> QED
  BY <1>6, <1>8, GentleExtends DEF Ready

\* The one step that writes a path: nobody whose registration has ended, or waits to save, is invited
\* by the user whose path it is.
LEMMA SaveExtends ==
  ASSUME TypeInv, ReferralForest, Extending, Ready, NEW v \in Visits, SavePath(v)
  PROVE  Extending' /\ Ready'
<1> DEFINE id == visit[v].id
<1>0. visit \in [Visits -> VisitState] /\ visit[v].pc = "save" /\ id \in Users
      /\ id \in DOMAIN paths /\ DOMAIN paths = Users
  BY Lengths DEF TypeInv, AccountsTypeOK, SavePath, Held
<1>1. /\ UNCHANGED <<users, cut>> /\ Users' = Users
      /\ paths' = [paths EXCEPT ![id] = visit[v].path]
      /\ \A w \in Visits \ {v} : visit'[w] = visit[w]
  BY <1>0 DEF SavePath, Users
<1>2. visit'[v].pc \notin {"parent", "save"}
  BY EndPlaces
<1>3. id \in Unfinished /\ Unfinished' \subseteq Unfinished /\ \A u \in Unfinished : u \in Unfinished' \/ u = id
  BY <1>0, <1>1, <1>2, UnfinishedMoves DEF Unfinished
<1>4. ASSUME NEW u \in Users, users[u].inviter \notin Unfinished
      PROVE  Base(u, users', paths') = Base(u, users, paths) /\ users'[u].inviter \notin Unfinished'
  <2>1. users[u].inviter # id /\ (users[u].inviter = 0 \/ users[u].inviter \in Users)
    BY <1>3, <1>4, Lengths DEF ReferralForest
  <2> HIDE DEF id
  <2> QED
    BY <1>0, <1>1, <1>3, <1>4, <2>1 DEF Base
<1>5. ASSUME NEW u \in Users, u \notin cut, u \notin Unfinished' PROVE Whole(paths'[u], u, users', paths', Unfinished')
  <2>1. CASE u = id
    <3>1. Whole(visit[v].path, id, users, paths, Unfinished)
      BY <1>0, <1>5, <2>1 DEF Ready, ReadyAt
    <3>2. paths'[id] = visit[v].path
      BY <1>0, <1>1
    <3>3. Base(u, users', paths') = Base(u, users, paths) /\ users'[u].inviter \notin Unfinished'
      BY <1>4, <2>1, <3>1 DEF Whole
    <3> QED
      BY <2>1, <3>1, <3>2, <3>3 DEF Whole
  <2>2. CASE u # id
    <3>1. u \notin Unfinished
      BY <1>3, <1>5, <2>2
    <3>2. Whole(paths[u], u, users, paths, Unfinished)
      BY <1>5, <3>1 DEF Extending
    <3>3. paths'[u] = paths[u]
      BY <1>0, <1>1, <2>2
    <3>4. Base(u, users', paths') = Base(u, users, paths) /\ users'[u].inviter \notin Unfinished'
      BY <1>4, <3>2 DEF Whole
    <3> QED
      BY <3>2, <3>3, <3>4 DEF Whole
  <2> QED
    BY <2>1, <2>2
<1>6. ASSUME NEW w \in Visits PROVE ReadyAt(w)'
  <2>1. CASE w = v
    BY <1>1, <1>2, <2>1 DEF ReadyAt
  <2>2. CASE w # v
    <3> SUFFICES ASSUME visit[w].pc = "save", visit[w].id \notin cut
                 PROVE  Whole(visit[w].path, visit[w].id, users', paths', Unfinished')
      BY <1>1, <2>2 DEF ReadyAt
    <3>1. Whole(visit[w].path, visit[w].id, users, paths, Unfinished)
      BY DEF Ready, ReadyAt
    <3>2. visit[w].id \in Users
      BY Lengths DEF Held
    <3>3. Base(visit[w].id, users', paths') = Base(visit[w].id, users, paths) /\ users'[visit[w].id].inviter \notin Unfinished'
      <4> DEFINE u == visit[w].id
      <4>1. visit'[w] = visit[w]
        BY <1>1, <2>2
      <4>2. users[u].inviter \notin Unfinished /\ u \in Users
        BY <3>1, <3>2 DEF Whole
      <4>3. Base(u, users', paths') = Base(u, users, paths) /\ users'[u].inviter \notin Unfinished'
        <5> HIDE DEF u
        <5> QED
          BY <1>4, <4>2
      <4> QED
        BY <4>1, <4>3
    <3> QED
      BY <1>1, <2>2, <3>1, <3>3 DEF Whole
  <2> QED
    BY <2>1, <2>2
<1> QED
  BY <1>1, <1>5, <1>6 DEF Extending, Ready

LEMMA StepExtends ==
  ASSUME TypeInv, ReferralForest, Extending, Ready, [AccountsNext]_accountVars PROVE Extending' /\ Ready'
<1>1. CASE UNCHANGED <<users, paths, visit, cut>>
  BY <1>1, NoVisitExtends DEF Users
<1>2. CASE Challenge \/ Tick \/ UNCHANGED accountVars
  BY <1>1, <1>2 DEF Challenge, LoginChallenge, CreateLoginChallenge, Lapse, Tick, accountVars
<1>3. CASE Locking
  BY <1>3, LockingMoves, LockingRows, NoVisitExtends
<1>4. ASSUME NEW v \in Visits, Visiting(v) PROVE Extending' /\ Ready'
  <2>0. /\ visit \in [Visits -> VisitState] /\ NoVisit.pc = "idle"
        /\ \A pc, a, code, c : Request(pc, a, code, c).pc = pc
    BY DEF TypeInv, AccountsTypeOK, NoVisit, Request
  <2>1. CASE Create(v)
    <3>1. visit[v].pc = "create" /\ cut' = cut
      BY <2>1 DEF Create
    <3>2. CASE visit' = [visit EXCEPT ![v] = NoVisit] /\ UNCHANGED <<users, paths, shut>>
      BY <2>0, <3>1, <3>2, LoginExtends
    <3> QED
      BY <2>1, <3>1, <3>2, CreateCases, InsertExtends
  <2>2. CASE GetPath(v) \/ GetPathFails(v)
    BY <2>2, GetPathExtends
  <2>3. CASE SavePath(v)
    BY <2>3, SaveExtends
  <2>4. CASE SavePathFails(v) \/ IssueToken(v) \/ VisitEnds(v)
    <3>1. /\ UNCHANGED <<users, paths>> /\ cut \subseteq cut'
          /\ visit[v].pc \in {"parent", "save"} => visit[v].id \in cut'
      BY <2>4 DEF SavePathFails, IssueToken, VisitEnds
    <3>2. visit'[v].pc \notin {"parent", "save"} /\ \A w \in Visits \ {v} : visit'[w] = visit[w]
      BY <2>4, EndPlaces
    <3> QED
      BY <3>1, <3>2, LoginExtends
  <2>5. CASE LoginVerify(v) \/ CompatEthAuthorize(v) \/ MarkUsed(v) \/ FindKnown(v) \/ FindNone(v) \/ FindInviter(v)
    <3>1. UNCHANGED <<users, paths, cut>> /\ visit[v].pc \notin {"parent", "save"}
      BY <2>5 DEF LoginVerify, CompatEthAuthorize, FindUsable, EthAuthorize, MarkUsed, FindKnown, FindNone, FindInviter
    <3>2. visit'[v].pc \notin {"parent", "save"} /\ \A w \in Visits \ {v} : visit'[w] = visit[w]
      BY <2>5, LoginPlaces
    <3> QED
      BY <3>1, <3>2, LoginExtends
  <2> QED
    BY <1>4, <2>1, <2>2, <2>3, <2>4, <2>5 DEF Visiting
<1> QED
  BY <1>2, <1>3, <1>4 DEF AccountsNext

\* The path of a user whose registration ran to its end, after his inviter's, is his inviter's and he.
THEOREM PathsExtendTheInviters == AccountsSpec => []PathExtendsInviters
<1>1. AccountsInit => Extending /\ Ready
  BY DEF AccountsInit, Extending, Ready, ReadyAt, Users, NoVisit, Request
<1>2. AccountsSpec => []TypeInv
  BY InitTypes, StepTypes, PTL DEF AccountsSpec
<1>3. AccountsSpec => [](Extending /\ Ready)
  BY <1>1, <1>2, ReferralsAreAForest, StepExtends, PTL DEF AccountsSpec
<1>4. Extending => PathExtendsInviters
  BY DEF Extending, Whole, Base, PathExtendsInviters
<1> QED
  BY <1>3, <1>4, PTL

-----------------------------------------------------------------------------
(* The lock of a line.  Lineage is recursive; that it has a value follows   *)
(* from the forest: an inviter has a smaller id.                            *)

Descends(f, us, n) == f = [u \in 0..n |-> IF u = 0 THEN <<>> ELSE Append(f[us[u].inviter], u)]

LEMMA LineageExists ==
  ASSUME NEW us, NEW n \in Nat, \A u \in 1..n : us[u].inviter \in 0..(u - 1)
  PROVE  \E f : Descends(f, us, n)
<1> DEFINE Bad == {m \in 0..n : ~ \E f : Descends(f, us, m)}
<1>1. SUFFICES ASSUME Bad # {} PROVE FALSE
  OBVIOUS
<1>2. PICK m \in Bad : \A k \in Bad : m <= k
  <2>1. Bad \in SUBSET Nat
    OBVIOUS
  <2> HIDE DEF Bad
  <2> QED
    BY <1>1, <2>1, NatMinimal
<1>3. m \in 0..n /\ ~ \E f : Descends(f, us, m)
  OBVIOUS
<1>4. CASE m = 0
  <2> DEFINE f == [u \in 0..0 |-> <<>>]
  <2>1. f = [u \in 0..0 |-> IF u = 0 THEN <<>> ELSE Append(f[us[u].inviter], u)]
    OBVIOUS
  <2>2. Descends(f, us, 0)
    BY <2>1 DEF Descends
  <2> QED
    BY <1>3, <1>4, <2>2
<1>5. CASE m # 0
  <2>1. m - 1 \in 0..n /\ ~(m <= m - 1)
    BY <1>3, <1>5
  <2>2. PICK f : Descends(f, us, m - 1)
    BY <1>2, <2>1
  <2> DEFINE G(u) == IF u = 0 THEN <<>> ELSE Append(f[us[u].inviter], u)
             g == [u \in 0..m |-> G(u)]
  <2>3. \A w \in 0..(m - 1) : g[w] = f[w]
    <3>1. \A w \in 0..(m - 1) : f[w] = G(w)
      BY <2>2, Zenon DEF Descends
    <3>2. \A w \in 0..(m - 1) : w \in 0..m
      BY <1>3
    <3> HIDE DEF G
    <3> QED
      BY <3>1, <3>2
  <2>4. \A u \in 1..m : us[u].inviter \in 0..(m - 1)
    BY <1>3
  <2>5. \A u \in 0..m : G(u) = IF u = 0 THEN <<>> ELSE Append(g[us[u].inviter], u)
    <3> HIDE DEF g
    <3> QED
      BY <1>3, <2>3, <2>4
  <2>6. g = [u \in 0..m |-> IF u = 0 THEN <<>> ELSE Append(g[us[u].inviter], u)]
    <3> DEFINE H(u) == IF u = 0 THEN <<>> ELSE Append(g[us[u].inviter], u)
    <3>1. \A u \in 0..m : G(u) = H(u)
      BY <2>5
    <3> HIDE DEF G, H
    <3>2. [u \in 0..m |-> G(u)] = [u \in 0..m |-> H(u)]
      BY <3>1
    <3> QED
      BY <3>2 DEF H
  <2>7. Descends(g, us, m)
    BY <2>6 DEF Descends
  <2> QED
    BY <1>3, <2>7
<1> QED
  BY <1>4, <1>5

LEMMA LineageUnfolds ==
  ASSUME TypeInv, ReferralForest
  PROVE  Lineage = [u \in 0..Len(users) |-> IF u = 0 THEN <<>> ELSE Append(Lineage[users[u].inviter], u)]
<1>1. Len(users) \in Nat /\ \A u \in 1..Len(users) : users[u].inviter \in 0..(u - 1)
  BY Lengths DEF ReferralForest
<1>2. \E f : Descends(f, users, Len(users))
  BY <1>1, LineageExists
<1>3. Lineage = CHOOSE f : Descends(f, users, Len(users))
  BY DEF Lineage, Descends
<1>4. Descends(Lineage, users, Len(users))
  BY <1>2, <1>3
<1> QED
  BY <1>4 DEF Descends

\* The ids on the way down to u.
Line(u) == Range(Lineage[u])

LEMMA LineOf ==
  ASSUME TypeInv, ReferralForest
  PROVE  /\ Line(0) = {}
         /\ \A u \in Users : Line(u) = Line(users[u].inviter) \cup {u}
<1>0. Users = 1..Len(users) /\ Len(users) \in Nat /\ \A u \in Users : users[u].inviter \in 0..(u - 1)
  BY Lengths DEF ReferralForest
<1>1. Lineage[0] = <<>> /\ \A u \in Users : Lineage[u] = Append(Lineage[users[u].inviter], u)
  BY <1>0, LineageUnfolds
<1> DEFINE Bad == {u \in 0..Len(users) : Lineage[u] \notin Seq(Nat)}
<1>2. Bad = {}
  <2>1. SUFFICES ASSUME Bad # {} PROVE FALSE
    OBVIOUS
  <2>2. PICK m \in Bad : \A k \in Bad : m <= k
    <3>1. Bad \in SUBSET Nat
      BY <1>0
    <3> HIDE DEF Bad
    <3> QED
      BY <2>1, <3>1, NatMinimal
  <2>3. m \in Users
    <3>1. <<>> \in Seq(Nat)
      OBVIOUS
    <3>2. m # 0 /\ m \in 0..Len(users)
      BY <1>1, <3>1
    <3> QED
      BY <1>0, <3>2
  <2>4. users[m].inviter \in 0..Len(users) /\ ~(m <= users[m].inviter)
    BY <1>0, <2>3
  <2>5. Lineage[users[m].inviter] \in Seq(Nat)
    BY <2>2, <2>4
  <2>6. Append(Lineage[users[m].inviter], m) \in Seq(Nat)
    BY <1>0, <2>3, <2>5
  <2> QED
    BY <1>1, <2>2, <2>3, <2>6
<1>3. ASSUME NEW u \in Users PROVE Line(u) = Line(users[u].inviter) \cup {u}
  <2> DEFINE s == Lineage[users[u].inviter]
  <2>1. s \in Seq(Nat)
    BY <1>0, <1>2
  <2>2. Lineage[u] = Append(s, u)
    BY <1>1
  <2> HIDE DEF s
  <2>3. DOMAIN Append(s, u) = DOMAIN s \cup {Len(s) + 1} /\ DOMAIN s = 1..Len(s)
    BY <2>1
  <2>4. \A i \in DOMAIN s : Append(s, u)[i] = s[i]
    BY <2>1
  <2>5. Append(s, u)[Len(s) + 1] = u
    BY <2>1
  <2>6. Range(Append(s, u)) = Range(s) \cup {u}
    BY <2>3, <2>4, <2>5 DEF Range
  <2> QED
    BY <2>2, <2>6 DEF Line, s
<1>4. Line(0) = {}
  BY <1>1 DEF Line, Range
<1> QED
  BY <1>3, <1>4

\* Who is on a line has his inviters on it; and a line holds users only.
LEMMA LineClosed ==
  ASSUME TypeInv, ReferralForest
  PROVE  \A v \in Users : \A x \in Line(v) :
           x \in Users /\ (users[x].inviter # 0 => users[x].inviter \in Line(v))
<1>0. Users = 1..Len(users) /\ Len(users) \in Nat /\ \A u \in Users : users[u].inviter \in 0..(u - 1)
  BY Lengths DEF ReferralForest
<1> DEFINE Closed(v) == \A x \in Line(v) :
                          x \in Users /\ (users[x].inviter # 0 => users[x].inviter \in Line(v))
           Bad == {v \in Users : ~Closed(v)}
<1>1. SUFFICES ASSUME Bad # {} PROVE FALSE
  OBVIOUS
<1>2. PICK m \in Bad : \A k \in Bad : m <= k
  <2>1. Bad \in SUBSET Nat
    BY <1>0
  <2> HIDE DEF Bad
  <2> QED
    BY <1>1, <2>1, NatMinimal
<1>3. m \in Users /\ Line(m) = Line(users[m].inviter) \cup {m}
  BY LineOf
<1>4. CASE users[m].inviter = 0
  BY <1>2, <1>3, <1>4, LineOf
<1>5. CASE users[m].inviter # 0
  <2> DEFINE i == users[m].inviter
  <2>1. i \in Users /\ ~(m <= i)
    BY <1>0, <1>3, <1>5
  <2>2. Closed(i)
    BY <1>2, <2>1
  <2>3. i \in Line(i)
    BY <2>1, LineOf
  <2> QED
    BY <1>2, <1>3, <2>2, <2>3
<1> QED
  BY <1>4, <1>5

LEMMA PrefixOf ==
  ASSUME NEW s \in Seq(Nat), NEW t \in Seq(Nat)
  PROVE  IsPrefix(s, t) <=> Len(s) <= Len(t) /\ \A i \in 1..Len(s) : s[i] = t[i]
<1>1. CASE Len(s) <= Len(t)
  <2>1. /\ SubSeq(s, 1, Len(s)) \in Seq(Nat) /\ Len(SubSeq(s, 1, Len(s))) = Len(s)
        /\ \A i \in 1..Len(s) : SubSeq(s, 1, Len(s))[i] = s[i]
    OBVIOUS
  <2>2. /\ SubSeq(t, 1, Len(s)) \in Seq(Nat) /\ Len(SubSeq(t, 1, Len(s))) = Len(s)
        /\ \A i \in 1..Len(s) : SubSeq(t, 1, Len(s))[i] = t[i]
    BY <1>1
  <2>3. ASSUME \A i \in 1..Len(s) : s[i] = t[i] PROVE SubSeq(s, 1, Len(s)) = SubSeq(t, 1, Len(s))
    BY <2>1, <2>2, <2>3
  <2> QED
    BY <1>1, <2>1, <2>2, <2>3 DEF IsPrefix
<1>2. CASE ~(Len(s) <= Len(t))
  BY <1>2 DEF IsPrefix
<1> QED
  BY <1>1, <1>2

\* Whose path goes through the root is below him.
LEMMA ListedBelow ==
  ASSUME TypeInv, ReferralForest, PathsChain, NEW prefix \in Seq(Nat), prefix # <<>>,
         NEW v \in Users, IsPrefix(prefix, paths[v])
  PROVE  v \in Tree(prefix[Len(prefix)])
<1> DEFINE p == paths[v]
<1>1. p \in Seq(Nat) /\ v \in Nat
  BY Lengths
<1>2. /\ Len(prefix) \in 1..Len(p) /\ p[Len(prefix)] = prefix[Len(prefix)] /\ p # <<>>
  <2>1. Len(prefix) <= Len(p) /\ \A i \in 1..Len(prefix) : prefix[i] = p[i]
    BY <1>1, PrefixOf
  <2>2. Len(prefix) \in Nat /\ Len(prefix) >= 1 /\ Len(p) \in Nat
    BY <1>1
  <2> QED
    BY <2>1, <2>2
<1>3. ChainTo(p, v, users) /\ Len(p) \in Nat
  BY <1>1, <1>2 DEF PathsChain
<1> DEFINE Bad == {j \in 0..(Len(p) - 1) : p[Len(p) - j] \notin Line(v)}
<1>4. Bad = {}
  <2>1. SUFFICES ASSUME Bad # {} PROVE FALSE
    OBVIOUS
  <2>2. PICK m \in Bad : \A k \in Bad : m <= k
    <3>1. Bad \in SUBSET Nat
      OBVIOUS
    <3> HIDE DEF Bad
    <3> QED
      BY <2>1, <3>1, NatMinimal
  <2>3. m \in Nat /\ m <= Len(p) - 1 /\ p[Len(p) - m] \notin Line(v)
    BY <1>3, <2>2
  <2>4. m # 0
    <3>1. p[Len(p)] = v /\ v \in Line(v)
      BY <1>3, LineOf DEF ChainTo
    <3> QED
      BY <1>3, <2>3, <3>1
  <2>5. m - 1 \in 0..(Len(p) - 1) /\ ~(m <= m - 1)
    BY <1>3, <2>3, <2>4
  <2>6. p[Len(p) - (m - 1)] \in Line(v)
    BY <2>2, <2>5
  <2> DEFINE i == Len(p) - m
  <2>7. i \in 1..(Len(p) - 1) /\ i \in 1..Len(p) /\ Len(p) - (m - 1) = i + 1
    BY <1>3, <2>3, <2>4
  <2>8. p[i] = users[p[i + 1]].inviter /\ p[i] # 0
    <3>1. p[i] = users[p[i + 1]].inviter /\ p[i] \in 1..Len(users)
      <4> HIDE DEF i, p
      <4> QED
        BY <1>3, <2>7 DEF ChainTo
    <3>2. 0 \notin 1..Len(users)
      BY Lengths
    <3> QED
      BY <3>1, <3>2
  <2>9. p[i] \in Line(v)
    BY <2>6, <2>7, <2>8, LineClosed
  <2> QED
    BY <2>3, <2>9
<1>5. p[Len(prefix)] \in Line(v)
  <2> DEFINE j == Len(p) - Len(prefix)
  <2>1. j \in 0..(Len(p) - 1) /\ Len(p) - j = Len(prefix)
    BY <1>2, <1>3
  <2>2. j \notin Bad
    BY <1>4
  <2> QED
    BY <2>1, <2>2
<1> QED
  BY <1>2, <1>5 DEF Tree, Line

\* Between whom and the root every registration ran to its end has a path that begins with the root's.
LEMMA IntactBegins ==
  ASSUME TypeInv, ReferralForest, Extending, NEW root \in Users, NEW v \in Intact(root)
  PROVE  root \notin cut /\ IsPrefix(paths[root], paths[v])
<1>0. /\ Users = 1..Len(users) /\ Len(users) \in Nat
      /\ \A u \in Users : users[u].inviter \in 0..(u - 1) /\ paths[u] \in Seq(Nat)
  BY Lengths DEF ReferralForest
<1>1. v \in Users /\ root \in Line(v) /\ \A w \in Tree(root) \cap Line(v) : w \notin cut \cup Unfinished
  BY DEF Intact, Tree, Line
<1>2. \A w : w \in Tree(root) <=> w \in Users /\ root \in Line(w)
  BY DEF Tree, Line
<1>3. root \in Tree(root) /\ root \notin cut
  BY <1>1, <1>2, LineOf
<1> DEFINE Bad == {w \in Tree(root) \cap Line(v) : ~IsPrefix(paths[root], paths[w])}
<1>4. Bad = {}
  <2>1. SUFFICES ASSUME Bad # {} PROVE FALSE
    OBVIOUS
  <2>2. PICK m \in Bad : \A k \in Bad : m <= k
    <3>1. Bad \in SUBSET Nat
      BY <1>0, <1>2
    <3> HIDE DEF Bad
    <3> QED
      BY <2>1, <3>1, NatMinimal
  <2>3. /\ m \in Users /\ root \in Line(m) /\ m \in Line(v) /\ m \notin cut \cup Unfinished
        /\ ~IsPrefix(paths[root], paths[m])
    BY <1>1, <1>2, <2>2
  <2>4. m # root
    BY <1>0, <2>3, PrefixOf
  <2> DEFINE i == users[m].inviter
  <2>5. root \in Line(i)
    BY <2>3, <2>4, LineOf
  <2>6. i # 0 /\ i \in Users /\ ~(m <= i)
    <3>1. i # 0
      BY <2>5, LineOf
    <3>2. i \in 0..(m - 1) /\ m \in 1..Len(users)
      BY <1>0, <2>3
    <3> HIDE DEF i
    <3> QED
      BY <1>0, <3>1, <3>2
  <2>7. i \in Line(v)
    BY <1>1, <2>3, <2>6, LineClosed
  <2>8. i \notin Bad /\ i \in Tree(root)
    BY <1>2, <2>2, <2>5, <2>6
  <2>9. IsPrefix(paths[root], paths[i])
    BY <2>7, <2>8
  <2>10. paths[m] = Append(paths[i], m)
    BY <2>3, <2>6 DEF Extending, Whole, Base
  <2>11. IsPrefix(paths[root], paths[m])
    <3> DEFINE s == paths[root]
               t == paths[i]
    <3>1. s \in Seq(Nat) /\ t \in Seq(Nat) /\ Append(t, m) \in Seq(Nat) /\ m \in Nat
      BY <1>0, <2>3, <2>6
    <3>2. IsPrefix(s, t)
      BY <2>9
    <3> HIDE DEF s, t, i
    <3>3. Len(s) <= Len(t) /\ \A k \in 1..Len(s) : s[k] = t[k]
      BY <3>1, <3>2, PrefixOf
    <3>4. Len(s) <= Len(Append(t, m)) /\ \A k \in 1..Len(s) : s[k] = Append(t, m)[k]
      BY <3>1, <3>3
    <3>5. IsPrefix(s, Append(t, m))
      BY <3>1, <3>4, PrefixOf
    <3> QED
      BY <2>10, <3>5 DEF s, t, i
  <2> QED
    BY <2>3, <2>11
<1>5. v \in Line(v)
  BY <1>1, LineOf
<1> QED
  BY <1>1, <1>2, <1>3, <1>4, <1>5

-----------------------------------------------------------------------------
\* A registration that has ended is not open again, and its path stays.
LEMMA EndedStays ==
  ASSUME TypeInv, [AccountsNext]_accountVars, NEW u \in Users, u \notin Unfinished
  PROVE  u \in Users' /\ u \notin Unfinished' /\ paths'[u] = paths[u] /\ cut \subseteq cut'
<1>0. Users = 1..Len(users) /\ Len(users) \in Nat /\ visit \in [Visits -> VisitState]
  BY Lengths DEF TypeInv, AccountsTypeOK
<1>1. CASE UNCHANGED <<Users, paths, visit, cut>>
  BY <1>1 DEF Unfinished
<1>2. CASE Challenge \/ Tick \/ UNCHANGED accountVars
  BY <1>1, <1>2 DEF Challenge, LoginChallenge, CreateLoginChallenge, Lapse, Tick, accountVars, Users
<1>3. CASE Locking
  BY <1>1, <1>3, LockingMoves, LockingRows
<1>4. ASSUME NEW v \in Visits, Visiting(v)
      PROVE  u \in Users' /\ u \notin Unfinished' /\ paths'[u] = paths[u] /\ cut \subseteq cut'
  <2>1. cut \subseteq cut'
    BY <1>4 DEF Visiting, LoginVerify, CompatEthAuthorize, FindUsable, EthAuthorize, MarkUsed, FindKnown,
       FindNone, FindInviter, Create, GetPath, GetPathFails, SavePath, SavePathFails, IssueToken, VisitEnds
  <2>2. u \in Users' /\ paths'[u] = paths[u]
    <3>1. SavePath(v) => visit[v].id # u /\ Users' = Users
      <4>1. SavePath(v) => visit[v].pc = "save" /\ users' = users
        BY DEF SavePath
      <4> QED
        BY <4>1 DEF Unfinished, Users
    <3> QED
      BY <1>4, <3>1, StepPaths
  <2>3. \A w \in Visits \ {v} : visit'[w] = visit[w]
    BY <1>0, <1>4 DEF Visiting, LoginVerify, CompatEthAuthorize, FindUsable, EthAuthorize, MarkUsed, FindKnown,
       FindNone, FindInviter, Create, GetPath, GetPathFails, SavePath, SavePathFails, IssueToken, VisitEnds
  <2>4. visit'[v].pc \in {"parent", "save"} => visit'[v].id # u
    <3>0. NoVisit.pc = "idle"
      BY DEF NoVisit, Request
    <3>1. CASE Create(v)
      <4>1. CASE visit' = [visit EXCEPT ![v] = NoVisit]
        BY <1>0, <3>0, <4>1
      <4>2. ASSUME NEW p \in {"save", "parent"}, Inserted(v, p)
            PROVE  visit'[v].id # u
        <5>1. visit' = [visit EXCEPT ![v] = Named(visit[v], Len(users) + 1, p)]
          BY <4>2 DEF Inserted
        <5>2. Named(visit[v], Len(users) + 1, p).id = Len(users) + 1
          <6> DEFINE id == Len(users) + 1
          <6>1. id \in Nat /\ visit[v] \in VisitState /\ now \in Times
            BY <1>0, Lengths
          <6> HIDE DEF id
          <6>2. Named(visit[v], id, p).id = id
            BY <6>1, NamedTypes
          <6> QED
            BY <6>2 DEF id
        <5>3. visit'[v].id = Len(users) + 1
          BY <1>0, <5>1, <5>2
        <5> QED
          BY <1>0, <5>3
      <4> QED
        BY <3>1, <4>1, <4>2, CreateCases
    <3>2. CASE GetPath(v) \/ GetPathFails(v)
      <4>1. visit[v].pc = "parent" /\ visit[v].id # u
        BY <3>2 DEF GetPath, GetPathFails, Unfinished
      <4>2. visit'[v].id = visit[v].id
        BY <1>0, <3>2 DEF GetPath, GetPathFails, VisitState
      <4> QED
        BY <4>1, <4>2
    <3>3. CASE SavePath(v) \/ SavePathFails(v) \/ IssueToken(v) \/ VisitEnds(v)
      BY <3>3, EndPlaces
    <3>4. CASE LoginVerify(v) \/ CompatEthAuthorize(v) \/ MarkUsed(v) \/ FindKnown(v) \/ FindNone(v) \/ FindInviter(v)
      BY <3>4, LoginPlaces
    <3> QED
      BY <1>4, <3>1, <3>2, <3>3, <3>4 DEF Visiting
  <2>5. u \notin Unfinished'
    BY <2>3, <2>4, UnfinishedMoves
  <2> QED
    BY <2>1, <2>2, <2>5
<1> QED
  BY <1>2, <1>3, <1>4 DEF AccountsNext

\* What the request that locks a line knows of its root until it lists the line.
RootInv ==
  line.pc = "list" =>
    /\ line.root \in Users /\ line.prefix # <<>> /\ line.prefix[Len(line.prefix)] = line.root
    /\ ~line.rash /\ line.root \notin cut => line.root \notin Unfinished /\ line.prefix = paths[line.root]

LEMMA StepLine ==
  ASSUME TypeInv, ReferralForest, PathsChain, Extending, RootInv, LineExact, [AccountsNext]_accountVars
  PROVE  RootInv' /\ LineExact'
<1>0. line \in LineState /\ Users = 1..Len(users) /\ \A u \in Users : paths[u] \in Seq(Nat) /\ u \in Nat
  BY Lengths DEF TypeInv, AccountsTypeOK
<1>1. ASSUME line' = line PROVE RootInv' /\ LineExact'
  <2>1. LineExact'
    BY <1>1 DEF LineExact
  <2>2. RootInv'
    <3> SUFFICES ASSUME line.pc = "list"
                 PROVE  /\ line.root \in Users' /\ line.prefix # <<>> /\ line.prefix[Len(line.prefix)] = line.root
                        /\ ~line.rash /\ line.root \notin cut' =>
                             line.root \notin Unfinished' /\ line.prefix = paths'[line.root]
      BY <1>1 DEF RootInv
    <3>1. line.root \in Users /\ line.prefix # <<>> /\ line.prefix[Len(line.prefix)] = line.root
      BY DEF RootInv
    <3>2. line.root \in Users'
      BY <3>1, Lengths, WidenedStep DEF Widened, Users
    <3>3. ASSUME ~line.rash, line.root \notin cut' PROVE line.root \notin Unfinished' /\ line.prefix = paths'[line.root]
      <4>1. cut \subseteq cut'
        BY DEF AccountsNext, accountVars, Challenge, LoginChallenge, CreateLoginChallenge, Lapse, Tick, Visiting,
           LoginVerify, CompatEthAuthorize, FindUsable, EthAuthorize, MarkUsed, FindKnown, FindNone, FindInviter,
           Create, GetPath, GetPathFails, SavePath, SavePathFails, IssueToken, VisitEnds, Locking, CompatAdminLockUser,
           SetLineLock, SetUserLock, ListByPathPrefix, LockNext, LineEnds
      <4>2. line.root \notin Unfinished /\ line.prefix = paths[line.root]
        BY <3>3, <4>1 DEF RootInv
      <4> QED
        BY <3>1, <4>2, EndedStays
    <3> QED
      BY <3>1, <3>2, <3>3
  <2> QED
    BY <2>1, <2>2
<1>2. ASSUME NEW u \in Users, NEW on \in BOOLEAN, SetLineLock(u, on) PROVE RootInv' /\ LineExact'
  <2> DEFINE prefix == IF paths[u] = <<>> THEN <<u>> ELSE paths[u]
             rash == u \in Unfinished
  <2>1. line' = LineRequest("list", u, on, prefix, rash) /\ UNCHANGED <<users, paths, visit, cut>>
    BY <1>2 DEF SetLineLock
  <2>2. prefix # <<>> /\ prefix[Len(prefix)] = u
    <3>1. CASE paths[u] = <<>>
      BY <3>1
    <3>2. CASE paths[u] # <<>>
      BY <3>2 DEF PathsChain, ChainTo
    <3> QED
      BY <3>1, <3>2
  <2>3. ASSUME ~rash, u \notin cut PROVE u \notin Unfinished /\ prefix = paths[u]
    <3>1. paths[u] = Append(Base(u, users, paths), u)
      BY <2>3 DEF Extending, Whole
    <3>2. users[u].inviter \in 0..Len(users)
      BY <1>0, Lengths DEF ReferralForest
    <3>3. Base(u, users, paths) \in Seq(Nat)
      <4>1. <<>> \in Seq(Nat)
        OBVIOUS
      <4>2. users[u].inviter # 0 => users[u].inviter \in Users
        BY <1>0, <3>2, Lengths
      <4> QED
        BY <1>0, <4>1, <4>2 DEF Base
    <3>4. paths[u] # <<>>
      <4> DEFINE base == Base(u, users, paths)
      <4>1. base \in Seq(Nat) /\ paths[u] = Append(base, u)
        BY <3>1, <3>3
      <4> HIDE DEF base
      <4>2. Len(base) \in Nat /\ Len(paths[u]) = Len(base) + 1
        BY <4>1
      <4> QED
        BY <4>2
    <3> QED
      BY <2>3, <3>4
  <2>4. Users' = Users /\ Unfinished' = Unfinished
    BY <2>1 DEF Users, Unfinished
  <2>5. line'.pc = "list" /\ line'.root = u /\ line'.prefix = prefix /\ line'.rash = rash
    BY <2>1 DEF LineRequest
  <2> HIDE DEF prefix, rash
  <2> QED
    BY <1>2, <2>1, <2>2, <2>3, <2>4, <2>5 DEF RootInv, LineExact
<1>3. CASE ListByPathPrefix
  <2> DEFINE found == {v \in Users : IsPrefix(line.prefix, paths[v])}
             tree == Tree(line.root)
             intact == Intact(line.root)
  <2>1. line.pc = "list" /\ line.root \in Users /\ line.prefix # <<>> /\ line.prefix[Len(line.prefix)] = line.root
    BY <1>3 DEF ListByPathPrefix, RootInv
  <2>2. line.prefix \in Seq(Nat)
    BY <1>0 DEF LineState
  <2>3. found \subseteq tree
    <3> SUFFICES ASSUME NEW v \in Users, IsPrefix(line.prefix, paths[v]) PROVE v \in Tree(line.root)
      OBVIOUS
    <3> QED
      BY <2>1, <2>2, ListedBelow
  <2>4. ASSUME ~line.rash PROVE intact \subseteq found
    <3> SUFFICES ASSUME NEW v \in Intact(line.root) PROVE v \in found
      OBVIOUS
    <3>1. line.root \notin cut /\ IsPrefix(paths[line.root], paths[v])
      BY <2>1, IntactBegins
    <3>2. line.prefix = paths[line.root]
      BY <2>1, <2>4, <3>1 DEF RootInv
    <3>3. v \in Users
      BY DEF Intact, Tree
    <3> QED
      BY <3>1, <3>2, <3>3
  <2>5. line' = [line EXCEPT !.pc = "lock", !.listed = found, !.todo = found, !.tree = tree, !.intact = intact]
    BY <1>3 DEF ListByPathPrefix
  <2> HIDE DEF found, tree, intact
  <2>6. line'.pc = "lock" /\ line'.listed = found /\ line'.tree = tree /\ line'.intact = intact /\ line'.rash = line.rash
    BY <1>0, <2>5 DEF LineState
  <2> QED
    BY <2>3, <2>4, <2>6 DEF RootInv, LineExact
<1>4. CASE LockNext \/ LineEnds
  <2>1. NoLine.pc = "idle"
    BY DEF NoLine, LineRequest
  <2>2. CASE line' = NoLine
    BY <2>1, <2>2 DEF RootInv, LineExact
  <2>3. ASSUME NEW u \in line.todo, line.pc = "lock", line' = [line EXCEPT !.todo = @ \ {u}]
        PROVE  RootInv' /\ LineExact'
    <3>1. /\ line'.pc = "lock" /\ line'.listed = line.listed /\ line'.tree = line.tree
          /\ line'.intact = line.intact /\ line'.rash = line.rash
      BY <1>0, <2>3 DEF LineState
    <3> QED
      BY <2>3, <3>1 DEF RootInv, LineExact
  <2> QED
    BY <1>4, <2>2, <2>3 DEF LockNext, LineEnds
<1>5. CASE \E u \in Users, lock \in {"", "0", "1"}, one \in {"", "1"} : CompatAdminLockUser(u, lock, one)
  <2>1. PICK u \in Users, lock \in {"", "0", "1"}, one \in {"", "1"} : CompatAdminLockUser(u, lock, one)
    BY <1>5
  <2> DEFINE on == lock \in {"1", "true"}
  <2>2. on \in BOOLEAN
    BY InBoolean
  <2>3. SetLineLock(u, on) \/ SetUserLock(u, on)
    BY <2>1, Zenon DEF CompatAdminLockUser
  <2> HIDE DEF on
  <2> QED
    BY <1>1, <1>2, <2>2, <2>3 DEF SetUserLock
<1>6. CASE Challenge \/ Tick \/ UNCHANGED accountVars
  BY <1>1, <1>6 DEF Challenge, LoginChallenge, CreateLoginChallenge, Lapse, Tick, accountVars
<1>7. ASSUME NEW v \in Visits, Visiting(v) PROVE RootInv' /\ LineExact'
  <2>1. line' = line
    BY <1>7 DEF Visiting, LoginVerify, CompatEthAuthorize, FindUsable, EthAuthorize, MarkUsed, FindKnown,
       FindNone, FindInviter, Create, GetPath, GetPathFails, SavePath, SavePathFails, IssueToken, VisitEnds
  <2> QED
    BY <1>1, <2>1
<1> QED
  BY <1>3, <1>4, <1>5, <1>6, <1>7 DEF AccountsNext, Locking

\* Locking a line reaches only the root and those below him, and all of them between whom and the root
\* every registration ran to its end, whatever registers meanwhile.
THEOREM LineLocksAreExact == AccountsSpec => []LineExact
<1>1. AccountsInit => PathsChain /\ VisitsChain /\ Extending /\ Ready /\ RootInv /\ LineExact
  BY DEF AccountsInit, PathsChain, VisitsChain, Extending, Ready, ReadyAt, Users, NoVisit, Request, RootInv,
     LineExact, NoLine, LineRequest
<1>2. AccountsSpec => []TypeInv
  BY InitTypes, StepTypes, PTL DEF AccountsSpec
<1>3. AccountsSpec => [](PathsChain /\ VisitsChain)
  BY <1>1, <1>2, StepChain, PTL DEF AccountsSpec
<1>4. AccountsSpec => [](Extending /\ Ready)
  BY <1>1, <1>2, ReferralsAreAForest, StepExtends, PTL DEF AccountsSpec
<1> QED
  BY <1>1, <1>2, <1>3, <1>4, ReferralsAreAForest, StepLine, PTL DEF AccountsSpec
=============================================================================
