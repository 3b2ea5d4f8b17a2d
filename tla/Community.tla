----------------------------- MODULE Community -----------------------------
(***************************************************************************)
(* The community rewards of one settlement (biz/community.go) over the     *)
(* tree of inviters: levels from small-area volumes, base lines by the gap *)
(* between levels, peer lines between neighbours.                          *)
(***************************************************************************)
EXTENDS OrderRules

CONSTANTS
  Users,           \* registered users
  NoUser,          \* the inviter of a genesis account
  Inviter,         \* users.inviter_id
  CommunityTiers,  \* level -> minimal volume and rate
  MinPeerLevel,    \* min_peer_level
  PeerRate         \* peer_pool_rate

(* The users above each one.  Inviters form a forest: each one registered before   *)
(* those it invited.                                                               *)
Above ==
  LET up[n \in 0..Cardinality(Users)] ==
        [u \in Users |-> IF n = 0 \/ Inviter[u] = NoUser THEN {}
                         ELSE {Inviter[u]} \cup up[n - 1][Inviter[u]]]
  IN  up[Cardinality(Users)]

ASSUME CommunityAssumption ==
  /\ IsFiniteSet(Users) /\ NoUser \notin Users
  /\ Inviter \in [Users -> Users \cup {NoUser}]
  /\ \A u \in Users : u \notin Above[u]
  /\ DOMAIN CommunityTiers \subseteq 1..9
  /\ CommunityTiers \in [DOMAIN CommunityTiers -> [volume : Nat, rate : Nat]]
  /\ MinPeerLevel \in Nat /\ PeerRate \in Nat

Directs(u) == {v \in Users : Inviter[v] = u}
Below(u)   == {v \in Users : u \in Above[v]}
Between(v, u) == Above[v] \cap Below(u)

-----------------------------------------------------------------------------
(* Levels *)

SubtreeVolume(root, personal) == MapThenSumSet(LAMBDA u : personal[u], {root} \cup Below(root))

(* The volumes of all legs but the largest. *)
SmallAreaVolume(u, personal) ==
  LET volume(v) == SubtreeVolume(v, personal) IN
  IF Directs(u) = {} THEN 0
  ELSE MapThenSumSet(volume, Directs(u)) - Max({volume(v) : v \in Directs(u)})

LevelFromVolume(volume) ==
  Max({0} \cup {l \in DOMAIN CommunityTiers : volume > 0 /\ volume >= CommunityTiers[l].volume})

RateForLevel(level) == IF level \in DOMAIN CommunityTiers THEN CommunityTiers[level].rate ELSE 0

-----------------------------------------------------------------------------
(* Lines *)

(* Mutation: no break, a claimant earns below any level. *)
BreaksNever(v, u, level) == FALSE

(* underCommunityBreak: someone strictly between holds u's level or a higher one. *)
Breaks(v, u, level) == \E w \in Between(v, u) : level[w] >= level[u]

(* Mutation: the last level on the way up counts, not the highest. *)
GovernedByLast(v, u, level) == RateForLevel(Max({level[w] : w \in {x \in Between(v, u) : Inviter[x] = u}}))

(* The rate of the highest level strictly between. *)
GovernedRate(v, u, level) == RateForLevel(Max({0} \cup {level[w] : w \in Between(v, u)}))

(* What u earns of a yield of v, a direct referral always in full. *)
GapRate(v, u, level) ==
  IF Inviter[v] = u THEN RateForLevel(level[u])
  ELSE IF u \in Above[v] /\ ~Breaks(v, u, level) THEN RateForLevel(level[u]) - GovernedRate(v, u, level)
  ELSE 0

Line(to, from, source, amount) == [to |-> to, from |-> from, source |-> source, amount |-> amount]

(* ListCommunityBaseLinesFromPieces, of all claimants: a piece is an order's owner *)
(* and its yield of the day.                                                       *)
BaseLines(level, pieces) ==
  {l \in {Line(u, pieces[o].by, o, Share(pieces[o].yield, GapRate(pieces[o].by, u, level))) :
            u \in Users, o \in {p \in DOMAIN pieces : pieces[p].yield > 0}} :
     GapRate(l.from, l.to, level) > 0 /\ l.amount > 0}

PeerEligible(level) == level >= IF MinPeerLevel = 0 THEN 3 ELSE MinPeerLevel

(* ListPeerLinesFromCommunityBase: to the inviter, unless it stands higher.        *)
PeerLines(level, got) ==
  {l \in {Line(Inviter[v], v, 0, Share(got[v], PeerRate)) :
            v \in {w \in Users : /\ Inviter[w] # NoUser
                                 /\ PeerEligible(level[w]) /\ PeerEligible(level[Inviter[w]])
                                 /\ level[Inviter[w]] <= level[w]}} :
     l.amount > 0}
=============================================================================
