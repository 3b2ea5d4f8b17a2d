\* One process: the cron, an admin who settles some orders and may force it, two requests; any of them may end early.
CONSTANTS
  u1 = u1
  u2 = u2
  u3 = u3
  Users = {u1, u2}
  NoUser = NoUser
  Inviter <- Pair
  CommunityTiers <- Levels
  MinPeerLevel = 3
  PeerRate = 50
  Scale = 100
  RateMin = 40
  RateMax = 70
  RateStep = 20
  MinSubscribe = 10
  Tiers <- TwoTiers
  GenRate = 20
  MaxGeneration = 2
  MaxOrders = 3
  Amounts = {10}
  Funds <- OneMore
  Placed <- OneEach
  LockedLevel <- Promoted
  RewardLocked = {}
  Requests = {r1, r2}
  Settlers = {s1, s2}
  Cron = {s1}
  Instances = {i1}
  Home <- OneProcess
  NoSettler = NoSettler
  Named <- SomeOrders
  AllowForce = TRUE
  MaxFailures = 1
  TurnsMayOverlap = FALSE
SYMMETRY RequestSymmetry
SPECIFICATION Spec
INVARIANTS OrdersTypeOK ExitedIffFull TurnIsOfLast OrdersArePaid
PROPERTY ImplementsAtomicOrders
