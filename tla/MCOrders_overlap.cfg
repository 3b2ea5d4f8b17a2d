\* An extract is confirmed while the cron settles; nothing fails.
CONSTANTS
  u1 = u1
  u2 = u2
  u3 = u3
  Users = {u1, u2}
  NoUser = NoUser
  Inviter <- Pair
  CommunityTiers <- Levels
  MinPeerLevel = 3
  PeerRate = 50
  Scale = 100
  RateMin = 40
  RateMax = 80
  RateStep = 20
  MinSubscribe = 10
  Tiers <- TwoTiers
  GenRate = 20
  MaxGeneration = 2
  MaxOrders = 2
  Amounts = {10}
  Funds <- OneMore
  Placed <- OneEach
  LockedLevel <- Promoted
  RewardLocked = {}
  Requests = {r1}
  Settlers = {s1}
  Cron = {s1}
  Instances = {i1}
  Home <- OneProcess
  NoSettler = NoSettler
  Named = {}
  AllowForce = FALSE
  MaxFailures = 0
  TurnsMayOverlap = TRUE
SPECIFICATION Spec
INVARIANT EarnedWithinTarget
