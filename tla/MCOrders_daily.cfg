\* The crons of two processes settle every day; one request extracts and subscribes; nothing fails.
CONSTANTS
  u1 = u1
  u2 = u2
  u3 = u3
  Users = {u1, u2, u3}
  NoUser = NoUser
  Inviter <- Chain
  CommunityTiers <- Levels
  MinPeerLevel = 3
  PeerRate = 50
  Scale = 100
  RateMin = 40
  RateMax = 80
  RateStep = 20
  MinSubscribe = 10
  Tiers <- TwoTiers
  GenRate = 20
  MaxGeneration = 2
  MaxOrders = 3
  Amounts = {10}
  Funds <- OneMore
  Placed <- Two
  LockedLevel <- Promoted
  RewardLocked = {}
  Requests = {r1}
  Settlers = {s1, s2}
  Cron = {s1, s2}
  Instances = {i1, i2}
  Home <- OwnProcess
  NoSettler = NoSettler
  Named = {}
  AllowForce = FALSE
  MaxFailures = 0
  TurnsMayOverlap = FALSE
SPECIFICATION FairSpec
INVARIANTS EarnedIsAccumulated TurnNeverRaises
PROPERTY OrdersExit
