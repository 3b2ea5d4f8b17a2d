\* One process, no failures but a transfer that leaves the mempool; cron and chain fair.
CONSTANTS
  Users = {u1}
  NoUser = NoUser
  Instances = {i1}
  Requests = {r1}
  Workers = {w1, c1}
  CronWorkers = {c1}
  NoWorker = NoWorker
  MaxId = 2
  MaxTx = 2
  MaxAmount = 4
  Amounts = {2}
  FeeBp = 5000
  MaxUSDT = 1
  QueueLimit = 2
  Faults = {"drop", "timeout"}
  Home <- OneProcess
  Funds <- SmallFunds
  Legacy <- ApprovedRow
SPECIFICATION FairSpec
PROPERTY BacklogDrains
CHECK_DEADLOCK FALSE
