\* One process, no failures but sends that do not go out and deadlines that pass.
CONSTANTS
  Users = {u1}
  NoUser = NoUser
  Instances = {i1}
  Requests = {r1, r2}
  Workers = {w1, c1}
  CronWorkers = {c1}
  NoWorker = NoWorker
  MaxId = 3
  MaxTx = 3
  MaxAmount = 4
  Amounts = {2}
  FeeBp = 5000
  MaxUSDT = 1
  QueueLimit = 2
  Faults = {"send", "timeout"}
  Home <- OneProcess
  Funds <- SmallFunds
  Legacy <- MixedRows
SPECIFICATION FairSpec
INVARIANTS AtMostOneTransfer FundsConserved PaidWithinDebited
PROPERTIES ImplementsPayoutOnce EventuallyPaid
