SPECIFICATION FairSpec
CONSTANTS
  Callers = {c1, c2}
  Thread <- MCThread
  Tenants = {acme}
  Databases = {db}
  Hash <- MCHash
  PartitionCounts = {0, 1, 2}
  None = None
  DefaultQuota <- MCDefaultQuota
  Quotas <- MCQuotas
  MaxTicks = 2
  MaxCalls = 2
  MaxSets = 1
INVARIANTS
  TypeOK
  QuotaBound
  QuotaSticks
PROPERTY CallsReturn
CHECK_DEADLOCK FALSE
