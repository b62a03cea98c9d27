SPECIFICATION FairSpec
CONSTANTS
  Callers = {"pg", "cass"}
  Demand = {1, 2}
  Capacity = 2
  Rate = 1
  MaxIdle = 2
  MaxCalls = 2
INVARIANTS
  TypeOK
  RateBound
  Budget
  WakesInTime
  SleepsEnough
PROPERTY AcquireReturns
CHECK_DEADLOCK FALSE
