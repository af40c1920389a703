SPECIFICATION FairSpec
CONSTANTS
  MaxAioReqs = 2
  Requests = {r1, r2, r3, r4}
INVARIANTS PoolSound
PROPERTIES RefusedOnlyWhenFull RequestsAnswered
