SPECIFICATION Spec
CONSTANTS
  NodeOf <- Topology
  Guests = {g}
  Names = {a, b}
  None = None
  MaxPool = 2
  Vcpus = 2
  Tries = 2
INVARIANTS PoolsHaveNames  SplitExact
