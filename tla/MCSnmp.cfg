\* Each SNMP task against small devices.
SPECIFICATION Spec
CONSTANTS
  MaxOid = 3
  WalkLimits = {0, 1, 2, 4}
  MaxChanges = 1
  Worlds <- MCWorlds
  Macs = {"m1", "m2", "m8", "m9"}
  Databases <- MCDatabases
  NodeLimits = {0, 2}
  MaxLosses = 2
  Interfaces = {1, 2}
  Modulus = 8
  Margin = 1
  MaxSteps = 2
  Guesses <- MCGuesses
  Fallback <- MCFallback
  Starts = {0, 4, 6}
  Rises = {1, 5}
  SampleBudget <- MCBudget
  Cases <- MCCases
  LossSets <- MCLossSets
  Wide <- MCWide
  MaxDepth = 3
  MaxRows = 2
CHECK_DEADLOCK FALSE
INVARIANTS WalksAreHonest TopologyIsSound TopologyIsComplete SamplesAreTrue SelectionIsFaithful
