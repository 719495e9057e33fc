SPECIFICATION GossipSpec
CONSTANTS
  Nodes = {"n1", "n2", "n3"}
  Agents = {"a1", "a2"}
  Home <- MCHome
  Cases <- MCCases
INVARIANTS
  VerdictsAreEarned
PROPERTY
  DeadPeersAreMarked
CHECK_DEADLOCK FALSE
