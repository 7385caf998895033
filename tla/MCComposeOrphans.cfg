SPECIFICATION Spec
CONSTANTS
  Projects <- MCTwoProjects
  Files <- MCTwoFiles
  Networks <- MCNetworks
  Declares <- MCTwoDeclares
  JoinChoices <- MCTwoJoins
  MaxOps = 3
  MaxBoots = 1
INVARIANT
  OrphansDropped
CHECK_DEADLOCK FALSE
