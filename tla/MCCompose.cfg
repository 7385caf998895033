SPECIFICATION Spec
CONSTANTS
  Projects <- MCProjects
  Files <- MCFiles
  Networks <- MCNetworks
  Declares <- MCDeclares
  JoinChoices <- MCJoins
  MaxOps = 3
  MaxBoots = 1
INVARIANTS
  OrderCorrect
  NetworksExistAtCreate
  ConsumersGoFirst
PROPERTIES
  StopLeavesNothing
  RunningSurvives
CHECK_DEADLOCK FALSE
