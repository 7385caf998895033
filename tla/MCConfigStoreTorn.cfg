SPECIFICATION Spec
CONSTANTS
  Sections = {"wg", "ssh", "machine"}
  Fields = {"f", "g"}
  Values = {1, 2}
  NoField = NoField
  Machine = "machine"
  Writers = {w1, w2}
  Commands <- MCTwoSets
  Edits = {}
  Inodes = {1, 2, 3, 4}
  MaxRuns = 2
INVARIANT
  CrashLeavesWhole
