SPECIFICATION Spec
CONSTANTS
  Sections = {"wg", "ssh", "machine"}
  Fields = {"f", "g"}
  Values = {1, 2}
  NoField = NoField
  Machine = "machine"
  Writers = {w1}
  Commands <- MCCommands
  Edits <- MCEdits
  Inodes = {1, 2, 3}
  MaxRuns = 4
PROPERTIES
  ImplementsConfigFile
