SPECIFICATION ReaderSpec
CONSTANTS
  Sections = {"ssh", "machine", "nbd-client", "zfs-mount", "wg"}
  Fields = {"port", "prot", "id", "timeout", "address", "device", "name"}
  Values <- MCValues
  NoField = "none"
  Machine = "machine"
  CommandLines <- MCCommands
  Drafts <- MCDrafts
  IntOf <- MCIntOf
  FloatTexts = {"1.5"}
  Watched = {"nbd-client", "zfs-mount"}
  MaxWrites = 3
INVARIANTS
  ValidatedIsServed
PROPERTIES
  SetThenGet
  StaysReadable
  DiscoverIsCurrent
