SPECIFICATION Spec
CONSTANTS
  Gets = {g1, g2}
  Sets = {s1}
  Boot = boot
  Upgrades = {u1, u2}
SYMMETRY Symmetry
INVARIANTS
  GetFindsId
