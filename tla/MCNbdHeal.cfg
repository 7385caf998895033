SPECIFICATION Spec
CONSTANTS
  d1 = d1
  d2 = d2
  DEV <- TwoDevices
  Unnamed = {d2}
  POOLS <- TwoPools
  Backing <- MCBacking
  INTERVAL = 1
  FAIL_THRESHOLD = 2
  REPAIR_BACKOFF = 1
  CLEAR_COOLDOWN = 3
  WEDGED_HOLD = 3
  max_attempts = 2
PROPERTIES
  ClearOnlyVerified
  ClearCooldownHonoured
  HealsWhenPossible
  StuckIsReported
  BootGoesOn
