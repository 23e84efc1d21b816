SPECIFICATION Spec
CONSTANTS
  btc = btc
  alt = alt
  a1 = a1
  a2 = a2
  Symbols = {btc, alt}
  Btc = btc
  Outcomes <- ShortOrBoth
  Analysts = {a1}
  Lifetime = 3
  Cooldown = 2
  MaxActive = 1
  MaxPerHour = 2
  BurstWindow = 1
  MaxBurst = 1
  PauseOnAbnormal = TRUE
  Hour = 3
  Wild = {1}
  BreakerPause = 2
  MaxTime = 3
  MaxCycles = 2
PROPERTY
  BreakerPauses
CHECK_DEADLOCK FALSE
