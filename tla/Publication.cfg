SPECIFICATION Spec
CONSTANTS
  btc = btc
  alt = alt
  a1 = a1
  a2 = a2
  Symbols = {btc, alt}
  Btc = btc
  Outcomes <- ShortOrBoth
  Analysts = {a1, a2}
  Lifetime = 3
  Cooldown = 2
  MaxActive = 1
  MaxPerHour = 2
  BurstWindow = 1
  MaxBurst = 1
  PauseOnAbnormal = TRUE
  Hour = 3
  Wild = {}
  BreakerPause = 2
  MaxTime = 3
  MaxCycles = 2
INVARIANTS
  PortfolioLimits
  CooldownKept
  OncePerAnalysis
SYMMETRY Symmetry
CHECK_DEADLOCK FALSE
