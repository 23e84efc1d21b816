SPECIFICATION Spec
CONSTANTS
  Workers = {w1, w2}
  NoWorker = NoWorker
  Said <- FewAnswers
  Size = 2
  MinTurnover = 3
  MaxSpread = 5
  MinHistoryDays = 4
  MaxAnswers = 3
  MaxFaults = 1
PROPERTIES
  ValidUniverseStays
CHECK_DEADLOCK FALSE
