SPECIFICATION EvaluationSpec
CONSTANTS
  Shapes <- FewShapes
  MaxCandles = 7
  HistoryCandles = 5
  SwingLookback = 1
  AtrPeriod = 2
  RangeAveragePeriod = 2
  EqualLevelTenths = 5
  EqualLevelSeparation = 3
  FvgTenths = 1
  BodyTenths = 5
  RangeTenths = 10
  CloseTenths = 7
  SearchLookback = 4
  Contexts <- FewContexts
  MinimumScore = 70
  FeeParts = 1000
  StopBufferPercent = 10
  Tp1Percent = 150
  MinimumRatio = 1
  RiskAmount = 1000000
INVARIANTS
  DetectorsAsDocumented
  MirroredRules
  NotYetInvalidated
  WindowSeesTheSame
PROPERTIES
  NothingIsRevised
  ZonesOnlyAge
CHECK_DEADLOCK FALSE
