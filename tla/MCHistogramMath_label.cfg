\* Ratio 1.5 as in newAggregatingValueRecorder, boundaries scaled down so
\* TLC's 32-bit integers hold ratio^k * start: bins <=4, <=6, <=9, <=13.5,
\* <=20.25 (capped at max 16) and the overflow bin > 16.
CONSTANTS
  MaxValue = 16
  StartValue = 4
  RatioNum = 3
  RatioDen = 2
  MaxExp = 12
  Values = {3, 4, 5, 9, 16, 17, 30}
  Counts = {0, 1, 2}
SPECIFICATION Spec
INVARIANT PercentileLabelHolds
