\* One thousand recordings: 999 latencies of 3 (bin <=4) and one of 30
\* (the overflow bin), so the 99.9th percentile's nearest rank, 999,
\* falls in bin 0 while the 1000th value is the only one above it.
\* Totals of 0, 1, 999, 1000 and up to 2000 occur across the states.
CONSTANTS
  MaxValue = 16
  StartValue = 4
  RatioNum = 3
  RatioDen = 2
  MaxExp = 12
  Values = {3, 30}
  Counts = {0, 1, 999, 1000}
SPECIFICATION Spec
INVARIANT PercentileReportsRankBin
