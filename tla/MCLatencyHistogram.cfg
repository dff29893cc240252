\* Ratio 1.5 with boundaries scaled down: bins <=2, <=3 and the overflow
\* bin > 3, one latency in each, and four recordings so that records land
\* before, between and after the swaps of one reset.
CONSTANTS
  MaxValue = 3
  StartValue = 2
  RatioNum = 3
  RatioDen = 2
  MaxExp = 8
  Values = {1, 3, 5}
  MaxRecords = 4
SPECIFICATION Spec
PROPERTY ImplementsHistogramInterval
