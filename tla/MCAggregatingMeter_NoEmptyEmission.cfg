\* Two services, two peers and two request goroutines recording once each:
\* enough for two goroutines to race on one (service, peer), for a recorder
\* to be registered between two services' Recorders() copies, and for a
\* recording to land before, inside and after a reset.  Bins <=2, <=3 and
\* the overflow bin > 3 (ratio 1.5); the latencies fall in the first and
\* the overflow bin.
CONSTANTS
  MaxValue = 3
  StartValue = 2
  RatioNum = 3
  RatioDen = 2
  MaxExp = 8
  Services = {KV, Query}
  UnknownService = Unknown
  Peers = {P1, P2}
  NoTag = NoTag
  Responses = Responses
  OtherMetric = OtherMetric
  Writers = {W1, W2}
  Values = {1, 5}
  MaxRecords = 1
  MaxRecorders = 4
SPECIFICATION Spec
INVARIANT NoEmptyEmission
CHECK_DEADLOCK FALSE
