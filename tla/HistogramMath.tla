---------------------------- MODULE HistogramMath ----------------------------
(***************************************************************************)
(* The arithmetic of latencyHistogram and cumulativeLatencyHistogram       *)
(* (src/scope_searchquery.go): bin selection, the running prefix sum of    *)
(* AggregateAndReset and the percentile lookup of BinAtPercentile.         *)
(*                                                                         *)
(* The code works in float64 with math.Log, math.Ceil and math.Pow.  Here  *)
(* the common ratio is the fraction RatioNum/RatioDen and every comparison *)
(* against a bin boundary StartValue * ratio^k is done exactly in integers *)
(* (v * RatioDen^k <= StartValue * RatioNum^k).  A percentile is given in  *)
(* thousandths (999 stands for 99.9).  A rendered bound "<= %.2f" or       *)
(* "> %.2f" is the record [op, exp] whose bound is StartValue * ratio^exp; *)
(* rounding to two decimals never moves an integer across that bound, so   *)
(* the record says of an integer latency exactly what the string says.    *)
(***************************************************************************)
EXTENDS Integers, FiniteSetsExt, Functions

CONSTANTS
  MaxValue,     \* maxValue passed to newLatencyHistogram
  StartValue,   \* startValue (also the histogram's scaleFactor)
  RatioNum,     \* commonRatio = RatioNum / RatioDen
  RatioDen,
  MaxExp        \* search bound for the exponent of a bin boundary

ASSUME /\ StartValue \in Nat \ {0}
       /\ MaxValue > StartValue
       /\ RatioNum > RatioDen /\ RatioDen \in Nat \ {0}
       /\ MaxExp \in Nat

\* v <= StartValue * ratio^k, compared exactly.
AtOrBelowBound(v, k) == v * RatioDen^k <= StartValue * RatioNum^k

\* math.Ceil(math.Log(v/start) / math.Log(ratio)): the least k with
\* v <= start * ratio^k.
CeilLogRatio(v) ==
  Min({k \in 0..MaxExp : AtOrBelowBound(v, k)})

\* newLatencyHistogram: ceil(log(max/start)/log(ratio)) + 2 bins, one for
\* values <= start and one for values > max.
NumBuckets == CeilLogRatio(MaxValue) + 2

Bins == 0..(NumBuckets - 1)

LastBin == NumBuckets - 1

\* (mutant) the overflow test written as v >= maxValue.
BinIndexGeMax(v) ==
  IF v >= MaxValue THEN LastBin
  ELSE IF v <= StartValue THEN 0
  ELSE CeilLogRatio(v)

\* latencyHistogram.RecordValue: the bin a value is counted in.
BinIndex(v) ==
  IF v > MaxValue THEN LastBin
  ELSE IF v <= StartValue THEN 0
  ELSE CeilLogRatio(v)

\* latencyHistogram.RecordValue applied counts[v] times for every value v:
\* the raw bins of a histogram that saw exactly those recordings.
HistogramOf(counts) ==
  [b \in Bins |-> SumFunctionOnSet(counts, {v \in DOMAIN counts : BinIndex(v) = b})]

\* AggregateAndReset: countSoFar accumulated over the bins in order, so the
\* snapshot holds at i the number of values in bins 0..i.
RECURSIVE PrefixSum(_, _)
PrefixSum(raw, i) == IF i = 0 THEN raw[0] ELSE PrefixSum(raw, i - 1) + raw[i]

Cumulative(raw) == [i \in Bins |-> PrefixSum(raw, i)]

\* cumulativeLatencyHistogram.TotalCount
TotalCount(cum) == cum[LastBin]

\* The float64 value of percentile / 100, as the exact per-mille pm plus
\* FloatExcess[pm] / (1000 * 2^53): 99.9 / 100 rounds up to
\* 0.99900000000000011, 90.0 / 100 up and 99.0 / 100 down; 0.5 and 1 are
\* exact.
FloatExcess(pm) ==
  CASE pm = 900 -> 200 [] pm = 990 -> -80 [] pm = 999 -> 992 [] OTHER -> 0

\* The binade of a positive integer n: the e with 2^e <= n < 2^(e+1).
Binade(n) == CHOOSE e \in 0..30 : 2^e <= n /\ n < 2^(e + 1)

\* uint64(math.Ceil((percentile / 100) * float64(c))).  The product is
\* within c * 2^-53 of pm * c / 1000, so its ceiling is the exact one
\* unless pm * c / 1000 is an integer n; then a quotient rounded up puts
\* the product above n, and round-to-nearest keeps it there (ceiling n + 1)
\* when the excess c * FloatExcess[pm] / (1000 * 2^53) is more than half an
\* ulp of n, 2^(Binade(n) - 53).  Agrees with the Go expression for every
\* total below 2^20 (no tie occurs there).
Threshold(cum, pm) ==
  LET c == TotalCount(cum)
      n == (pm * c) \div 1000
  IN  IF (pm * c) % 1000 # 0 THEN n + 1
      ELSE IF c > 0 /\ c * FloatExcess(pm) > 1000 * 2^Binade(n) THEN n + 1
      ELSE n

\* The string BinAtPercentile renders for bin i: "> ratio^(i-1)*start" for
\* the overflow bin, "<= ratio^i*start" otherwise.
Label(i) ==
  IF i = LastBin THEN [op |-> "gt", exp |-> i - 1]
                 ELSE [op |-> "le", exp |-> i]

\* The sentinel "0.0" returned when no bin reaches the threshold.
NoLabel == [op |-> "none", exp |-> 0]

\* cumulativeLatencyHistogram.BinAtPercentile: the first bin whose
\* cumulative count reaches the threshold.
BinAtPercentile(cum, pm) ==
  LET hits == {i \in Bins : cum[i] >= Threshold(cum, pm)}
  IN  IF hits = {} THEN NoLabel ELSE Label(Min(hits))

\* What a rendered label asserts of a latency v.
LabelHolds(l, v) ==
  CASE l.op = "le" -> AtOrBelowBound(v, l.exp)
    [] l.op = "gt" -> ~AtOrBelowBound(v, l.exp)
    [] OTHER       -> FALSE

\* The percentiles GetAndResetValues reports: 50.0, 90.0, 99.0, 99.9, 100.
Percentiles == {500, 900, 990, 999, 1000}
=============================================================================
