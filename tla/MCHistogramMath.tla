--------------------------- MODULE MCHistogramMath ---------------------------
(***************************************************************************)
(* Checks the histogram arithmetic of HistogramMath against reference      *)
(* definitions stated from the bins' meaning, over every multiset of       *)
(* recorded latencies that holds each value of Values a number of times    *)
(* in Counts.  The multiset is the state; it never changes.                *)
(***************************************************************************)
EXTENDS HistogramMath

CONSTANTS
  Values,     \* latencies (microseconds) a recording may carry
  Counts      \* how many times one value may be recorded in an interval

VARIABLE counts

ASSUME Counts \subseteq 0..1000

Init == counts \in [Values -> Counts]

Next == UNCHANGED counts

Spec == Init /\ [][Next]_counts

\* Latencies checked for bin selection: every integer up to past the
\* overflow boundary.
Latencies == 0..(MaxValue + StartValue)

\* Reference: the range of latencies bin b stands for.  Bin 0 holds what is
\* at most startValue, the last bin what exceeds maxValue, and bin k the
\* latencies in (start*ratio^(k-1), start*ratio^k] that do not exceed max.
InBin(v, b) ==
  CASE b = 0       -> v <= StartValue
    [] b = LastBin -> v > MaxValue
    [] OTHER       -> /\ ~AtOrBelowBound(v, b - 1)
                      /\ AtOrBelowBound(v, b)
                      /\ v <= MaxValue

\* Reference: the nearest rank of percentile pm (per mille) among n
\* recordings, ceil(pm/1000 * n) in exact arithmetic.
NearestRank(pm, n) == (pm * n + 999) \div 1000

\* Reference: the r-th smallest recorded latency.
NumAtMost(v) == SumFunctionOnSet(counts, {u \in Values : u <= v})
RankValue(r) == CHOOSE v \in Values : NumAtMost(v) >= r /\ NumAtMost(v) - counts[v] < r

Snapshot == Cumulative(HistogramOf(counts))

\* RecordValue counts every latency in the one bin whose range contains
\* it: values at maxValue stay out of the overflow bin, values at
\* startValue go to bin 0, and the bins cover every latency (all of
\* Latencies and every recorded value).
BinIndexMatchesIntervals ==
  \A v \in Latencies \cup DOMAIN counts : InBin(v, BinIndex(v)) /\ \A b \in Bins \ {BinIndex(v)} : ~InBin(v, b)

\* After AggregateAndReset the snapshot counts every recording, and for each
\* reported percentile BinAtPercentile names the bin of the recorded
\* latency at that rank (the ceil(p/100 * total)-th smallest, p/100
\* taken exactly).
PercentileReportsRankBin ==
  /\ TotalCount(Snapshot) = SumFunction(counts)
  /\ TotalCount(Snapshot) > 0 =>
       \A pm \in Percentiles :
         BinAtPercentile(Snapshot, pm) =
           Label(BinIndex(RankValue(NearestRank(pm, TotalCount(Snapshot)))))

\* The rendered percentile string is a true statement about the latency at
\* that rank: "<= x" means it is at most x, "> x" that it exceeds x.
PercentileLabelHolds ==
  TotalCount(Snapshot) > 0 =>
    \A pm \in Percentiles :
      LabelHolds(BinAtPercentile(Snapshot, pm),
                 RankValue(NearestRank(pm, TotalCount(Snapshot))))
=============================================================================
