------------------------- MODULE MCLatencyHistogram -------------------------
EXTENDS LatencyHistogram
=============================================================================
