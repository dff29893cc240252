------------------------- MODULE MCAggregatingMeter -------------------------
EXTENDS AggregatingMeter
=============================================================================
