--------------------- MODULE MCAnalyticsIndexManager ---------------------
EXTENDS AnalyticsIndexManager
=============================================================================
