-------------------------- MODULE MCMetricsServer --------------------------
EXTENDS MetricsServer

BothPlatforms == BOOLEAN
=============================================================================
