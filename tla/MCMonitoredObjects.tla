------------------------- MODULE MCMonitoredObjects -------------------------
EXTENDS MonitoredObjects, TLC

=============================================================================
