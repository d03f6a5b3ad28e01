-------------------------- MODULE MCStreamTracking --------------------------
EXTENDS StreamTrackingLife
=============================================================================
