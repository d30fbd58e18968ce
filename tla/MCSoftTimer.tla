---------------------------- MODULE MCSoftTimer ----------------------------
EXTENDS SoftTimerProps
CONSTANTS f, g
=============================================================================
