------------------------- MODULE MCSoftTimerInTime -------------------------
EXTENDS MCSoftTimer

\* What the theorems about order and missed timers ask of the constants.
ASSUME HypothesesMet == PollsOften /\ IntervalsShort
=============================================================================
