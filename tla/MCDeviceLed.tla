---------------------------- MODULE MCDeviceLed ----------------------------
EXTENDS DeviceLedProps

Cfg(on, off, repeat, prio) ==
    [onTime_ms |-> on, offTime_ms |-> off, repeatCount |-> repeat, priority |-> prio]

\* A blink at each priority, a single flash, a pause, a long on, a long off and
\* one that does nothing.
MCConfigs ==
    {Cfg(1, 2, 2, 1), Cfg(2, 1, 3, 2), Cfg(1, 0, 3, 1), Cfg(0, 2, 2, 2),
     Cfg(1, 0, 7, 1), Cfg(0, 1, 7, 1), Cfg(1, 0, 0, 1)}

\* What the proofs assume of the patterns holds of these.
ASSUME PatternsFit == ProductsFit /\ PhasesFit
=============================================================================
