--------------------------- MODULE DeviceLedProps ---------------------------
(***************************************************************************)
(* What the indicator LED promises.                                        *)
(***************************************************************************)
EXTENDS DeviceLed

TypeOK ==
    /\ isOn \in BOOLEAN
    /\ repeatCount \in 0 .. Long /\ priority \in Nat
    /\ onTime_ms \in 0 .. ShortMod - 1 /\ offTime_ms \in 0 .. ShortMod - 1
    /\ startTick \in 0 .. Modulus - 1 /\ clock \in 0 .. Modulus - 1
    /\ sincePoll \in 0 .. PollBound
    /\ asked \in Config \cup {<<>>} /\ flashes \in Nat /\ elapsed \in 0 .. MaxElapsed

\* The pattern accepted last is one that ends by itself.
Counted == asked # <<>> /\ asked.repeatCount \notin {0, Long}
Ended == Counted /\ ~Busy

\* A pattern that has run to its end leaves the LED off, whichever patterns it
\* displaced and however late the main loop came.
OffWhenEnded == Ended => ~isOn

\* It has flashed as often as it was asked to: one phase for a pattern that is
\* all on, none for one that is all off.
FlashesAsAsked ==
    Ended => flashes = IF asked.onTime_ms = 0 THEN 0
                       ELSE IF asked.offTime_ms = 0 THEN 1
                       ELSE asked.repeatCount

\* While a pattern is in progress, the phases begun and the repetitions left
\* make up what was asked for.  The inductive form of FlashesAsAsked.
FlashesSoFar ==
    Counted /\ Busy =>
        IF asked.onTime_ms = 0 THEN ~isOn /\ flashes = 0 /\ repeatCount = 1
        ELSE IF asked.offTime_ms = 0
          THEN isOn /\ offTime_ms = 0 /\ flashes = 1 /\ repeatCount = 1
        ELSE offTime_ms # 0 /\ flashes + repeatCount = asked.repeatCount + 1

\* The phases of every pattern fit in an unsigned short when they are made one.
ProductsFit ==
    \A cfg \in Configs :
        /\ cfg.onTime_ms * cfg.repeatCount < ShortMod
        /\ cfg.offTime_ms * cfg.repeatCount < ShortMod

\* The phases as they are stored.  The main loop calls device_led_process more
\* than once in each of them, and none comes near a turn of the system timer.
PhasesFit ==
    \A cfg \in Configs : \A ms \in {Stored(cfg).onTime_ms, Stored(cfg).offTime_ms} :
        /\ ms = 0 \/ PollBound <= ms * TicksPerMs
        /\ ms * TicksPerMs + PollBound < Modulus

\* The time a pattern takes, without delays of the main loop.
Nominal == asked.repeatCount * (asked.onTime_ms + asked.offTime_ms) * TicksPerMs

\* A pattern never ends early, and late by no more than the main loop is: the
\* delays of its phases do not add up.  A phase may follow a late one at once,
\* but each call of process changes one phase only.
OnTime ==
    /\ Ended => elapsed > Nominal \/ elapsed = MaxElapsed
    /\ Counted /\ Busy => elapsed <= Nominal + 1 + PollBound

\* Every pattern gives the LED back: it ends, or is displaced by one of higher
\* priority, which can happen only as often as there are priorities.
PatternEnds == Busy ~> ~Busy
=============================================================================
