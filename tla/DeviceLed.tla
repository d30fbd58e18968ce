----------------------------- MODULE DeviceLed -----------------------------
(***************************************************************************)
(* The indicator LED (vendor/common/blt_led.c, blt_led.h): one pattern of  *)
(* on and off phases at a time, set up by the application and advanced by  *)
(* the main loop, at most one phase change per call of device_led_process. *)
(* A pattern in progress gives way only to one of higher priority.         *)
(***************************************************************************)
EXTENDS Integers

CONSTANTS
    Configs,        \* the led_cfg_t values the application uses
    Long,           \* the repeatCount 0xff of a long on or long off
    ShortMod,       \* range of the unsigned short phase times: 2^16
    Modulus,        \* range of the system timer
    TicksPerMs,     \* CLOCK_16M_SYS_TIMER_CLK_1MS
    PollBound,      \* the longest time between two calls of process, in ticks
    MaxElapsed,     \* how far the time since setup is counted
    MayClear        \* whether the application calls device_led_struct_clear

Config == [onTime_ms : 0 .. ShortMod - 1, offTime_ms : 0 .. ShortMod - 1,
           repeatCount : 0 .. Long, priority : Nat]

ASSUME LedAssumption ==
    /\ ShortMod \in Nat \ {0} /\ Long \in Nat \ {0} /\ Modulus \in Nat \ {0}
    /\ TicksPerMs \in Nat \ {0} /\ PollBound \in Nat /\ MaxElapsed \in Nat
    /\ Configs \subseteq Config
    /\ MayClear \in BOOLEAN

VARIABLES
    isOn, repeatCount, priority, onTime_ms, offTime_ms, startTick,  \* device_led
    clock,          \* clock_time()
    sincePoll,      \* ticks since the last call of device_led_process
    asked,          \* observer: the pattern accepted last, <<>> after a clear
    flashes,        \* observer: the on phases it has begun
    elapsed         \* observer: the ticks since it was accepted

led == <<isOn, repeatCount, priority, onTime_ms, offTime_ms, startTick>>
vars == <<led, clock, sincePoll, asked, flashes, elapsed>>

\* Zeroed memory, after device_led_init has turned the LED off.
Init ==
    /\ isOn = FALSE /\ repeatCount = 0 /\ priority = 0
    /\ onTime_ms = 0 /\ offTime_ms = 0 /\ startTick = 0
    /\ clock = 0 /\ sincePoll = 0
    /\ asked = <<>> /\ flashes = 0 /\ elapsed = 0

\* DEVICE_LED_BUSY
Busy == repeatCount # 0

\* Mutant: a pattern of the same priority is accepted too.
BlockedBelow(cfg) == Busy /\ priority > cfg.priority

Blocked(cfg) == Busy /\ priority >= cfg.priority

\* A product kept in an unsigned short.
Short(n) == n % ShortMod

\* The times and the count device_led_setup stores: a pattern with only one
\* kind of phase becomes one long phase, a long on or off is not in progress.
Stored(cfg) ==
    IF cfg.repeatCount = Long THEN [cfg EXCEPT !.repeatCount = 0]
    ELSE IF cfg.onTime_ms = 0
      THEN [cfg EXCEPT !.offTime_ms = Short(@ * cfg.repeatCount), !.repeatCount = 1]
    ELSE IF cfg.offTime_ms = 0
      THEN [cfg EXCEPT !.onTime_ms = Short(@ * cfg.repeatCount), !.repeatCount = 1]
    ELSE cfg

\* device_led_on_off: the pin and isOn.
OnOff(on) == isOn' = on

\* A blocked pattern makes device_led_setup return 0 and change nothing.
Setup(cfg) ==
    /\ ~Blocked(cfg)
    /\ LET s == Stored(cfg)
       IN  /\ onTime_ms' = s.onTime_ms /\ offTime_ms' = s.offTime_ms
           /\ repeatCount' = s.repeatCount /\ priority' = s.priority
           /\ OnOff(s.onTime_ms # 0)
           /\ flashes' = IF s.onTime_ms # 0 THEN 1 ELSE 0
    /\ startTick' = clock
    /\ asked' = cfg /\ elapsed' = 0
    /\ UNCHANGED <<clock, sincePoll>>

\* device_led_struct_clear: the pattern is dropped, the LED stays as it is.
Clear ==
    /\ MayClear /\ Busy
    /\ repeatCount' = 0 /\ priority' = 0
    /\ asked' = <<>> /\ flashes' = 0 /\ elapsed' = 0
    /\ UNCHANGED <<isOn, onTime_ms, offTime_ms, startTick, clock, sincePoll>>

----------------------------------------------------------------------------
(* device_led_process, which calls led_proc while a pattern is in progress. *)

\* clock_time_exceed(startTick, ms * 1000)
Exceeds(ms) == (clock - startTick) % Modulus > ms * TicksPerMs

\* The next phase is timed from the scheduled end of this one.
\* Mutant: from the time of the call.
StartNow(ms) == startTick' = clock

StartAfter(ms) == startTick' = (startTick + ms * TicksPerMs) % Modulus

Polled == sincePoll' = 0

\* Mutant: led_proc runs with no pattern in progress.
ProceedsIdle == TRUE

Proceeds == Busy

PhaseGoesOn ==
    /\ Proceeds /\ ~Exceeds(IF isOn THEN onTime_ms ELSE offTime_ms)
    /\ Polled
    /\ UNCHANGED <<led, clock, asked, flashes, elapsed>>

EndOnlyPhase == repeatCount' = 0

OnPhaseEnds ==
    /\ Proceeds /\ isOn /\ Exceeds(onTime_ms)
    /\ OnOff(FALSE)
    /\ IF offTime_ms # 0
         THEN StartAfter(onTime_ms) /\ UNCHANGED repeatCount
         ELSE EndOnlyPhase /\ UNCHANGED startTick
    /\ Polled
    /\ UNCHANGED <<priority, onTime_ms, offTime_ms, clock, asked, flashes, elapsed>>

\* Mutant: the LED is turned on again before the count is looked at.
OnBeforeCount(left) == TRUE

OnAgain(left) == left # 0

OffPhaseEnds ==
    /\ Proceeds /\ ~isOn /\ Exceeds(offTime_ms)
    /\ repeatCount' = repeatCount - 1
    /\ IF OnAgain(repeatCount')
         THEN OnOff(TRUE) /\ StartAfter(offTime_ms) /\ flashes' = flashes + 1
         ELSE UNCHANGED <<isOn, startTick, flashes>>
    /\ Polled
    /\ UNCHANGED <<priority, onTime_ms, offTime_ms, clock, asked, elapsed>>

NothingToDo ==
    /\ ~Proceeds
    /\ Polled
    /\ UNCHANGED <<led, clock, asked, flashes, elapsed>>

Process == PhaseGoesOn \/ OnPhaseEnds \/ OffPhaseEnds \/ NothingToDo

Tick ==
    /\ sincePoll < PollBound
    /\ clock' = (clock + 1) % Modulus
    /\ sincePoll' = sincePoll + 1
    /\ elapsed' = IF elapsed < MaxElapsed THEN elapsed + 1 ELSE elapsed
    /\ UNCHANGED <<led, asked, flashes>>

Next == (\E cfg \in Configs : Setup(cfg)) \/ Clear \/ Process \/ Tick

Spec == Init /\ [][Next]_vars

\* The system timer and the main loop do not stop.
FairSpec == Spec /\ WF_vars(Tick) /\ WF_vars(Process)
=============================================================================
