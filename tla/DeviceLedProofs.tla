-------------------------- MODULE DeviceLedProofs --------------------------
(***************************************************************************)
(* Proofs about the indicator LED, for every set of patterns and every     *)
(* main loop, however late it comes.                                       *)
(***************************************************************************)
EXTENDS DeviceLedProps, Remainders, TLAPS

LEMMA ShortType == ASSUME NEW n \in Nat PROVE Short(n) \in 0 .. ShortMod - 1
  BY LedAssumption, SMT DEF Short

LEMMA ClockType == ASSUME NEW n \in Nat PROVE n % Modulus \in 0 .. Modulus - 1
  BY LedAssumption, SMT

LEMMA ZeroIn ==
    /\ 0 \in 0 .. Long /\ 0 \in 0 .. ShortMod - 1 /\ 0 \in 0 .. Modulus - 1
    /\ 0 \in 0 .. PollBound /\ 0 \in 0 .. MaxElapsed /\ 0 \in Nat /\ 1 \in Nat
  BY LedAssumption

LEMMA ProductType == ASSUME NEW m \in Nat, NEW n \in Nat PROVE m * n \in Nat
  BY SMT

\* What device_led_setup stores is a pattern of the same kind of fields, with
\* a count of zero only if it is not one that ends by itself.
LEMMA StoredType ==
    ASSUME NEW cfg \in Configs
    PROVE  /\ cfg \in Config /\ Stored(cfg) \in Config
           /\ Stored(cfg).priority = cfg.priority
           /\ cfg.repeatCount \notin {0, Long} => Stored(cfg).repeatCount # 0
  <1>1. cfg \in Config /\ Long # 0 /\ 1 \in 0 .. Long /\ 0 \in 0 .. Long
    BY LedAssumption
  <1>2. /\ Short(cfg.onTime_ms * cfg.repeatCount) \in 0 .. ShortMod - 1
        /\ Short(cfg.offTime_ms * cfg.repeatCount) \in 0 .. ShortMod - 1
    BY <1>1, ProductType, ShortType, LedAssumption DEF Config
  <1> DEFINE on == [cfg EXCEPT !.onTime_ms = Short(@ * cfg.repeatCount), !.repeatCount = 1]
             off == [cfg EXCEPT !.offTime_ms = Short(@ * cfg.repeatCount), !.repeatCount = 1]
             long == [cfg EXCEPT !.repeatCount = 0]
  <1>3. /\ on \in Config /\ on.priority = cfg.priority /\ on.repeatCount = 1
        /\ off \in Config /\ off.priority = cfg.priority /\ off.repeatCount = 1
    BY <1>1, <1>2 DEF Config
  <1>4. long \in Config /\ long.priority = cfg.priority
    BY <1>1 DEF Config
  <1>5. CASE cfg.repeatCount = Long
    BY <1>1, <1>4, <1>5 DEF Stored
  <1>6. CASE cfg.repeatCount # Long /\ cfg.onTime_ms = 0
    <2>1. Stored(cfg) = off
      BY <1>6 DEF Stored
    <2> QED
      BY <1>1, <1>3, <2>1
  <1>7. CASE cfg.repeatCount # Long /\ cfg.onTime_ms # 0 /\ cfg.offTime_ms = 0
    <2>1. Stored(cfg) = on
      BY <1>7 DEF Stored
    <2> QED
      BY <1>1, <1>3, <2>1
  <1>8. CASE cfg.repeatCount # Long /\ cfg.onTime_ms # 0 /\ cfg.offTime_ms # 0
    BY <1>1, <1>8 DEF Stored
  <1> QED
    BY <1>5, <1>6, <1>7, <1>8

\* Every action keeps the state well typed; the count is never taken below 0.
LEMMA TypeStep == ASSUME TypeOK, [Next]_vars PROVE TypeOK'
  <1> USE LedAssumption
  <1>1. ASSUME NEW cfg \in Configs, Setup(cfg) PROVE TypeOK'
    <2> DEFINE s == Stored(cfg)
    <2>1. s \in Config /\ cfg \in Config
      BY StoredType
    <2> QED
      BY <1>1, <2>1 DEF Setup, OnOff, TypeOK, Config
  <1>2. CASE Clear
    BY <1>2 DEF Clear, TypeOK
  <1>3. CASE PhaseGoesOn \/ NothingToDo
    BY <1>3 DEF PhaseGoesOn, NothingToDo, Polled, led, TypeOK
  <1>4. CASE OnPhaseEnds
    <2>1. startTick' \in 0 .. Modulus - 1
      <3>1. startTick + onTime_ms * TicksPerMs \in Nat
        BY ProductType DEF TypeOK
      <3> QED
        BY <1>4, <3>1, ClockType DEF OnPhaseEnds, StartAfter, TypeOK
    <2> QED
      BY <1>4, <2>1, ZeroIn DEF OnPhaseEnds, OnOff, EndOnlyPhase, Polled, TypeOK
  <1>5. CASE OffPhaseEnds
    <2>1. startTick' \in 0 .. Modulus - 1
      <3>1. startTick + offTime_ms * TicksPerMs \in Nat
        BY ProductType DEF TypeOK
      <3> QED
        BY <1>5, <3>1, ClockType DEF OffPhaseEnds, StartAfter, TypeOK
    <2>2. repeatCount' \in 0 .. Long /\ flashes' \in Nat
      BY <1>5 DEF OffPhaseEnds, OnOff, Proceeds, Busy, TypeOK
    <2>3. isOn' \in BOOLEAN
      BY <1>5 DEF OffPhaseEnds, OnOff, TypeOK
    <2> QED
      BY <1>5, <2>1, <2>2, <2>3, ZeroIn DEF OffPhaseEnds, Polled, TypeOK
  <1>6. CASE Tick
    <2>1. clock' \in 0 .. Modulus - 1
      BY <1>6, ClockType DEF Tick, TypeOK
    <2> QED
      BY <1>6, <2>1 DEF Tick, led, TypeOK
  <1>7. CASE UNCHANGED vars
    BY <1>7 DEF vars, led, TypeOK
  <1> QED
    BY <1>1, <1>2, <1>3, <1>4, <1>5, <1>6, <1>7 DEF Next, Process

LEMMA InitType == Init => TypeOK
  BY ZeroIn DEF Init, TypeOK

\* Every variable keeps its type: the unsigned char repeatCount is never
\* decremented from zero, and the long phases are the truncated products.
THEOREM TypeCorrect == Spec => []TypeOK
  BY InitType, TypeStep, PTL DEF Spec

----------------------------------------------------------------------------
(* A pattern that has ended has left the LED off.                          *)

LEMMA OffStep == ASSUME TypeOK, OffWhenEnded, [Next]_vars PROVE OffWhenEnded'
  <1> USE DEF OffWhenEnded, Ended, Counted, Busy
  <1>1. ASSUME NEW cfg \in Configs, Setup(cfg) PROVE OffWhenEnded'
    BY <1>1, StoredType DEF Setup
  <1>2. CASE Clear
    BY <1>2 DEF Clear
  <1>3. CASE PhaseGoesOn \/ NothingToDo \/ Tick \/ UNCHANGED vars
    BY <1>3 DEF PhaseGoesOn, NothingToDo, Tick, led, vars
  <1>4. CASE OnPhaseEnds
    BY <1>4 DEF OnPhaseEnds, OnOff
  <1>5. CASE OffPhaseEnds
    BY <1>5 DEF OffPhaseEnds, OnAgain
  <1> QED
    BY <1>1, <1>2, <1>3, <1>4, <1>5 DEF Next, Process

\* When a pattern has ended the LED is off, whichever patterns it displaced,
\* whatever the main loop's delays, and even if a product was truncated.
THEOREM OffCorrect == Spec => []OffWhenEnded
  <1>1. Init => OffWhenEnded
    BY DEF Init, OffWhenEnded, Ended, Counted
  <1> QED
    BY <1>1, TypeCorrect, OffStep, PTL DEF Spec

----------------------------------------------------------------------------
(* A pattern flashes as often as it was asked to.                          *)

CountInv == FlashesSoFar /\ FlashesAsAsked

\* A product that fits is stored as it is, so a phase that was asked for is
\* not lost.
LEMMA StoredKinds ==
    ASSUME ProductsFit, NEW cfg \in Configs, cfg.repeatCount \notin {0, Long}
    PROVE  LET s == Stored(cfg)
           IN  IF cfg.onTime_ms = 0 THEN s.onTime_ms = 0 /\ s.repeatCount = 1
               ELSE IF cfg.offTime_ms = 0
                 THEN s.onTime_ms # 0 /\ s.offTime_ms = 0 /\ s.repeatCount = 1
               ELSE s = cfg
  <1>1. cfg \in Config
    BY LedAssumption
  <1>2. CASE cfg.onTime_ms = 0
    BY <1>1, <1>2 DEF Stored, Config
  <1>3. CASE cfg.onTime_ms # 0 /\ cfg.offTime_ms = 0
    <2> DEFINE n == cfg.onTime_ms * cfg.repeatCount
    <2>1. cfg.onTime_ms \in Nat \ {0} /\ cfg.repeatCount \in Nat \ {0}
      BY <1>1, <1>3, LedAssumption DEF Config
    <2>2. n \in Nat \ {0}
      BY <2>1, SMT
    <2>3. n < ShortMod
      BY DEF ProductsFit
    <2>4. Short(n) = n
      <3> HIDE DEF n
      <3> QED
        BY <2>2, <2>3, LedAssumption, SMT DEF Short
    <2> QED
      BY <1>1, <1>3, <2>2, <2>4 DEF Stored, Config
  <1>4. CASE cfg.onTime_ms # 0 /\ cfg.offTime_ms # 0
    BY <1>4 DEF Stored
  <1> QED
    BY <1>2, <1>3, <1>4

LEMMA CountStep ==
    ASSUME ProductsFit, TypeOK, CountInv, [Next]_vars PROVE CountInv'
  <1> USE DEF CountInv, FlashesSoFar, FlashesAsAsked, Ended, Counted, Busy
  <1>1. ASSUME NEW cfg \in Configs, Setup(cfg) PROVE CountInv'
    <2>1. cfg \in Config
      BY LedAssumption
    <2>2. asked' = cfg
      BY <1>1 DEF Setup
    <2>3. CASE cfg.repeatCount \in {0, Long}
      BY <2>2, <2>3
    <2>4. CASE cfg.repeatCount \notin {0, Long}
      <3> DEFINE s == Stored(cfg)
      <3>1. /\ isOn' = (s.onTime_ms # 0) /\ offTime_ms' = s.offTime_ms
            /\ repeatCount' = s.repeatCount
            /\ flashes' = IF s.onTime_ms # 0 THEN 1 ELSE 0
        BY <1>1 DEF Setup, OnOff
      <3>2. cfg.repeatCount \in Nat
        BY <2>1, LedAssumption DEF Config
      <3>3. CASE cfg.onTime_ms = 0
        BY <2>2, <2>4, <3>1, <3>3, StoredKinds
      <3>4. CASE cfg.onTime_ms # 0 /\ cfg.offTime_ms = 0
        BY <2>2, <2>4, <3>1, <3>4, StoredKinds
      <3>5. CASE cfg.onTime_ms # 0 /\ cfg.offTime_ms # 0
        <4>1. s = cfg
          BY <2>4, <3>5, StoredKinds
        <4>2. flashes' + repeatCount' = cfg.repeatCount + 1
          BY <3>1, <3>2, <3>5, <4>1
        <4> QED
          BY <2>2, <2>4, <3>1, <3>5, <4>1, <4>2
      <3> QED
        BY <3>3, <3>4, <3>5
    <2> QED
      BY <2>3, <2>4
  <1>2. CASE Clear
    BY <1>2 DEF Clear
  <1>3. CASE PhaseGoesOn \/ NothingToDo \/ Tick \/ UNCHANGED vars
    BY <1>3 DEF PhaseGoesOn, NothingToDo, Tick, led, vars
  <1>4. CASE OnPhaseEnds
    BY <1>4 DEF OnPhaseEnds, OnOff, EndOnlyPhase, TypeOK
  <1>5. CASE OffPhaseEnds
    <2>1. asked' = asked /\ repeatCount' = repeatCount - 1 /\ offTime_ms' = offTime_ms
      BY <1>5 DEF OffPhaseEnds
    <2>2. /\ repeatCount' # 0 => isOn' = TRUE /\ flashes' = flashes + 1
          /\ repeatCount' = 0 => flashes' = flashes
          /\ ~isOn /\ repeatCount # 0
      BY <1>5 DEF OffPhaseEnds, OnAgain, OnOff, Proceeds
    <2>3. CASE Counted
      <3>1. asked.repeatCount \in Int /\ repeatCount \in Nat /\ flashes \in Nat
        BY <2>3, LedAssumption DEF TypeOK, Config
      <3> QED
        BY <2>1, <2>2, <2>3, <3>1
    <2>4. CASE ~Counted
      BY <2>1, <2>4
    <2> QED
      BY <2>3, <2>4
  <1> QED
    BY <1>1, <1>2, <1>3, <1>4, <1>5 DEF Next, Process

\* A pattern that has ended has had as many on phases as it was asked for, if
\* no product of a time and a count is truncated; one that is a multiple of
\* 2^16 would be stored as no phase at all (blt_led.c:154, :159).
THEOREM FlashCorrect == ASSUME ProductsFit PROVE Spec => []FlashesAsAsked
  <1>1. Init => CountInv
    BY DEF Init, CountInv, FlashesSoFar, FlashesAsAsked, Ended, Counted
  <1>2. TypeOK /\ CountInv /\ [Next]_vars => CountInv'
    BY CountStep
  <1>3. CountInv => FlashesAsAsked
    BY DEF CountInv
  <1> QED
    BY <1>1, <1>2, <1>3, TypeCorrect, PTL DEF Spec

----------------------------------------------------------------------------
(* A pattern neither ends early nor much too late.                         *)

\* The ticks since the scheduled start of the phase, and those it is to last.
Lag == (clock - startTick) % Modulus
PhaseMs == IF isOn THEN onTime_ms ELSE offTime_ms
Phase == PhaseMs * TicksPerMs

\* The ticks the phases that have ended were to last: none in a pattern with
\* only one kind of phase, which is one long phase.
Blinks == asked.onTime_ms # 0 /\ asked.offTime_ms # 0
Past ==
    IF Blinks
      THEN (asked.repeatCount - repeatCount) * (asked.onTime_ms + asked.offTime_ms) * TicksPerMs
           + (IF isOn THEN 0 ELSE asked.onTime_ms * TicksPerMs)
      ELSE 0

\* The pattern in progress is the one asked for, as it was stored.
AskedInv ==
    /\ asked \in Configs
    /\ onTime_ms = Stored(asked).onTime_ms /\ offTime_ms = Stored(asked).offTime_ms
    /\ repeatCount <= Stored(asked).repeatCount

\* A phase outlasts its time only until the next call, and the phases and the
\* lag add up to the time since the pattern was accepted: no delay is carried
\* over.
LagInv ==
    /\ Lag <= Phase + sincePoll
    /\ elapsed <= Past + Lag
    /\ elapsed = Past + Lag \/ elapsed = MaxElapsed

TimeInv == Counted /\ Busy => AskedInv /\ LagInv

LEMMA Difference ==
    ASSUME NEW c \in 0 .. Modulus - 1, NEW s \in 0 .. Modulus - 1
    PROVE  (c - s) % Modulus = IF c >= s THEN c - s ELSE c - s + Modulus
  <1> USE LedAssumption
  <1>1. CASE c >= s
    BY <1>1, SmallRemainder, c - s \in Nat
  <1>2. CASE c < s
    <2>1. c - s + Modulus \in 0 .. Modulus - 1 /\ -1 \in Int
      BY <1>2
    <2> QED
      BY <1>2, <2>1, SMT
  <1> QED
    BY <1>1, <1>2

LEMMA Wrapped ==
    ASSUME NEW n \in 0 .. 2 * Modulus - 1
    PROVE  n % Modulus = IF n < Modulus THEN n ELSE n - Modulus
  <1> USE LedAssumption
  <1>1. CASE n < Modulus
    BY <1>1, SmallRemainder
  <1>2. CASE n >= Modulus
    <2>1. n - Modulus \in 0 .. Modulus - 1 /\ n = Modulus * 1 + (n - Modulus) /\ 1 \in Int
      BY <1>2
    <2> QED
      BY <1>2, <2>1, RemainderUnique
  <1> QED
    BY <1>1, <1>2

\* A tick makes the lag longer by one, unless that is a whole turn.
LEMMA LagTicks ==
    ASSUME NEW c \in 0 .. Modulus - 1, NEW s \in 0 .. Modulus - 1,
           ((c - s) % Modulus) + 1 < Modulus
    PROVE  (((c + 1) % Modulus) - s) % Modulus = ((c - s) % Modulus) + 1
  <1> USE LedAssumption
  <1>1. c + 1 \in 0 .. 2 * Modulus - 1
    OBVIOUS
  <1>2. (c + 1) % Modulus = IF c + 1 < Modulus THEN c + 1 ELSE c + 1 - Modulus
    BY <1>1, Wrapped
  <1>3. (c + 1) % Modulus \in 0 .. Modulus - 1
    BY <1>2
  <1> DEFINE n == (c + 1) % Modulus
             lag == (c - s) % Modulus
             new == (n - s) % Modulus
  <1>4. lag = (IF c >= s THEN c - s ELSE c - s + Modulus) /\ lag + 1 < Modulus
    BY Difference
  <1>5. new = IF n >= s THEN n - s ELSE n - s + Modulus
    <2> HIDE DEF n
    <2> QED
      BY <1>3, Difference DEF n
  <1> HIDE DEF n, lag, new
  <1>6. n = IF c + 1 < Modulus THEN c + 1 ELSE c + 1 - Modulus
    BY <1>2 DEF n
  <1>7. new = lag + 1
    BY <1>4, <1>5, <1>6
  <1> QED
    BY <1>7 DEF n, lag, new

\* Starting the next phase at the end of one makes the lag shorter by it.
LEMMA LagShrinks ==
    ASSUME NEW c \in 0 .. Modulus - 1, NEW s \in 0 .. Modulus - 1, NEW d \in Nat,
           d <= (c - s) % Modulus
    PROVE  (c - ((s + d) % Modulus)) % Modulus = ((c - s) % Modulus) - d
  <1> USE LedAssumption
  <1> DEFINE n == (s + d) % Modulus
             lag == (c - s) % Modulus
             new == (c - n) % Modulus
  <1>1. lag = (IF c >= s THEN c - s ELSE c - s + Modulus) /\ d <= lag
    BY Difference
  <1>2. s + d \in 0 .. 2 * Modulus - 1
    <2> HIDE DEF lag
    <2> QED
      BY <1>1
  <1>3. n = IF s + d < Modulus THEN s + d ELSE s + d - Modulus
    BY <1>2, Wrapped
  <1>4. n \in 0 .. Modulus - 1
    <2> HIDE DEF n
    <2> QED
      BY <1>2, <1>3
  <1>5. new = IF c >= n THEN c - n ELSE c - n + Modulus
    <2> HIDE DEF n
    <2> QED
      BY <1>4, Difference DEF n
  <1> HIDE DEF n, lag, new
  <1>6. new = lag - d
    BY <1>1, <1>3, <1>5
  <1> QED
    BY <1>6 DEF n, lag, new

\* What a whole repetition adds.
LEMMA Repetition ==
    ASSUME NEW k \in Nat, NEW p \in Nat, NEW q \in Nat, NEW t \in Nat
    PROVE  /\ (k + 1) * (p + q) * t = k * (p + q) * t + p * t + q * t
           /\ k * (p + q) * t \in Nat /\ p * t \in Nat /\ q * t \in Nat
  BY SMT

LEMMA Repetitions ==
    ASSUME NEW k \in Nat, NEW m \in Nat, k <= m, NEW p \in Nat, NEW q \in Nat, NEW t \in Nat
    PROVE  k * (p + q) * t <= m * (p + q) * t
  <1> DEFINE r == (p + q) * t
  <1>1. r \in Nat /\ k * (p + q) * t = k * r /\ m * (p + q) * t = m * r
    BY SMT
  <1> HIDE DEF r
  <1>2. k * r <= m * r
    BY <1>1, SMT
  <1> QED
    BY <1>1, <1>2

\* A pattern with only one kind of phase is stored as one phase of its whole
\* time.
LEMMA StoredTimes ==
    ASSUME ProductsFit, NEW cfg \in Configs, cfg.repeatCount \notin {0, Long}
    PROVE  LET s == Stored(cfg)
           IN  IF cfg.onTime_ms = 0 THEN s.offTime_ms = cfg.offTime_ms * cfg.repeatCount
               ELSE cfg.offTime_ms = 0 => s.onTime_ms = cfg.onTime_ms * cfg.repeatCount
  <1>1. cfg \in Config
    BY LedAssumption
  <1> DEFINE on == cfg.onTime_ms * cfg.repeatCount
             off == cfg.offTime_ms * cfg.repeatCount
  <1>2. /\ cfg.onTime_ms \in Nat /\ cfg.offTime_ms \in Nat /\ cfg.repeatCount \in Nat
        /\ on < ShortMod /\ off < ShortMod
    BY <1>1, LedAssumption DEF Config, ProductsFit
  <1>3. on \in Nat /\ off \in Nat
    BY <1>2, ProductType
  <1>4. Short(on) = on /\ Short(off) = off
    <2> HIDE DEF on, off
    <2> QED
      BY <1>2, <1>3, LedAssumption, SmallRemainder DEF Short
  <1>5. CASE cfg.onTime_ms = 0
    BY <1>1, <1>4, <1>5 DEF Stored, Config
  <1>6. CASE cfg.onTime_ms # 0 /\ cfg.offTime_ms = 0
    BY <1>1, <1>4, <1>6 DEF Stored, Config
  <1> QED
    BY <1>5, <1>6

\* The pattern in progress: the phases that have ended and this one are no
\* more than the whole, and a pattern of one phase is all of it.
LEMMA InProgress ==
    ASSUME ProductsFit, TypeOK, CountInv, Counted, Busy, AskedInv
    PROVE  /\ asked.onTime_ms \in Nat /\ asked.offTime_ms \in Nat
           /\ asked.repeatCount \in Nat /\ repeatCount \in Nat \ {0}
           /\ Phase \in Nat /\ Past \in Nat /\ Nominal \in Nat
           /\ Past + Phase <= Nominal
           /\ Blinks => /\ onTime_ms = asked.onTime_ms /\ offTime_ms = asked.offTime_ms
                        /\ repeatCount <= asked.repeatCount
           /\ ~Blinks => Past = 0 /\ Phase = Nominal /\ repeatCount = 1 /\ (isOn => offTime_ms = 0)
           /\ repeatCount = 1 /\ ~isOn => Past + Phase = Nominal
  <1> USE LedAssumption
  <1> DEFINE a == asked.onTime_ms
             b == asked.offTime_ms
             r == asked.repeatCount
             n == repeatCount
  <1>1. /\ a \in Nat /\ b \in Nat /\ r \in Nat /\ n \in Nat \ {0} /\ r \notin {0, Long}
        /\ onTime_ms \in Nat /\ offTime_ms \in Nat /\ TicksPerMs \in Nat
    BY DEF AskedInv, Config, TypeOK, Busy, Counted
  <1>2. Phase \in Nat /\ Nominal \in Nat
    <2>1. PhaseMs \in Nat
      BY <1>1 DEF PhaseMs
    <2> QED
      BY <1>1, <2>1, ProductType, Repetition DEF Phase, Nominal
  <1>3. CASE Blinks
    <2>1. onTime_ms = a /\ offTime_ms = b /\ n <= r
      BY <1>1, <1>3, StoredKinds DEF AskedInv, Blinks
    <2> DEFINE k == r - n
               done == k * (a + b) * TicksPerMs
    <2>2. k \in Nat /\ k + 1 \in Nat /\ k + 1 <= r
      BY <1>1, <2>1
    <2>3. /\ (k + 1) * (a + b) * TicksPerMs = done + a * TicksPerMs + b * TicksPerMs
          /\ done \in Nat /\ a * TicksPerMs \in Nat /\ b * TicksPerMs \in Nat
      <3> HIDE DEF a, b, r, n, k
      <3> QED
        BY <1>1, <2>2, Repetition
    <2>4. (k + 1) * (a + b) * TicksPerMs <= Nominal
      <3>1. (k + 1) * (a + b) * TicksPerMs <= r * (a + b) * TicksPerMs
        <4> HIDE DEF a, b, r, n, k
        <4> QED
          BY <1>1, <2>2, Repetitions
      <3> QED
        BY <3>1 DEF Nominal
    <2>5. n = 1 => (k + 1) * (a + b) * TicksPerMs = Nominal
      <3>1. n = 1 => k + 1 = r
        BY <1>1
      <3> QED
        BY <3>1 DEF Nominal
    <2>6. Past = done + (IF isOn THEN 0 ELSE a * TicksPerMs)
      BY <1>3 DEF Past
    <2>7. Phase = IF isOn THEN a * TicksPerMs ELSE b * TicksPerMs
      BY <2>1 DEF Phase, PhaseMs
    <2> DEFINE at == a * TicksPerMs
               bt == b * TicksPerMs
               all == (k + 1) * (a + b) * TicksPerMs
    <2>8. Past \in Nat /\ Past + Phase <= Nominal /\ (n = 1 /\ ~isOn => Past + Phase = Nominal)
      <3>1. /\ all = done + at + bt /\ done \in Nat /\ at \in Nat /\ bt \in Nat
            /\ all <= Nominal /\ (n = 1 => all = Nominal)
        BY <2>3, <2>4, <2>5
      <3> HIDE DEF done, at, bt, all, n
      <3>2. CASE isOn
        <4>1. Past = done + 0 /\ Phase = at
          BY <2>6, <2>7, <3>2 DEF at
        <4> QED
          BY <1>2, <3>1, <3>2, <4>1
      <3>3. CASE ~isOn
        <4>1. Past = done + at /\ Phase = bt
          BY <2>6, <2>7, <3>3 DEF at, bt
        <4> QED
          BY <1>2, <3>1, <4>1
      <3> QED
        BY <3>2, <3>3
    <2> QED
      BY <1>1, <1>2, <1>3, <2>1, <2>8
  <1>4. CASE ~Blinks
    <2>1. Past = 0
      BY <1>4 DEF Past
    <2>2. n = 1 /\ (IF a = 0 THEN ~isOn ELSE isOn /\ offTime_ms = 0)
      BY <1>4 DEF CountInv, FlashesSoFar, Blinks
    <2>3. PhaseMs = r * (a + b)
      <3>1. CASE a = 0
        <4>1. PhaseMs = b * r
          BY <1>1, <2>2, <3>1, StoredTimes DEF AskedInv, PhaseMs
        <4> QED
          BY <1>1, <3>1, <4>1, SMT
      <3>2. CASE a # 0
        <4>1. b = 0
          BY <1>4, <3>2 DEF Blinks
        <4>2. PhaseMs = a * r
          BY <1>1, <2>2, <3>2, <4>1, StoredTimes DEF AskedInv, PhaseMs
        <4> QED
          BY <1>1, <4>1, <4>2, SMT
      <3> QED
        BY <3>1, <3>2
    <2>4. Phase = Nominal
      BY <2>3 DEF Phase, Nominal
    <2>5. Past + Phase = Nominal /\ Past \in Nat
      BY <1>2, <2>1, <2>4
    <2>6. isOn => offTime_ms = 0
      BY <2>2
    <2> QED
      BY <1>1, <1>2, <1>4, <2>1, <2>2, <2>4, <2>5, <2>6
  <1> QED
    BY <1>3, <1>4

\* The stored phases are no longer than the timer can tell, and a phase with
\* any length is polled.
LEMMA PhaseFits ==
    ASSUME PhasesFit, TypeOK, AskedInv
    PROVE  /\ Phase \in Nat /\ Phase + PollBound < Modulus
           /\ onTime_ms # 0 => PollBound <= onTime_ms * TicksPerMs
           /\ offTime_ms # 0 => PollBound <= offTime_ms * TicksPerMs
  <1>1. \A ms \in {onTime_ms, offTime_ms} :
            /\ ms = 0 \/ PollBound <= ms * TicksPerMs
            /\ ms * TicksPerMs + PollBound < Modulus
    BY DEF PhasesFit, AskedInv
  <1>2. PhaseMs \in {onTime_ms, offTime_ms} /\ PhaseMs \in Nat
    BY LedAssumption DEF PhaseMs, TypeOK
  <1> QED
    BY <1>1, <1>2, ProductType, LedAssumption DEF Phase

LEMMA LagType == ASSUME TypeOK PROVE Lag \in Nat
  <1>1. (clock - startTick) % Modulus \in 0 .. Modulus - 1
    BY Difference, LedAssumption DEF TypeOK
  <1> QED
    BY <1>1 DEF Lag

LEMMA AskedStep ==
    ASSUME TypeOK, CountInv, TimeInv, [Next]_vars, (Counted /\ Busy)' PROVE AskedInv'
  <1>1. ASSUME NEW cfg \in Configs, Setup(cfg) PROVE AskedInv'
    <2>1. Stored(cfg).repeatCount \in Nat
      BY StoredType, LedAssumption DEF Config
    <2>2. /\ asked' = cfg /\ onTime_ms' = Stored(cfg).onTime_ms
          /\ offTime_ms' = Stored(cfg).offTime_ms /\ repeatCount' = Stored(cfg).repeatCount
      BY <1>1 DEF Setup
    <2> QED
      BY <2>1, <2>2 DEF AskedInv
  <1>2. CASE Clear
    BY <1>2 DEF Clear, Counted
  <1>3. ASSUME Counted /\ Busy,
               UNCHANGED <<asked, onTime_ms, offTime_ms>>,
               repeatCount' \in Int /\ repeatCount' <= repeatCount
        PROVE  AskedInv'
    <2>1. AskedInv /\ repeatCount \in Int
      BY <1>3, LedAssumption DEF TimeInv, TypeOK
    <2>2. Stored(asked).repeatCount \in Nat
      BY <2>1, StoredType, LedAssumption DEF Config, AskedInv
    <2> QED
      BY <1>3, <2>1, <2>2 DEF AskedInv
  <1>4. CASE Process
    <2>1. UNCHANGED <<asked, onTime_ms, offTime_ms>>
      BY <1>4 DEF Process, PhaseGoesOn, OnPhaseEnds, OffPhaseEnds, NothingToDo, led
    <2>2. repeatCount' \in {repeatCount, repeatCount - 1, 0}
      BY <1>4 DEF Process, PhaseGoesOn, OnPhaseEnds, OffPhaseEnds, NothingToDo, led, EndOnlyPhase
    <2>3. Counted /\ Busy
      BY <1>4, <2>1 DEF Counted, Busy, Proceeds, Process, PhaseGoesOn, OnPhaseEnds,
                        OffPhaseEnds, NothingToDo, led
    <2>4. repeatCount \in Nat
      BY LedAssumption DEF TypeOK
    <2>5. repeatCount' \in Int /\ repeatCount' <= repeatCount
      BY <2>2, <2>4
    <2> QED
      BY <1>3, <2>1, <2>3, <2>5
  <1>5. CASE Tick \/ UNCHANGED vars
    <2>1. UNCHANGED <<asked, onTime_ms, offTime_ms, repeatCount>>
      BY <1>5 DEF Tick, vars, led
    <2>2. Counted /\ Busy
      BY <2>1 DEF Counted, Busy
    <2>3. repeatCount' \in Int /\ repeatCount' <= repeatCount
      BY <2>1, LedAssumption DEF TypeOK
    <2> QED
      BY <1>3, <2>1, <2>2, <2>3
  <1> QED
    BY <1>1, <1>2, <1>4, <1>5 DEF Next

LEMMA LagStep ==
    ASSUME ProductsFit, PhasesFit, TypeOK, CountInv, TimeInv, [Next]_vars, (Counted /\ Busy)'
    PROVE  LagInv'
  <1> USE LedAssumption
  <1>1. ASSUME NEW cfg \in Configs, Setup(cfg) PROVE LagInv'
    <2> DEFINE s == Stored(cfg)
    <2>1. /\ asked' = cfg /\ onTime_ms' = s.onTime_ms /\ offTime_ms' = s.offTime_ms
          /\ repeatCount' = s.repeatCount /\ isOn' = (s.onTime_ms # 0)
          /\ startTick' = clock /\ clock' = clock /\ sincePoll' = sincePoll /\ elapsed' = 0
      BY <1>1 DEF Setup, OnOff
    <2>2. s \in Config /\ cfg \in Config
      BY StoredType
    <2>3. Lag' = 0
      <3>1. (clock - clock) % Modulus = 0
        BY Difference DEF TypeOK
      <3> QED
        BY <2>1, <3>1 DEF Lag
    <2>4. PICK phase \in Nat : Phase' = phase
      <3>1. PhaseMs' \in Nat
        BY <2>1, <2>2 DEF PhaseMs, Config
      <3> QED
        BY <3>1, ProductType DEF Phase
    <2>5. Past' = 0
      <3>1. CASE Blinks'
        <4>1. cfg.onTime_ms # 0 /\ cfg.offTime_ms # 0
          BY <2>1, <3>1 DEF Blinks
        <4>2. cfg.repeatCount \notin {0, Long}
          BY <2>1 DEF Counted
        <4>3. s = cfg
          BY <4>1, <4>2, StoredKinds
        <4>4. Past' = (cfg.repeatCount - cfg.repeatCount) * (cfg.onTime_ms + cfg.offTime_ms) * TicksPerMs
                      + 0
          BY <2>1, <3>1, <4>1, <4>3 DEF Past
        <4>5. cfg.repeatCount - cfg.repeatCount = 0 /\ cfg.onTime_ms + cfg.offTime_ms \in Nat
          BY <2>2 DEF Config
        <4> QED
          BY <4>4, <4>5, SMT
      <3>2. CASE ~Blinks'
        BY <3>2 DEF Past
      <3> QED
        BY <3>1, <3>2
    <2>6. sincePoll \in Nat /\ sincePoll' = sincePoll
      BY <2>1 DEF TypeOK
    <2>7. elapsed' = 0
      BY <2>1
    <2> QED
      BY <2>3, <2>4, <2>5, <2>6, <2>7 DEF LagInv
  <1>2. CASE Clear
    BY <1>2 DEF Clear, Counted
  <1>3. CASE PhaseGoesOn
    <2>1. UNCHANGED <<led, clock, asked, elapsed>> /\ sincePoll' = 0
      BY <1>3 DEF PhaseGoesOn, Polled
    <2>2. Lag' = Lag /\ Past' = Past /\ Phase' = Phase
      BY <2>1 DEF Lag, Past, Phase, PhaseMs, Blinks, led
    <2>3. Counted /\ Busy
      BY <2>1 DEF Counted, Busy, led
    <2>4. LagInv /\ AskedInv
      BY <2>3 DEF TimeInv
    <2>5. Phase \in Nat /\ Lag \in Nat
      BY <2>4, PhaseFits, LagType
    <2>6. ~(Lag > Phase)
      BY <1>3 DEF PhaseGoesOn, Exceeds, Lag, Phase, PhaseMs
    <2> QED
      BY <2>1, <2>2, <2>4, <2>5, <2>6 DEF LagInv
  <1>4. CASE OnPhaseEnds
    <2>1. offTime_ms # 0
      BY <1>4 DEF OnPhaseEnds, EndOnlyPhase, Busy
    <2>2. /\ isOn /\ ~isOn' /\ StartAfter(onTime_ms) /\ sincePoll' = 0
          /\ UNCHANGED <<repeatCount, priority, onTime_ms, offTime_ms, clock, asked, elapsed>>
      BY <1>4, <2>1 DEF OnPhaseEnds, OnOff, Polled
    <2>3. Counted /\ Busy
      BY <2>2 DEF Counted, Busy
    <2>4. LagInv /\ AskedInv
      BY <2>3 DEF TimeInv
    <2> DEFINE on == onTime_ms * TicksPerMs
               off == offTime_ms * TicksPerMs
    <2>5. Blinks /\ onTime_ms = asked.onTime_ms /\ Past \in Nat
      BY <2>1, <2>2, <2>3, <2>4, InProgress
    <2>6. Phase = on /\ Phase \in Nat /\ PollBound <= off
      BY <2>1, <2>2, <2>4, PhaseFits DEF Phase, PhaseMs
    <2>7. Lag > Phase /\ Lag \in Nat /\ on \in Nat /\ off \in Nat
      <3>1. Lag > Phase
        BY <1>4, <2>6 DEF OnPhaseEnds, Exceeds, Lag
      <3> QED
        BY <3>1, LagType, ProductType DEF TypeOK
    <2>8. Lag' = Lag - on
      <3>1. startTick' = (startTick + on) % Modulus /\ clock' = clock
        BY <2>2 DEF StartAfter
      <3>2. on <= (clock - startTick) % Modulus
        <4>1. on <= Lag
          BY <2>6, <2>7
        <4> QED
          BY <4>1 DEF Lag
      <3>3. (clock - ((startTick + on) % Modulus)) % Modulus = ((clock - startTick) % Modulus) - on
        <4> HIDE DEF on
        <4> QED
          BY <2>7, <3>2, LagShrinks DEF TypeOK
      <3> HIDE DEF on
      <3> QED
        BY <3>1, <3>3 DEF Lag
    <2>9. Phase' = off
      BY <2>2 DEF Phase, PhaseMs
    <2>10. Past' = Past + on
      <3> DEFINE done == (asked.repeatCount - repeatCount) * (asked.onTime_ms + asked.offTime_ms) * TicksPerMs
      <3>1. Past = done + 0
        BY <2>2, <2>5 DEF Past
      <3>2. Past' = done + on
        BY <2>2, <2>5 DEF Past, Blinks
      <3>3. done \in Nat
        <4>1. /\ asked.repeatCount - repeatCount \in Nat
              /\ asked.onTime_ms \in Nat /\ asked.offTime_ms \in Nat
          BY <2>3, <2>4, <2>5, InProgress
        <4> QED
          BY <4>1, Repetition
      <3> HIDE DEF done, on
      <3> QED
        BY <2>7, <3>1, <3>2, <3>3
    <2>11. sincePoll \in Nat /\ sincePoll <= PollBound
      BY DEF TypeOK
    <2> HIDE DEF on, off
    <2> QED
      BY <2>2, <2>4, <2>5, <2>6, <2>7, <2>8, <2>9, <2>10, <2>11 DEF LagInv
  <1>5. CASE OffPhaseEnds
    <2>1. repeatCount' = repeatCount - 1 /\ repeatCount' # 0 /\ repeatCount # 0
      BY <1>5 DEF OffPhaseEnds, Busy, Proceeds
    <2>2. /\ ~isOn /\ isOn' /\ StartAfter(offTime_ms) /\ sincePoll' = 0
          /\ UNCHANGED <<priority, onTime_ms, offTime_ms, clock, asked, elapsed>>
      <3>1. OnAgain(repeatCount')
        BY <2>1 DEF OnAgain
      <3> QED
        BY <1>5, <3>1 DEF OffPhaseEnds, OnOff, Polled
    <2>3. Counted /\ Busy
      BY <2>1, <2>2 DEF Counted, Busy
    <2>4. LagInv /\ AskedInv
      BY <2>3 DEF TimeInv
    <2> DEFINE on == onTime_ms * TicksPerMs
               off == offTime_ms * TicksPerMs
    <2>5. /\ Blinks /\ onTime_ms = asked.onTime_ms /\ offTime_ms = asked.offTime_ms
          /\ Past \in Nat /\ repeatCount \in Nat
      <3>1. repeatCount # 1
        BY <2>1
      <3> QED
        BY <2>3, <2>4, <3>1, InProgress
    <2>6. Phase = off /\ Phase \in Nat /\ PollBound <= on
      BY <2>2, <2>4, <2>5, PhaseFits DEF Phase, PhaseMs, Blinks
    <2>7. Lag > Phase /\ Lag \in Nat /\ on \in Nat /\ off \in Nat
      <3>1. Lag > Phase
        BY <1>5, <2>6 DEF OffPhaseEnds, Exceeds, Lag
      <3> QED
        BY <3>1, LagType, ProductType DEF TypeOK
    <2>8. Lag' = Lag - off
      <3>1. startTick' = (startTick + off) % Modulus /\ clock' = clock
        BY <2>2 DEF StartAfter
      <3>2. off <= (clock - startTick) % Modulus
        <4>1. off <= Lag
          BY <2>6, <2>7
        <4> QED
          BY <4>1 DEF Lag
      <3>3. (clock - ((startTick + off) % Modulus)) % Modulus = ((clock - startTick) % Modulus) - off
        <4> HIDE DEF off
        <4> QED
          BY <2>7, <3>2, LagShrinks DEF TypeOK
      <3> HIDE DEF off
      <3> QED
        BY <3>1, <3>3 DEF Lag
    <2>9. Phase' = on
      BY <2>2 DEF Phase, PhaseMs
    <2>10. Past' = Past + off
      <3> DEFINE k == asked.repeatCount - repeatCount
                 done == k * (asked.onTime_ms + asked.offTime_ms) * TicksPerMs
                 next == (k + 1) * (asked.onTime_ms + asked.offTime_ms) * TicksPerMs
      <3>1. /\ k \in Nat /\ asked.onTime_ms \in Nat /\ asked.offTime_ms \in Nat
            /\ asked.repeatCount \in Nat
        BY <2>3, <2>4, <2>5, InProgress
      <3>2. Past = done + on
        BY <2>2, <2>5 DEF Past
      <3>3. Past' = next + 0
        <4>1. asked.repeatCount - (repeatCount - 1) = k + 1
          BY <2>5, <3>1
        <4>2. Past' = (asked.repeatCount - (repeatCount - 1))
                          * (asked.onTime_ms + asked.offTime_ms) * TicksPerMs + 0
          BY <2>1, <2>2, <2>5 DEF Past, Blinks
        <4> QED
          BY <4>1, <4>2
      <3>4. next = done + on + off /\ done \in Nat
        <4> HIDE DEF k
        <4>1. /\ next = done + asked.onTime_ms * TicksPerMs + asked.offTime_ms * TicksPerMs
              /\ done \in Nat
          BY <3>1, Repetition
        <4> QED
          BY <2>5, <4>1
      <3> HIDE DEF done, next, on, off
      <3> QED
        BY <2>7, <3>2, <3>3, <3>4
    <2>11. sincePoll \in Nat /\ sincePoll <= PollBound
      BY DEF TypeOK
    <2> HIDE DEF on, off
    <2> QED
      BY <2>2, <2>4, <2>5, <2>6, <2>7, <2>8, <2>9, <2>10, <2>11 DEF LagInv
  <1>6. CASE NothingToDo
    BY <1>6 DEF NothingToDo, Proceeds, Busy, led
  <1>7. CASE Tick
    <2>1. /\ UNCHANGED <<led, asked>> /\ clock' = (clock + 1) % Modulus
          /\ sincePoll < PollBound /\ sincePoll' = sincePoll + 1
          /\ elapsed' = IF elapsed < MaxElapsed THEN elapsed + 1 ELSE elapsed
      BY <1>7 DEF Tick
    <2>2. Past' = Past /\ Phase' = Phase
      BY <2>1 DEF Past, Phase, PhaseMs, Blinks, led
    <2>3. Counted /\ Busy
      BY <2>1 DEF Counted, Busy, led
    <2>4. LagInv /\ AskedInv
      BY <2>3 DEF TimeInv
    <2>5. Phase \in Nat /\ Phase + PollBound < Modulus /\ Lag \in Nat /\ Past \in Nat
      BY <2>3, <2>4, PhaseFits, LagType, InProgress
    <2>6. sincePoll \in Nat /\ elapsed \in 0 .. MaxElapsed
      BY DEF TypeOK
    <2>7. Lag + 1 < Modulus
      BY <2>1, <2>4, <2>5, <2>6 DEF LagInv
    <2>8. Lag' = Lag + 1
      <3>1. startTick' = startTick
        BY <2>1 DEF led
      <3>2. ((clock - startTick) % Modulus) + 1 < Modulus
        BY <2>7 DEF Lag
      <3>3. (((clock + 1) % Modulus) - startTick) % Modulus = ((clock - startTick) % Modulus) + 1
        BY <3>2, LagTicks DEF TypeOK
      <3> QED
        BY <2>1, <3>1, <3>3 DEF Lag
    <2> QED
      BY <2>1, <2>2, <2>4, <2>5, <2>6, <2>8 DEF LagInv
  <1>8. CASE UNCHANGED vars
    <2>1. Lag' = Lag /\ Past' = Past /\ Phase' = Phase /\ UNCHANGED <<elapsed, sincePoll>>
      BY <1>8 DEF Lag, Past, Phase, PhaseMs, Blinks, led, vars
    <2>2. Counted /\ Busy
      BY <1>8 DEF Counted, Busy, led, vars
    <2>3. LagInv
      BY <2>2 DEF TimeInv
    <2> QED
      BY <2>1, <2>3 DEF LagInv
  <1> QED
    BY <1>1, <1>2, <1>3, <1>4, <1>5, <1>6, <1>7, <1>8 DEF Next, Process

LEMMA TimeStep ==
    ASSUME ProductsFit, PhasesFit, TypeOK, CountInv, TimeInv, [Next]_vars PROVE TimeInv'
  <1>1. ASSUME (Counted /\ Busy)' PROVE (AskedInv /\ LagInv)'
    BY <1>1, AskedStep, LagStep
  <1> QED
    BY <1>1 DEF TimeInv

\* The two halves of OnTime: not early, and not too late.
NotEarly == Ended => elapsed > Nominal \/ elapsed = MaxElapsed
NotLate == Counted /\ Busy => elapsed <= Nominal + 1 + PollBound

\* The phase that ends a pattern has lasted longer than it was to.
LEMMA LastPhase ==
    ASSUME ProductsFit, TypeOK, CountInv, TimeInv, Counted, Busy,
           Lag > Phase, Past + Phase = Nominal
    PROVE  elapsed > Nominal \/ elapsed = MaxElapsed
  <1>1. AskedInv /\ LagInv
    BY DEF TimeInv
  <1>2. Phase \in Nat /\ Past \in Nat /\ Lag \in Nat
    BY <1>1, InProgress, LagType
  <1>3. CASE elapsed = MaxElapsed
    BY <1>3
  <1>4. CASE elapsed = Past + Lag
    BY <1>2, <1>4
  <1> QED
    BY <1>1, <1>3, <1>4 DEF LagInv

LEMMA EarlyStep ==
    ASSUME ProductsFit, TypeOK, CountInv, TimeInv, NotEarly, [Next]_vars PROVE NotEarly'
  <1>1. ASSUME NEW cfg \in Configs, Setup(cfg) PROVE NotEarly'
    BY <1>1, StoredType DEF Setup, NotEarly, Ended, Counted, Busy
  <1>2. CASE Clear
    BY <1>2 DEF Clear, NotEarly, Ended, Counted
  <1>3. CASE PhaseGoesOn \/ NothingToDo \/ UNCHANGED vars
    BY <1>3 DEF PhaseGoesOn, NothingToDo, led, vars, NotEarly, Ended, Counted, Busy, Nominal
  <1>4. CASE OnPhaseEnds
    <2> SUFFICES ASSUME Ended' PROVE elapsed' > Nominal' \/ elapsed' = MaxElapsed
      BY DEF NotEarly
    <2>1. asked' = asked /\ elapsed' = elapsed /\ repeatCount # 0 /\ isOn
      BY <1>4 DEF OnPhaseEnds, Proceeds, Busy
    <2>2. Nominal' = Nominal /\ Counted /\ Busy
      BY <2>1 DEF Nominal, Ended, Counted, Busy
    <2>3. offTime_ms = 0
      BY <1>4, <2>1 DEF OnPhaseEnds, Ended, Busy
    <2>4. AskedInv
      BY <2>2 DEF TimeInv
    <2>5. ~Blinks
      BY <2>2, <2>3, <2>4, InProgress DEF Blinks
    <2>6. Past = 0 /\ Phase = Nominal /\ Nominal \in Nat
      BY <2>2, <2>4, <2>5, InProgress
    <2>7. Lag > Phase
      BY <1>4, <2>1 DEF OnPhaseEnds, Exceeds, Lag, Phase, PhaseMs
    <2>8. Past + Phase = Nominal
      BY <2>6
    <2> QED
      BY <2>1, <2>2, <2>7, <2>8, LastPhase
  <1>5. CASE OffPhaseEnds
    <2> SUFFICES ASSUME Ended' PROVE elapsed' > Nominal' \/ elapsed' = MaxElapsed
      BY DEF NotEarly
    <2>1. /\ asked' = asked /\ elapsed' = elapsed /\ repeatCount # 0 /\ ~isOn
          /\ repeatCount' = repeatCount - 1
      BY <1>5 DEF OffPhaseEnds, Proceeds, Busy
    <2>2. Nominal' = Nominal /\ Counted /\ Busy
      BY <2>1 DEF Nominal, Ended, Counted, Busy
    <2>3. repeatCount = 1
      <3>1. repeatCount' = 0
        BY DEF Ended, Busy
      <3> QED
        BY <2>1, <3>1, LedAssumption DEF TypeOK
    <2>4. AskedInv
      BY <2>2 DEF TimeInv
    <2>5. Past + Phase = Nominal
      BY <2>1, <2>2, <2>3, <2>4, InProgress
    <2>6. Lag > Phase
      BY <1>5, <2>1 DEF OffPhaseEnds, Exceeds, Lag, Phase, PhaseMs
    <2> QED
      BY <2>1, <2>2, <2>5, <2>6, LastPhase
  <1>6. CASE Tick
    <2> SUFFICES ASSUME Ended' PROVE elapsed' > Nominal' \/ elapsed' = MaxElapsed
      BY DEF NotEarly
    <2>1. /\ asked' = asked /\ repeatCount' = repeatCount
          /\ elapsed' = IF elapsed < MaxElapsed THEN elapsed + 1 ELSE elapsed
      BY <1>6 DEF Tick, led
    <2>2. Nominal' = Nominal /\ Ended
      BY <2>1 DEF Nominal, Ended, Counted, Busy
    <2>3. elapsed > Nominal \/ elapsed = MaxElapsed
      BY <2>2 DEF NotEarly
    <2>4. Nominal \in Nat
      <3>1. asked \in Config
        BY <2>2 DEF TypeOK, Ended, Counted
      <3> QED
        BY <3>1, Repetition, LedAssumption DEF Config, Nominal
    <2>5. elapsed \in Nat /\ elapsed <= MaxElapsed /\ MaxElapsed \in Nat
      BY LedAssumption DEF TypeOK
    <2> QED
      BY <2>1, <2>2, <2>3, <2>4, <2>5
  <1> QED
    BY <1>1, <1>2, <1>3, <1>4, <1>5, <1>6 DEF Next, Process

LEMMA InTime ==
    ASSUME ProductsFit, TypeOK, CountInv, TimeInv PROVE NotLate
  <1> SUFFICES ASSUME Counted, Busy PROVE elapsed <= Nominal + 1 + PollBound
    BY DEF NotLate
  <1>1. AskedInv /\ LagInv
    BY DEF TimeInv
  <1>2. /\ Phase \in Nat /\ Past \in Nat /\ Lag \in Nat /\ Nominal \in Nat
        /\ Past + Phase <= Nominal
    BY <1>1, InProgress, LagType
  <1>3. /\ sincePoll \in Nat /\ sincePoll <= PollBound /\ elapsed \in Nat /\ PollBound \in Nat
    BY LedAssumption DEF TypeOK
  <1>4. Lag <= Phase + sincePoll /\ elapsed <= Past + Lag
    BY <1>1 DEF LagInv
  <1> QED
    BY <1>2, <1>3, <1>4

\* A pattern takes the time that was asked for, and longer only by what the
\* last call of device_led_process was late, however many phases it has and
\* however late each call came: each phase is timed from the scheduled end of
\* the one before.  The times must fit in the unsigned short and in the system
\* timer, and process be called in every phase.
THEOREM OnTimeCorrect == ASSUME ProductsFit, PhasesFit PROVE Spec => []OnTime
  <1>1. Init => CountInv /\ TimeInv /\ NotEarly
    BY DEF Init, CountInv, FlashesSoFar, FlashesAsAsked, TimeInv, NotEarly, Ended, Counted
  <1>2. TypeOK /\ CountInv /\ TimeInv /\ NotEarly /\ [Next]_vars
            => CountInv' /\ TimeInv' /\ NotEarly'
    BY CountStep, TimeStep, EarlyStep
  <1>3. TypeOK /\ CountInv /\ TimeInv /\ NotEarly => OnTime
    BY InTime DEF OnTime, NotEarly, NotLate
  <1> QED
    BY <1>1, <1>2, <1>3, TypeCorrect, PTL DEF Spec
=============================================================================
