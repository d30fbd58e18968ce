--------------------------- MODULE SoftUartProofs ---------------------------
(***************************************************************************)
(* Proofs about the bit-banged UART, for every width of a byte, timeout    *)
(* and buffer.                                                             *)
(***************************************************************************)
EXTENDS SoftUartProps, Remainders, SequenceTheorems, TLAPS

----------------------------------------------------------------------------
(* The receiver, whatever soft_uart_dis and soft_uart_en do.               *)

\* The values the state word takes.
Idle == {"WAIT"}
Gap == {"WAIT", "DONE_CHECK"}
Shifting == {"WORK"}
Stopping == {"STOP_CHECK"}
Off == {"DIS"}
States == {Idle, Gap, Shifting, Stopping, Off}

\* Idle intervals are counted from zero, and only until they make a timeout.
StateInv ==
    /\ state \in States
    /\ state = Gap => done_count < DoneNum
    /\ state \in {Shifting, Stopping} => done_count = 0

\* What wakes the receiver in each state, and which calls are in progress.
WakeInv ==
    /\ state = Off => isr = "out" /\ call \notin EnSteps
    /\ call \in DisSteps => state = Off
    /\ state = Off /\ call \in {"dis_gpio_close", "none"} => ~tmrRun
    /\ state = Off /\ call = "none" => ~gpioEn
    /\ state = Idle /\ call = "none" => gpioEn
    /\ state = Gap => gpioEn /\ tmrRun
    /\ state \in {Shifting, Stopping} => tmrRun

\* A packet is handed over as soon as it fills the buffer.
RoomInv == data_count < DataSize

ControlInv == TypeOK /\ StateInv /\ WakeInv /\ RoomInv

----------------------------------------------------------------------------
(* A receiver that has always been on follows the line.                    *)

\* The tick of this interval has not been dealt with.
Owed == "timer" \in due \/ tmrPend

LineInv ==
    /\ call = "none" /\ state # Off
    /\ ~("timer" \in due /\ tmrPend)
    /\ IF "line" \in due THEN txCell # 0 /\ (txCell = 1 => level = 1)
                         ELSE level = LevelAt(txCell)

\* Between two bytes: a start bit that has begun has left its edge pending.
GapInv ==
    state \in {Idle, Gap} =>
      /\ txCell \in {0, 1, StopCell} /\ gpioEn
      /\ "line" \in due => txCell = 1
      /\ txCell = 1 /\ "line" \notin due => gpioPend

\* The packet is over.
IdleInv ==
    state = Idle => ~tmrRun /\ ~Owed /\ data_count = 0 /\ txCell # StopCell

\* It is not yet: the idle intervals are those counted and the one owed.
CountInv ==
    state = Gap =>
      /\ txCell = StopCell => ~Owed
      /\ rest = done_count + (IF Owed THEN 1 ELSE 0)

\* Inside a byte nothing but the timer's tick, after the line, is looked at.
ByteInv ==
    state \in {Shifting, Stopping} =>
      ~gpioEn /\ ~gpioPend /\ ("line" \in due => "timer" \in due)

\* The handler is as many bits behind the line as it owes ticks.
ShiftInv ==
    state = Shifting =>
      /\ txCell \in 1 .. NBits + 1 /\ (txCell = 1 => ~Owed)
      /\ txCell = bit_num + (IF Owed THEN 2 ELSE 1)
      /\ temp_byte = {k \in txByte : k < bit_num}

StopInv ==
    state = Stopping =>
      /\ temp_byte = txByte
      /\ txCell = IF Owed THEN StopCell ELSE NBits + 1
      /\ txCell = StopCell /\ "line" \notin due => rest = 0

FollowInv == LineInv /\ GapInv /\ IdleInv /\ CountInv /\ ByteInv /\ ShiftInv /\ StopInv

\* The line has carried a byte whole that is not in the buffer yet.
Unstored == state = Stopping /\ txCell = StopCell /\ "line" \notin due

\* What was sent was handed over, or is in the buffer, or is that byte.
HeldInv ==
    /\ Len(sent) = Len(got) + data_count + (IF Unstored THEN 1 ELSE 0)
    /\ \A k \in 1 .. Len(got) : got[k] = sent[k]
    /\ \A k \in 0 .. data_count - 1 : data[k] = sent[Len(got) + k + 1]
    /\ Unstored => sent[Len(sent)] = txByte

IInv == ControlInv /\ (AlwaysOn => FollowInv)

----------------------------------------------------------------------------
(* The state word.                                                         *)

LEMMA StatesDiffer ==
    /\ Idle # Gap /\ Idle # Shifting /\ Idle # Stopping /\ Idle # Off
    /\ Gap # Shifting /\ Gap # Stopping /\ Gap # Off
    /\ Shifting # Stopping /\ Shifting # Off /\ Stopping # Off
    /\ Idle \subseteq Flags /\ Gap \subseteq Flags /\ Shifting \subseteq Flags
    /\ Stopping \subseteq Flags /\ Off \subseteq Flags
  <1>1. /\ "WAIT" \in Idle /\ "WAIT" \in Gap /\ "DONE_CHECK" \in Gap /\ "WORK" \in Shifting
        /\ "STOP_CHECK" \in Stopping /\ "DIS" \in Off
        /\ "DONE_CHECK" \notin Idle
        /\ "WORK" \notin Idle /\ "STOP_CHECK" \notin Idle /\ "DIS" \notin Idle
        /\ "WORK" \notin Gap /\ "STOP_CHECK" \notin Gap /\ "DIS" \notin Gap
        /\ "STOP_CHECK" \notin Shifting /\ "DIS" \notin Shifting /\ "DIS" \notin Stopping
    BY DEF Idle, Gap, Shifting, Stopping, Off
  <1> QED
    BY <1>1 DEF Idle, Gap, Shifting, Stopping, Off, Flags

LEMMA StartBitState ==
    ASSUME StateInv, IsrStartBit PROVE state \in {Idle, Gap} /\ state' = Shifting
  <1>1. "WAIT" \in state /\ state' = (state \ {"DONE_CHECK", "WAIT"}) \cup {"WORK"}
    BY DEF IsrStartBit, StartSeen
  <1>2. state \in {Idle, Gap}
    BY <1>1 DEF StateInv, States, Shifting, Stopping, Off
  <1>3. state' = Shifting
    BY <1>1, <1>2 DEF Idle, Gap, Shifting
  <1> QED
    BY <1>2, <1>3

LEMMA DataBitState ==
    ASSUME StateInv, IsrDataBit
    PROVE  state = Shifting /\ state' = IF LastBit THEN Stopping ELSE Shifting
  <1>1. "WORK" \in state
    BY DEF IsrDataBit
  <1>2. state = Shifting
    BY <1>1 DEF StateInv, States, Idle, Gap, Stopping, Off
  <1>3. (state \ {"WORK"}) \cup {"STOP_CHECK"} = Stopping
    BY <1>2 DEF Shifting, Stopping
  <1> QED
    BY <1>2, <1>3 DEF IsrDataBit

LEMMA StopBitState ==
    ASSUME StateInv, IsrStopBit PROVE state = Stopping /\ state' = Gap
  <1>1. "STOP_CHECK" \in state /\ state' = (state \ {"STOP_CHECK"}) \cup {"DONE_CHECK", "WAIT"}
    BY DEF IsrStopBit
  <1>2. state = Stopping
    BY <1>1 DEF StateInv, States, Idle, Gap, Shifting, Off
  <1>3. state' = Gap
    BY <1>1, <1>2 DEF Gap, Stopping
  <1> QED
    BY <1>2, <1>3

LEMMA DoneTickState ==
    ASSUME StateInv, IsrDoneTick
    PROVE  state = Gap /\ state' = IF TimedOut(done_count + 1) THEN Idle ELSE Gap
  <1>1. "DONE_CHECK" \in state
    BY DEF IsrDoneTick
  <1>2. state = Gap
    BY <1>1 DEF StateInv, States, Idle, Shifting, Stopping, Off
  <1>3. state \ {"DONE_CHECK"} = Idle
    BY <1>2 DEF Gap, Idle
  <1> QED
    BY <1>2, <1>3 DEF IsrDoneTick

LEMMA NoTickState ==
    ASSUME StateInv, IsrNoTick PROVE ~tmrPend \/ state \in {Idle, Off}
  BY DEF StateInv, IsrNoTick, States, Gap, Shifting, Stopping

LEMMA DisFlag == ASSUME StateInv PROVE ("DIS" \in state) <=> (state = Off)
  BY DEF StateInv, States, Idle, Gap, Shifting, Stopping, Off

LEMMA WaitFlag == ASSUME StateInv PROVE ("WAIT" \in state) <=> (state \in {Idle, Gap})
  BY StatesDiffer DEF StateInv, States, Idle, Gap, Shifting, Stopping, Off

----------------------------------------------------------------------------
(* ControlInv is inductive.                                                *)

USE DEF LeaveIsr, DisSteps, EnSteps

LEMMA InitControl == Init => ControlInv
  <1> SUFFICES ASSUME Init PROVE ControlInv
    OBVIOUS
  <1>1. state = Idle
    BY DEF Init, Idle
  <1>2. <<>> \in Seq(Byte) /\ {} \in Byte
    BY DEF Byte
  <1>b. /\ gpioEn \in BOOLEAN /\ gpioPend \in BOOLEAN /\ tmrRun \in BOOLEAN /\ tmrPend \in BOOLEAN
        /\ mutex_flag \in BOOLEAN /\ gpioEn /\ call = "none"
    BY Zenon DEF Init
  <1>3. TypeOK
    BY <1>1, <1>2, <1>b, StatesDiffer, SoftUartAssumption DEF Init, TypeOK, StopCell
  <1>4. StateInv /\ RoomInv
    BY <1>1, StatesDiffer, SoftUartAssumption DEF Init, StateInv, States, RoomInv
  <1>5. WakeInv
    BY <1>1, <1>b, StatesDiffer DEF WakeInv
  <1> QED
    BY <1>3, <1>4, <1>5 DEF ControlInv

\* The line and the timer change what the handler has yet to see.
LEMMA LineControl ==
  ASSUME ControlInv, NextCell \/ IdleCell \/ (\E b \in Byte : StartByte(b))
  PROVE  ControlInv'
  <1>1. /\ UNCHANGED <<level, hw, state, frame, buffer, mutex_flag, isr, call, sent, got, disables>>
        /\ txByte' \in Byte /\ txCell' \in 0 .. StopCell /\ due' \subseteq {"line", "timer"}
        /\ rest' \in 0 .. MaxRest
    BY SoftUartAssumption DEF NextCell, IdleCell, StartByte, line, TickDue, Longer, ControlInv, TypeOK, StopCell
  <1> QED
    BY <1>1 DEF ControlInv, TypeOK, StateInv, WakeInv, RoomInv, hw, frame, buffer

LEMMA EventControl ==
  ASSUME ControlInv, LineChange \/ TimerTick \/ Glitch
  PROVE  ControlInv'
  <1>1. /\ UNCHANGED <<txByte, txCell, gpioEn, tmrRun, state, frame, buffer, mutex_flag, isr, call,
                       got, disables>>
        /\ level' \in {0, 1} /\ due' \subseteq {"line", "timer"} /\ rest' \in 0 .. MaxRest
        /\ gpioPend' \in BOOLEAN /\ tmrPend' \in BOOLEAN /\ sent' \in Seq(Byte)
    BY SoftUartAssumption DEF LineChange, TimerTick, Glitch, line, observers, LevelAt, ControlInv, TypeOK
  <1> QED
    BY <1>1 DEF ControlInv, TypeOK, StateInv, WakeInv, RoomInv, frame, buffer

LEMMA EnterControl ==
  ASSUME ControlInv, IsrEnter \/ IsrNoStartBit \/ IsrNoTick
  PROVE  ControlInv'
  <1>1. /\ UNCHANGED <<line, due, gpioEn, tmrRun, state, frame, buffer, call, observers>>
        /\ gpioPend' \in BOOLEAN /\ tmrPend' \in BOOLEAN /\ isr' \in {"out", "gpio", "timer"}
        /\ mutex_flag' \in BOOLEAN
    BY DEF IsrEnter, IsrNoStartBit, IsrNoTick, hw, ControlInv, TypeOK
  <1>2. state = Off => isr' = "out"
    BY DisFlag DEF IsrEnter, IsrNoStartBit, IsrNoTick, ControlInv, WakeInv
  <1> QED
    BY <1>1, <1>2 DEF ControlInv, TypeOK, StateInv, WakeInv, RoomInv, line, frame, buffer, observers

LEMMA StartBitControl == ASSUME ControlInv, IsrStartBit PROVE ControlInv'
  <1>1. state \in {Idle, Gap} /\ state' = Shifting
    BY StartBitState DEF ControlInv
  <1>b. gpioEn' \in BOOLEAN /\ gpioPend' \in BOOLEAN /\ tmrRun' \in BOOLEAN /\ tmrPend' \in BOOLEAN
    BY Zenon DEF IsrStartBit, RestartTimer
  <1>2. TypeOK'
    BY <1>1, <1>b, StatesDiffer, SoftUartAssumption
    DEF IsrStartBit, ClearFrame, RestartTimer, line, buffer, observers, ControlInv, TypeOK, Byte
  <1>3. StateInv' /\ WakeInv' /\ RoomInv'
    BY <1>1, StatesDiffer
    DEF IsrStartBit, ClearFrame, RestartTimer, buffer, ControlInv, StateInv, States, WakeInv, RoomInv
  <1> QED
    BY <1>2, <1>3 DEF ControlInv

LEMMA DataBitControl == ASSUME ControlInv, IsrDataBit PROVE ControlInv'
  <1>1. state = Shifting /\ state' = IF LastBit THEN Stopping ELSE Shifting
    BY DataBitState DEF ControlInv
  <1>2. bit_num' \in 0 .. NBits - 1
    BY SoftUartAssumption DEF IsrDataBit, LastBit, ControlInv, TypeOK
  <1>3. temp_byte' \in Byte
    BY DEF IsrDataBit, ControlInv, TypeOK, Byte
  <1>4. TypeOK'
    BY <1>1, <1>2, <1>3, StatesDiffer DEF IsrDataBit, line, buffer, observers, ControlInv, TypeOK
  <1>5. StateInv' /\ WakeInv' /\ RoomInv'
    BY <1>1, StatesDiffer DEF IsrDataBit, buffer, ControlInv, StateInv, States, WakeInv, RoomInv
  <1> QED
    BY <1>4, <1>5 DEF ControlInv

\* What the receive handler is given: the first count bytes of the buffer.
Given(count, bytes) == [k \in 1 .. count |-> bytes[k - 1]]

LEMMA GivenType ==
  ASSUME NEW bytes \in [0 .. CountMod - 1 -> Byte], NEW count \in 0 .. CountMod - 1
  PROVE  /\ Given(count, bytes) \in Seq(Byte) /\ Len(Given(count, bytes)) = count
         /\ \A k \in 1 .. count : Given(count, bytes)[k] = bytes[k - 1]
  <1>1. \A k \in 1 .. count : k - 1 \in 0 .. CountMod - 1
    BY SoftUartAssumption
  <1>2. Given(count, bytes) \in [1 .. count -> Byte]
    BY <1>1 DEF Given
  <1> QED
    BY <1>2 DEF Given

\* The count wraps before it could pass a buffer that is longer.
LEMMA StopBitStores ==
  ASSUME ControlInv, IsrStopBit
  PROVE  \/ /\ level = 1 /\ data' = [data EXCEPT ![data_count] = temp_byte] /\ temp_byte' = {}
            /\ LET count == (data_count + 1) % CountMod
               IN  /\ count \in 0 .. CountMod - 1
                   /\ \/ /\ count >= DataSize /\ data_count' = 0
                         /\ got' = got \o Given(count, data')
                      \/ count < DataSize /\ data_count' = count /\ got' = got
         \/ level # 1 /\ UNCHANGED <<buffer, temp_byte, got>>
  <1>1. (data_count + 1) % CountMod \in 0 .. CountMod - 1
    BY SoftUartAssumption DEF ControlInv, TypeOK
  <1> QED
    BY <1>1, SoftUartAssumption DEF IsrStopBit, Full, Deliver, Given

LEMMA StopBitControl == ASSUME ControlInv, IsrStopBit PROVE ControlInv'
  <1>1. state = Stopping /\ state' = Gap
    BY StopBitState DEF ControlInv
  <1>2. /\ data' \in [0 .. CountMod - 1 -> Byte] /\ data_count' \in 0 .. CountMod - 1
        /\ got' \in Seq(Byte) /\ temp_byte' \in Byte /\ data_count' < DataSize
    <2>1. CASE level # 1
      BY <2>1, StopBitStores DEF buffer, ControlInv, TypeOK, RoomInv
    <2>2. CASE level = 1
      <3>1. data' \in [0 .. CountMod - 1 -> Byte]
        BY <2>2, StopBitStores DEF ControlInv, TypeOK
      <3>2. temp_byte' \in Byte
        BY <2>2, StopBitStores DEF Byte
      <3>3. data_count' \in 0 .. CountMod - 1 /\ data_count' < DataSize
        BY <2>2, StopBitStores, SoftUartAssumption
      <3>4. \A count \in 0 .. CountMod - 1 : got \o Given(count, data') \in Seq(Byte)
        BY <3>1, GivenType, ConcatProperties DEF ControlInv, TypeOK
      <3>5. got' \in Seq(Byte)
        BY <2>2, <3>4, StopBitStores DEF ControlInv, TypeOK
      <3> QED
        BY <3>1, <3>2, <3>3, <3>5
    <2> QED
      BY <2>1, <2>2
  <1>b. gpioEn' \in BOOLEAN /\ gpioPend' \in BOOLEAN /\ tmrPend' \in BOOLEAN /\ mutex_flag' \in BOOLEAN
    BY Zenon DEF IsrStopBit
  <1>3. TypeOK'
    BY <1>1, <1>2, <1>b, StatesDiffer DEF IsrStopBit, line, ControlInv, TypeOK
  <1>c. gpioEn' /\ tmrRun' = tmrRun /\ call' = call
    BY Zenon DEF IsrStopBit
  <1>4. StateInv' /\ RoomInv'
    BY <1>1, <1>2, StatesDiffer, SoftUartAssumption
    DEF IsrStopBit, ControlInv, StateInv, States, RoomInv
  <1>5. WakeInv'
    BY <1>1, <1>c, StatesDiffer DEF ControlInv, WakeInv
  <1> QED
    BY <1>3, <1>4, <1>5 DEF ControlInv

LEMMA DoneTickGives ==
  ASSUME ControlInv, IsrDoneTick
  PROVE  /\ done_count' = done_count + 1 /\ data' = data
         /\ \/ /\ done_count + 1 >= DoneNum /\ due' = due \ {"timer"}
               /\ data_count' = 0
               /\ IF data_count > 0 THEN got' = got \o Given(data_count, data) ELSE got' = got
            \/ /\ done_count + 1 < DoneNum
               /\ UNCHANGED <<due, data_count, got, state>>
  BY SoftUartAssumption
  DEF IsrDoneTick, TimedOut, StopTimer, Deliver, Given, ControlInv, TypeOK

LEMMA DoneTickControl == ASSUME ControlInv, IsrDoneTick PROVE ControlInv'
  <1>1. state = Gap /\ state' = IF TimedOut(done_count + 1) THEN Idle ELSE Gap
    BY DoneTickState DEF ControlInv
  <1>2. done_count' \in 0 .. DoneNum /\ (state' = Gap => done_count' < DoneNum)
    BY <1>1, DoneTickGives, StatesDiffer, SoftUartAssumption DEF TimedOut, ControlInv, StateInv, TypeOK
  <1>3. got' \in Seq(Byte)
    <2>1. got \o Given(data_count, data) \in Seq(Byte)
      BY GivenType, ConcatProperties DEF ControlInv, TypeOK
    <2> QED
      BY <2>1, DoneTickGives DEF ControlInv, TypeOK
  <1>b. /\ tmrRun' \in BOOLEAN /\ tmrPend' \in BOOLEAN /\ mutex_flag' \in BOOLEAN
        /\ ~TimedOut(done_count') => tmrRun' = tmrRun
        /\ gpioEn' = gpioEn /\ call' = call
    BY Zenon DEF IsrDoneTick, StopTimer, ControlInv, TypeOK
  <1>c. state' = Gap => tmrRun' = tmrRun
    BY <1>1, <1>b, DoneTickGives, StatesDiffer
  <1>4. /\ data_count' \in 0 .. CountMod - 1 /\ data_count' < DataSize
        /\ due' \subseteq {"line", "timer"}
    <2>1. data_count \in 0 .. CountMod - 1 /\ data_count < DataSize /\ due \subseteq {"line", "timer"}
      BY DEF ControlInv, TypeOK, RoomInv
    <2>2. due' \in {due, due \ {"timer"}} /\ data_count' \in {data_count, 0}
      BY DoneTickGives
    <2>3. due' \subseteq {"line", "timer"}
      BY <2>1, <2>2
    <2> QED
      BY <2>1, <2>2, <2>3, SoftUartAssumption
  <1>5. TypeOK'
    BY <1>1, <1>2, <1>3, <1>4, <1>b, DoneTickGives, StatesDiffer DEF IsrDoneTick, line, ControlInv, TypeOK
  <1>6. StateInv' /\ RoomInv'
    BY <1>1, <1>2, <1>4, StatesDiffer DEF StateInv, States, RoomInv
  <1>7. gpioEn' /\ (state' = Gap => tmrRun') /\ call' \notin DisSteps
    <2>1. gpioEn /\ tmrRun /\ call \notin DisSteps
      BY <1>1, StatesDiffer DEF ControlInv, WakeInv
    <2> QED
      BY <2>1, <1>b, <1>c
  <1>8. WakeInv'
    BY <1>1, <1>7, StatesDiffer DEF WakeInv
  <1> QED
    BY <1>5, <1>6, <1>8 DEF ControlInv

LEMMA DisControl ==
  ASSUME ControlInv, DisState \/ ClearTimerStatus \/ ClearGpioStatus \/ DisTimerStop \/ DisGpioClose
  PROVE  ControlInv'
  <1>1. CASE DisState
    <2>1. state' = Off
      BY <1>1 DEF DisState, Off
    <2>2. TypeOK'
      BY <1>1, <2>1, StatesDiffer, SoftUartAssumption
      DEF DisState, line, hw, frame, buffer, ControlInv, TypeOK
    <2>3. StateInv' /\ WakeInv' /\ RoomInv'
      BY <1>1, <2>1, StatesDiffer
      DEF DisState, hw, frame, buffer, ControlInv, StateInv, States, WakeInv, RoomInv
    <2> QED
      BY <2>2, <2>3 DEF ControlInv
  <1>2. CASE ClearTimerStatus
    BY <1>2 DEF ClearTimerStatus, line, frame, buffer, observers, ControlInv, TypeOK, StateInv, WakeInv, RoomInv
  <1>3. CASE ClearGpioStatus
    BY <1>3 DEF ClearGpioStatus, line, frame, buffer, observers, ControlInv, TypeOK, StateInv, WakeInv, RoomInv
  <1>4. CASE DisTimerStop
    <2>1. state = Off
      BY <1>4 DEF DisTimerStop, ControlInv, WakeInv
    <2>2. tmrRun' \in BOOLEAN /\ tmrPend' \in BOOLEAN /\ ~tmrRun' /\ call' = "dis_gpio_close"
      BY <1>4, Zenon DEF DisTimerStop, StopTimer
    <2>3. TypeOK'
      BY <1>4, <2>2 DEF DisTimerStop, StopTimer, line, frame, buffer, observers, ControlInv, TypeOK
    <2> QED
      BY <1>4, <2>1, <2>2, <2>3, StatesDiffer DEF DisTimerStop, frame, buffer,
         ControlInv, StateInv, WakeInv, RoomInv
  <1>5. CASE DisGpioClose
    <2>1. state = Off
      BY <1>5 DEF DisGpioClose, ControlInv, WakeInv
    <2>b. gpioEn' \in BOOLEAN /\ ~gpioEn' /\ tmrRun' = tmrRun /\ state' = state /\ isr' = isr /\ call' = "none"
      BY <1>5, Zenon DEF DisGpioClose
    <2>2. TypeOK'
      BY <1>5, <2>b, SoftUartAssumption
      DEF DisGpioClose, ClearFrame, line, buffer, observers, ControlInv, TypeOK, Byte
    <2>3. WakeInv'
      BY <1>5, <2>1, <2>b, StatesDiffer DEF DisGpioClose, ControlInv, WakeInv
    <2> QED
      BY <1>5, <2>1, <2>2, <2>3, StatesDiffer DEF DisGpioClose, ClearFrame, buffer,
         ControlInv, StateInv, RoomInv
  <1> QED
    BY <1>1, <1>2, <1>3, <1>4, <1>5

LEMMA EnControl == ASSUME ControlInv, EnState \/ EnGpioOpen PROVE ControlInv'
  <1>1. CASE EnState
    <2>1. state = Off /\ state' = Idle
      BY <1>1, DisFlag DEF EnState, Idle, ControlInv
    <2>2. TypeOK'
      BY <1>1, <2>1, StatesDiffer, SoftUartAssumption
      DEF EnState, ClearFrame, line, hw, buffer, observers, ControlInv, TypeOK, Byte
    <2>3. StateInv' /\ WakeInv' /\ RoomInv'
      BY <1>1, <2>1, StatesDiffer
      DEF EnState, ClearFrame, hw, buffer, ControlInv, StateInv, States, WakeInv, RoomInv
    <2> QED
      BY <2>2, <2>3 DEF ControlInv
  <1>2. CASE EnGpioOpen
    <2>1. state # Off
      BY <1>2 DEF EnGpioOpen, ControlInv, WakeInv
    <2> QED
      BY <1>2, <2>1 DEF EnGpioOpen, line, frame, buffer, observers, ControlInv, TypeOK, StateInv, WakeInv, RoomInv
  <1> QED
    BY <1>1, <1>2

LEMMA ControlStep == ASSUME ControlInv, [Next]_vars PROVE ControlInv'
  <1>1. CASE UNCHANGED vars
    BY <1>1 DEF vars, line, hw, frame, buffer, observers, ControlInv, TypeOK, StateInv, WakeInv, RoomInv
  <1> QED
    BY <1>1, LineControl, EventControl, EnterControl, StartBitControl, DataBitControl, StopBitControl,
       DoneTickControl, DisControl, EnControl DEF Next, Isr, Program
----------------------------------------------------------------------------
(* FollowInv is inductive while the receiver is on.                        *)

LEMMA Levels ==
  /\ LevelAt(0) = 1 /\ LevelAt(StopCell) = 1 /\ LevelAt(1) = 0
  /\ \A k \in 0 .. NBits - 1 : LevelAt(k + 2) = IF k \in txByte THEN 1 ELSE 0
  BY SoftUartAssumption DEF LevelAt, StopCell

\* Between two intervals nothing is pending and no tick is owed.
LEMMA SettledFacts ==
  ASSUME ControlInv, FollowInv, Settled
  PROVE  due = {} /\ "line" \notin due /\ ~gpioPend /\ ~tmrPend /\ ~Owed /\ level = LevelAt(txCell)
  <1>1. "DIS" \notin state
    BY DisFlag DEF ControlInv, FollowInv, LineInv
  <1>2. due = {} /\ ~gpioPend /\ ~tmrPend
    BY <1>1, Zenon DEF Settled
  <1>3. "line" \notin due /\ "timer" \notin due
    BY <1>2
  <1> QED
    BY <1>2, <1>3 DEF Owed, FollowInv, LineInv

\* What the two ends have done since the last interval.
LEMMA NextCellFollow == ASSUME ControlInv, FollowInv, NextCell PROVE FollowInv'
  <1>1. /\ due = {} /\ "line" \notin due /\ ~gpioPend /\ ~tmrPend /\ ~Owed /\ level = LevelAt(txCell)
    BY SettledFacts DEF NextCell
  <1>2. /\ txByte' = txByte /\ level' = level /\ gpioEn' = gpioEn /\ gpioPend' = gpioPend
        /\ tmrRun' = tmrRun /\ tmrPend' = tmrPend /\ state' = state /\ bit_num' = bit_num
        /\ temp_byte' = temp_byte /\ done_count' = done_count /\ data_count' = data_count /\ call' = call
    BY Zenon DEF NextCell, hw, frame, buffer
  <1>3. /\ "timer" \in due' <=> tmrRun
        /\ "line" \in due' <=> txCell # StopCell
    BY DEF NextCell, TickDue
  <1>4. Owed' <=> tmrRun
    BY <1>1, <1>2, <1>3, Zenon DEF Owed
  <1>5. txCell \in 1 .. StopCell /\ txCell' = IF txCell = StopCell THEN 0 ELSE txCell + 1
    BY DEF NextCell, ControlInv, TypeOK
  <1>6. LineInv'
    <2>1. level = 1 => level' = LevelAt(0)'
      BY <1>2, Levels, SoftUartAssumption DEF LevelAt
    <2> QED
      BY <1>1, <1>2, <1>3, <1>5, <2>1, Levels, SoftUartAssumption DEF FollowInv, LineInv, StopCell
  <1>7. state \in {Idle, Gap} => state = Gap /\ txCell = StopCell
    BY <1>1, <1>5, StatesDiffer DEF FollowInv, GapInv, IdleInv
  <1>8. GapInv' /\ IdleInv'
    BY <1>1, <1>2, <1>3, <1>5, <1>7, StatesDiffer DEF FollowInv, GapInv, IdleInv
  <1>9. CountInv'
    BY <1>1, <1>2, <1>4, <1>5, <1>7, StatesDiffer, SoftUartAssumption
    DEF NextCell, Longer, FollowInv, CountInv, ControlInv, TypeOK, StateInv, WakeInv, StopCell
  <1>10. ByteInv'
    BY <1>1, <1>2, <1>3, StatesDiffer DEF FollowInv, ByteInv, ControlInv, WakeInv
  <1>11. ShiftInv' /\ StopInv'
    BY <1>1, <1>2, <1>3, <1>4, <1>5, StatesDiffer, SoftUartAssumption
    DEF FollowInv, ShiftInv, StopInv, ControlInv, TypeOK, WakeInv, StopCell
  <1> QED
    BY <1>6, <1>8, <1>9, <1>10, <1>11 DEF FollowInv

LEMMA StartByteFollow ==
  ASSUME ControlInv, FollowInv, NEW b \in Byte, StartByte(b) PROVE FollowInv'
  <1>1. due = {} /\ "line" \notin due /\ ~gpioPend /\ ~tmrPend /\ ~Owed /\ level = LevelAt(txCell)
    BY SettledFacts DEF StartByte
  <1>2. /\ level' = level /\ gpioEn' = gpioEn /\ gpioPend' = gpioPend
        /\ tmrRun' = tmrRun /\ tmrPend' = tmrPend /\ state' = state
        /\ done_count' = done_count /\ data_count' = data_count /\ call' = call
    BY Zenon DEF StartByte, hw, frame, buffer
  <1>3. ("timer" \in due' <=> tmrRun) /\ "line" \in due' /\ txCell' = 1 /\ txCell \in {0, StopCell}
    BY DEF StartByte, TickDue
  <1>4. Owed' <=> tmrRun
    BY <1>1, <1>2, <1>3, Zenon DEF Owed
  <1>5. level = 1
    BY <1>1, <1>3, Levels
  <1>6. state \notin {Shifting, Stopping}
    BY <1>1, <1>3, SoftUartAssumption DEF FollowInv, ShiftInv, StopInv, StopCell
  <1>7. LineInv'
    BY <1>1, <1>2, <1>3, <1>5, <1>6 DEF FollowInv, LineInv
  <1>8. GapInv' /\ IdleInv' /\ ByteInv' /\ ShiftInv' /\ StopInv'
    BY <1>1, <1>2, <1>3, <1>4, <1>6, StatesDiffer, SoftUartAssumption
    DEF FollowInv, GapInv, IdleInv, ByteInv, ShiftInv, StopInv, StopCell
  <1>9. CountInv'
    BY <1>1, <1>2, <1>3, <1>4, StatesDiffer, SoftUartAssumption
    DEF StartByte, Longer, FollowInv, CountInv, ControlInv, TypeOK, StateInv, WakeInv, StopCell
  <1> QED
    BY <1>7, <1>8, <1>9 DEF FollowInv

LEMMA IdleCellFollow == ASSUME ControlInv, FollowInv, IdleCell PROVE FollowInv'
  <1>1. due = {} /\ "line" \notin due /\ ~gpioPend /\ ~tmrPend /\ ~Owed /\ level = LevelAt(txCell)
    BY SettledFacts DEF IdleCell
  <1>2. /\ txByte' = txByte /\ txCell' = txCell /\ level' = level
        /\ gpioEn' = gpioEn /\ gpioPend' = gpioPend
        /\ tmrRun' = tmrRun /\ tmrPend' = tmrPend /\ state' = state
        /\ done_count' = done_count /\ data_count' = data_count /\ call' = call
    BY Zenon DEF IdleCell, line, hw, frame, buffer
  <1>3. ("timer" \in due' <=> tmrRun) /\ "line" \notin due' /\ txCell = 0
    BY DEF IdleCell, TickDue
  <1>4. Owed' <=> tmrRun
    BY <1>1, <1>2, <1>3, Zenon DEF Owed
  <1>5. level = 1 /\ LevelAt(0)' = 1
    BY <1>1, <1>3, Levels DEF LevelAt
  <1>6. state \notin {Shifting, Stopping}
    BY <1>1, <1>3, SoftUartAssumption DEF FollowInv, ShiftInv, StopInv, StopCell
  <1>7. LineInv'
    BY <1>1, <1>2, <1>3, <1>5, <1>6 DEF FollowInv, LineInv
  <1>8. GapInv' /\ IdleInv' /\ ByteInv' /\ ShiftInv' /\ StopInv'
    BY <1>1, <1>2, <1>3, <1>4, <1>6, StatesDiffer, SoftUartAssumption
    DEF FollowInv, GapInv, IdleInv, ByteInv, ShiftInv, StopInv, StopCell
  <1>9. CountInv'
    BY <1>1, <1>2, <1>3, <1>4, StatesDiffer, SoftUartAssumption
    DEF IdleCell, Longer, FollowInv, CountInv, ControlInv, TypeOK, StateInv, WakeInv, StopCell
  <1> QED
    BY <1>7, <1>8, <1>9 DEF FollowInv

\* The line is at the start bit of a byte, or in a byte the handler follows.
LEMMA LineChangeFollow == ASSUME ControlInv, FollowInv, LineChange PROVE FollowInv'
  <1>1. /\ txByte' = txByte /\ txCell' = txCell /\ gpioEn' = gpioEn /\ tmrRun' = tmrRun
        /\ tmrPend' = tmrPend /\ state' = state /\ bit_num' = bit_num /\ temp_byte' = temp_byte
        /\ done_count' = done_count /\ data_count' = data_count /\ call' = call
        /\ (gpioPend' <=> gpioPend \/ (gpioEn /\ level = 1 /\ level' = 0))
    BY Zenon DEF LineChange, frame, buffer
  <1>2. /\ "line" \in due /\ "line" \notin due' /\ ("timer" \in due' <=> "timer" \in due)
        /\ level' = LevelAt(txCell) /\ LevelAt(txCell)' = LevelAt(txCell)
        /\ rest' = IF txCell = StopCell THEN 0 ELSE rest
    BY <1>1 DEF LineChange, LevelAt
  <1>3. Owed' <=> Owed
    BY <1>1, <1>2, Zenon DEF Owed
  <1>4. LineInv'
    BY <1>1, <1>2 DEF FollowInv, LineInv
  <1>5. state \in {Idle, Gap} => txCell = 1 /\ gpioPend'
    BY <1>1, <1>2, Levels DEF FollowInv, GapInv, LineInv
  <1>6. GapInv' /\ IdleInv'
    BY <1>1, <1>2, <1>3, <1>5, SoftUartAssumption DEF FollowInv, GapInv, IdleInv, StopCell
  <1>7. CountInv'
    BY <1>1, <1>2, <1>3, <1>5, SoftUartAssumption DEF FollowInv, CountInv, StopCell
  <1>8. ByteInv' /\ ShiftInv' /\ StopInv'
    BY <1>1, <1>2, <1>3 DEF FollowInv, ByteInv, ShiftInv, StopInv
  <1> QED
    BY <1>4, <1>6, <1>7, <1>8 DEF FollowInv

LEMMA TimerTickFollow == ASSUME ControlInv, FollowInv, TimerTick PROVE FollowInv'
  <1>1. /\ txByte' = txByte /\ txCell' = txCell /\ level' = level /\ gpioEn' = gpioEn
        /\ gpioPend' = gpioPend /\ tmrRun' = tmrRun /\ tmrPend' /\ state' = state
        /\ bit_num' = bit_num /\ temp_byte' = temp_byte /\ done_count' = done_count
        /\ data_count' = data_count /\ call' = call /\ rest' = rest
    BY Zenon DEF TimerTick, line, frame, buffer, observers
  <1>2. /\ "timer" \in due /\ "timer" \notin due' /\ ("line" \in due' <=> "line" \in due)
        /\ LevelAt(txCell)' = LevelAt(txCell) /\ ("line" \in due => txCell = 1)
    BY <1>1 DEF TimerTick, LevelAt
  <1>3. Owed /\ Owed'
    BY <1>1, <1>2, Zenon DEF Owed
  <1>4. LineInv' /\ GapInv' /\ IdleInv' /\ CountInv'
    BY <1>1, <1>2, <1>3 DEF FollowInv, LineInv, GapInv, IdleInv, CountInv
  <1>5. ByteInv' /\ ShiftInv' /\ StopInv'
    BY <1>1, <1>2, <1>3, SoftUartAssumption DEF FollowInv, ByteInv, ShiftInv, StopInv, StopCell
  <1> QED
    BY <1>4, <1>5 DEF FollowInv

LEMMA GlitchFollow == ASSUME ControlInv, FollowInv, Glitch PROVE FollowInv'
  <1>1. /\ txByte' = txByte /\ txCell' = txCell /\ level' = level /\ gpioEn' = gpioEn
        /\ gpioPend' /\ tmrRun' = tmrRun /\ tmrPend' = tmrPend /\ state' = state /\ due' = due
        /\ bit_num' = bit_num /\ temp_byte' = temp_byte /\ done_count' = done_count
        /\ data_count' = data_count /\ call' = call /\ rest' = rest /\ gpioEn
    BY Zenon DEF Glitch, line, frame, buffer, observers
  <1>2. (Owed' <=> Owed) /\ LevelAt(txCell)' = LevelAt(txCell)
    BY <1>1 DEF Owed, LevelAt
  <1> QED
    BY <1>1, <1>2 DEF FollowInv, LineInv, GapInv, IdleInv, CountInv, ByteInv, ShiftInv, StopInv

LEMMA IsrEnterFollow == ASSUME ControlInv, FollowInv, IsrEnter PROVE FollowInv'
  <1>1. UNCHANGED <<line, due, hw, state, frame, buffer, call, observers>>
    BY DEF IsrEnter
  <1> QED
    BY <1>1 DEF line, hw, frame, buffer, observers, FollowInv, LineInv, GapInv, IdleInv, CountInv,
       ByteInv, ShiftInv, StopInv, Owed, LevelAt

\* Only the level of a start bit takes the receiver out of a gap.
LEMMA IsrStartBitFollow == ASSUME ControlInv, FollowInv, IsrStartBit PROVE FollowInv'
  <1>1. state \in {Idle, Gap} /\ state' = Shifting
    BY StartBitState DEF ControlInv
  <1>2. /\ txByte' = txByte /\ txCell' = txCell /\ level' = level /\ ~gpioEn' /\ ~gpioPend'
        /\ tmrRun' /\ ~tmrPend' /\ call' = call /\ level = 0
    BY Zenon DEF IsrStartBit, StartSeen, RestartTimer, line
  <1>3. /\ bit_num' = 0 /\ temp_byte' = {} /\ done_count' = 0
        /\ "timer" \notin due' /\ ("line" \in due' <=> "line" \in due)
        /\ LevelAt(txCell)' = LevelAt(txCell)
    BY <1>2 DEF IsrStartBit, ClearFrame, RestartTimer, LevelAt
  <1>4. ~Owed'
    BY <1>2, <1>3, Zenon DEF Owed
  <1>5. txCell = 1 /\ "line" \notin due
    BY <1>1, <1>2, Levels DEF FollowInv, LineInv, GapInv
  <1>6. LineInv' /\ GapInv' /\ IdleInv' /\ CountInv' /\ ByteInv' /\ StopInv'
    BY <1>1, <1>2, <1>3, <1>4, <1>5, StatesDiffer
    DEF FollowInv, LineInv, GapInv, IdleInv, CountInv, ByteInv, StopInv
  <1>7. {k \in txByte : k < 0} = {}
    BY SoftUartAssumption DEF ControlInv, TypeOK, Byte
  <1>8. ShiftInv'
    BY <1>2, <1>3, <1>4, <1>5, <1>7, SoftUartAssumption DEF ShiftInv
  <1> QED
    BY <1>6, <1>8 DEF FollowInv

LEMMA IsrNoStartBitFollow == ASSUME ControlInv, FollowInv, IsrNoStartBit PROVE FollowInv'
  <1>1. /\ txByte' = txByte /\ txCell' = txCell /\ level' = level /\ gpioEn' = gpioEn
        /\ ~gpioPend' /\ tmrRun' = tmrRun /\ tmrPend' = tmrPend /\ state' = state /\ due' = due
        /\ bit_num' = bit_num /\ temp_byte' = temp_byte /\ done_count' = done_count
        /\ data_count' = data_count /\ call' = call /\ rest' = rest
    BY Zenon DEF IsrNoStartBit, line, frame, buffer, observers
  <1>2. ~(gpioPend /\ level = 0 /\ state \in {Idle, Gap})
    BY WaitFlag DEF IsrNoStartBit, StartSeen, ControlInv
  <1>3. (Owed' <=> Owed) /\ LevelAt(txCell)' = LevelAt(txCell)
    BY <1>1 DEF Owed, LevelAt
  <1>4. GapInv'
    BY <1>1, <1>2, Levels DEF FollowInv, LineInv, GapInv
  <1> QED
    BY <1>1, <1>3, <1>4 DEF FollowInv, LineInv, IdleInv, CountInv, ByteInv, ShiftInv, StopInv

LEMMA IsrNoTickFollow == ASSUME ControlInv, FollowInv, IsrNoTick PROVE FollowInv'
  <1>1. ~tmrPend
    BY NoTickState DEF FollowInv, LineInv, IdleInv, Owed, ControlInv
  <1>2. /\ txByte' = txByte /\ txCell' = txCell /\ level' = level /\ gpioEn' = gpioEn
        /\ gpioPend' = gpioPend /\ tmrRun' = tmrRun /\ ~tmrPend' /\ state' = state /\ due' = due
        /\ bit_num' = bit_num /\ temp_byte' = temp_byte /\ done_count' = done_count
        /\ data_count' = data_count /\ call' = call /\ rest' = rest
    BY Zenon DEF IsrNoTick, line, frame, buffer, observers
  <1>3. (Owed' <=> Owed) /\ LevelAt(txCell)' = LevelAt(txCell)
    BY <1>1, <1>2 DEF Owed, LevelAt
  <1> QED
    BY <1>1, <1>2, <1>3
    DEF FollowInv, LineInv, GapInv, IdleInv, CountInv, ByteInv, ShiftInv, StopInv

\* A tick inside a byte comes after the line has taken the level it samples.
LEMMA IsrDataBitFollow == ASSUME ControlInv, FollowInv, IsrDataBit PROVE FollowInv'
  <1>1. state = Shifting /\ state' = IF LastBit THEN Stopping ELSE Shifting
    BY DataBitState DEF ControlInv
  <1>2. /\ txByte' = txByte /\ txCell' = txCell /\ level' = level /\ gpioEn' = gpioEn
        /\ gpioPend' = gpioPend /\ tmrPend /\ ~tmrPend' /\ due' = due /\ call' = call /\ rest' = rest
    BY Zenon DEF IsrDataBit, Tick, line, observers
  <1>3. Owed /\ "timer" \notin due /\ "line" \notin due
    BY <1>1, <1>2 DEF Owed, FollowInv, LineInv, ByteInv
  <1>4. ~Owed' /\ LevelAt(txCell)' = LevelAt(txCell)
    BY <1>2, <1>3 DEF Owed, LevelAt
  <1>5. /\ bit_num \in 0 .. NBits - 1 /\ txCell = bit_num + 2
        /\ temp_byte = {k \in txByte : k < bit_num} /\ txByte \subseteq 0 .. NBits - 1
    BY <1>1, <1>3 DEF FollowInv, ShiftInv, ControlInv, TypeOK, Byte
  <1>6. level = IF bit_num \in txByte THEN 1 ELSE 0
    BY <1>3, <1>5, Levels DEF FollowInv, LineInv
  <1>b. \A k \in txByte : k \in Int
    BY <1>5
  <1>7. temp_byte' = {k \in txByte : k < bit_num + 1}
    <2>1. temp_byte' = IF bit_num \in txByte THEN temp_byte \cup {bit_num} ELSE temp_byte
      BY <1>6 DEF IsrDataBit
    <2>2. \A k \in txByte : k < bit_num + 1 <=> (k < bit_num \/ k = bit_num)
      BY <1>5, <1>b
    <2>3. temp_byte = {k \in txByte : k < bit_num}
      BY <1>5
    <2> QED
      BY <2>1, <2>2, <2>3
  <1>8. LineInv' /\ GapInv' /\ IdleInv' /\ CountInv' /\ ByteInv'
    BY <1>1, <1>2, <1>3, <1>4, StatesDiffer
    DEF FollowInv, LineInv, GapInv, IdleInv, CountInv, ByteInv
  <1>9. ShiftInv' /\ StopInv'
    <2>1. CASE LastBit
      <3>1. temp_byte' = txByte
        <4>1. \A k \in txByte : k < bit_num + 1
          BY <1>5, <1>b, <2>1, SoftUartAssumption DEF LastBit
        <4> QED
          BY <1>7, <4>1
      <3> QED
        BY <1>1, <1>2, <1>4, <1>5, <2>1, <3>1, StatesDiffer, SoftUartAssumption
        DEF LastBit, ShiftInv, StopInv, StopCell
    <2>2. CASE ~LastBit
      <3>1. bit_num' = bit_num + 1 /\ bit_num + 1 \in 0 .. NBits - 1
        BY <1>5, <2>2, SoftUartAssumption DEF IsrDataBit, LastBit
      <3> QED
        BY <1>1, <1>2, <1>4, <1>5, <1>7, <2>2, <3>1, StatesDiffer, SoftUartAssumption
        DEF ShiftInv, StopInv
    <2> QED
      BY <2>1, <2>2
  <1> QED
    BY <1>8, <1>9 DEF FollowInv

LEMMA StopBitFacts ==
  ASSUME ControlInv, FollowInv, IsrStopBit
  PROVE  /\ state = Stopping /\ state' = Gap /\ "timer" \notin due /\ "line" \notin due
         /\ txCell = StopCell /\ level = 1 /\ temp_byte = txByte /\ rest = 0 /\ Unstored
  <1>1. state = Stopping /\ state' = Gap
    BY StopBitState DEF ControlInv
  <1>2. tmrPend
    BY Zenon DEF IsrStopBit, Tick
  <1>3. Owed /\ "timer" \notin due /\ "line" \notin due
    BY <1>1, <1>2 DEF Owed, FollowInv, LineInv, ByteInv
  <1> QED
    BY <1>1, <1>3, Levels DEF FollowInv, StopInv, LineInv, Unstored

LEMMA IsrStopBitFollow == ASSUME ControlInv, FollowInv, IsrStopBit PROVE FollowInv'
  <1>1. /\ txByte' = txByte /\ txCell' = txCell /\ level' = level /\ gpioEn' /\ ~gpioPend'
        /\ ~tmrPend' /\ due' = due /\ call' = call /\ rest' = rest /\ done_count' = done_count
    BY Zenon DEF IsrStopBit, line
  <1>2. ~Owed' /\ LevelAt(txCell)' = LevelAt(txCell)
    BY <1>1, StopBitFacts DEF Owed, LevelAt
  <1>3. done_count = 0
    BY StopBitFacts DEF ControlInv, StateInv
  <1> QED
    BY <1>1, <1>2, <1>3, StopBitFacts, StatesDiffer, SoftUartAssumption
    DEF FollowInv, LineInv, GapInv, IdleInv, CountInv, ByteInv, ShiftInv, StopInv, StopCell

LEMMA DoneTickFacts ==
  ASSUME ControlInv, FollowInv, IsrDoneTick
  PROVE  /\ state = Gap /\ "timer" \notin due /\ Owed /\ txCell # StopCell
         /\ rest = done_count + 1 /\ done_count' = done_count + 1
  <1>1. tmrPend
    BY Zenon DEF IsrDoneTick, Tick
  <1>2. state = Gap /\ Owed /\ "timer" \notin due
    BY <1>1, DoneTickState DEF ControlInv, Owed, FollowInv, LineInv
  <1> QED
    BY <1>2, DoneTickGives DEF FollowInv, CountInv

LEMMA IsrDoneTickFollow == ASSUME ControlInv, FollowInv, IsrDoneTick PROVE FollowInv'
  <1>1. /\ txByte' = txByte /\ txCell' = txCell /\ level' = level /\ gpioEn' = gpioEn
        /\ gpioPend' = gpioPend /\ ~tmrPend' /\ call' = call /\ rest' = rest
    BY Zenon DEF IsrDoneTick, line
  <1>2. "timer" \notin due' /\ ("line" \in due' <=> "line" \in due)
    BY DoneTickFacts, DoneTickGives
  <1>3. ~Owed' /\ LevelAt(txCell)' = LevelAt(txCell)
    BY <1>1, <1>2 DEF Owed, LevelAt
  <1>4. state' \in {Idle, Gap} /\ (state' = Idle => TimedOut(done_count + 1))
    BY DoneTickState, StatesDiffer DEF ControlInv
  <1>5. state' = Idle => ~tmrRun'
    BY <1>4, DoneTickFacts, Zenon DEF IsrDoneTick, StopTimer
  <1>6. state' = Idle => data_count' = 0
    BY <1>4, DoneTickGives, SoftUartAssumption DEF TimedOut, ControlInv, TypeOK
  <1>7. LineInv' /\ GapInv' /\ IdleInv' /\ ByteInv' /\ ShiftInv' /\ StopInv'
    BY <1>1, <1>2, <1>3, <1>4, <1>5, <1>6, DoneTickFacts, StatesDiffer
    DEF FollowInv, LineInv, GapInv, IdleInv, ByteInv, ShiftInv, StopInv
  <1>8. CountInv'
    BY <1>1, <1>3, DoneTickFacts, SoftUartAssumption DEF CountInv, ControlInv, TypeOK
  <1> QED
    BY <1>7, <1>8 DEF FollowInv

\* Turning the receiver off is the only step that ends the hypothesis.
LEMMA AlwaysOnSteps ==
  ASSUME ControlInv, FollowInv, [Next]_vars, AlwaysOn'
  PROVE  \/ NextCell \/ IdleCell \/ LineChange \/ TimerTick \/ Glitch
         \/ \E b \in Byte : StartByte(b)
         \/ Isr
         \/ UNCHANGED vars
  <1>1. call = "none" /\ "DIS" \notin state
    BY DisFlag DEF FollowInv, LineInv, ControlInv
  <1>2. ~DisState
    BY SoftUartAssumption DEF AlwaysOn, DisState, ControlInv, TypeOK
  <1>3. ~Program
    BY <1>1, <1>2 DEF Program, ClearTimerStatus, ClearGpioStatus, DisTimerStop, DisGpioClose,
       EnState, EnGpioOpen
  <1> QED
    BY <1>3 DEF Next

LEMMA AlwaysOnBefore == ASSUME ControlInv, [Next]_vars, AlwaysOn' PROVE AlwaysOn
  <1>1. ~DisState => disables' = disables
    BY DEF Next, Isr, Program, vars, observers, NextCell, IdleCell, LineChange, TimerTick, Glitch,
       StartByte, IsrEnter, IsrStartBit, IsrNoStartBit, IsrNoTick, IsrDataBit, IsrStopBit,
       IsrDoneTick, ClearTimerStatus, ClearGpioStatus, DisTimerStop, DisGpioClose, EnState, EnGpioOpen
  <1>2. ~DisState
    BY SoftUartAssumption DEF AlwaysOn, DisState, ControlInv, TypeOK
  <1> QED
    BY <1>1, <1>2 DEF AlwaysOn

LEMMA FollowStep == ASSUME ControlInv, FollowInv, [Next]_vars, AlwaysOn' PROVE FollowInv'
  <1>1. CASE UNCHANGED vars
    BY <1>1 DEF vars, line, hw, frame, buffer, observers, FollowInv, LineInv, GapInv, IdleInv,
       CountInv, ByteInv, ShiftInv, StopInv, Owed, LevelAt
  <1> QED
    BY <1>1, AlwaysOnSteps, NextCellFollow, IdleCellFollow, StartByteFollow, LineChangeFollow,
       TimerTickFollow, GlitchFollow, IsrEnterFollow, IsrStartBitFollow, IsrNoStartBitFollow,
       IsrNoTickFollow, IsrDataBitFollow, IsrStopBitFollow, IsrDoneTickFollow DEF Isr

LEMMA InitFollow == Init => FollowInv
  <1> SUFFICES ASSUME Init PROVE FollowInv
    OBVIOUS
  <1>1. state = Idle
    BY DEF Init, Idle
  <1>2. /\ txCell = 0 /\ level = 1 /\ due = {} /\ gpioEn /\ ~gpioPend /\ ~tmrRun /\ ~tmrPend
        /\ data_count = 0 /\ call = "none"
    BY Zenon DEF Init
  <1>3. "line" \notin due /\ "timer" \notin due /\ ~Owed
    BY <1>2 DEF Owed
  <1> QED
    BY <1>1, <1>2, <1>3, StatesDiffer, Levels, SoftUartAssumption
    DEF FollowInv, LineInv, GapInv, IdleInv, CountInv, ByteInv, ShiftInv, StopInv, StopCell

----------------------------------------------------------------------------
(* What was sent and what was handed over.                                 *)

\* Handing over the beginning of the buffer.
LEMMA HandOver ==
  ASSUME NEW s \in Seq(Byte), NEW g \in Seq(Byte), NEW d \in [0 .. CountMod - 1 -> Byte],
         NEW c \in 0 .. CountMod - 1,
         \A k \in 1 .. Len(g) : g[k] = s[k],
         \A k \in 0 .. c - 1 : d[k] = s[Len(g) + k + 1]
  PROVE  /\ Len(g \o Given(c, d)) = Len(g) + c
         /\ \A k \in 1 .. Len(g) + c : (g \o Given(c, d))[k] = s[k]
  <1>1. /\ Given(c, d) \in Seq(Byte) /\ Len(Given(c, d)) = c
        /\ \A k \in 1 .. c : Given(c, d)[k] = d[k - 1]
    BY GivenType
  <1>2. ASSUME NEW k \in 1 .. Len(g) + c PROVE (g \o Given(c, d))[k] = s[k]
    <2>1. CASE k \in 1 .. Len(g)
      BY <1>1, <2>1, ConcatProperties
    <2>2. CASE k \notin 1 .. Len(g)
      <3>1. k - Len(g) \in 1 .. c /\ k - Len(g) - 1 \in 0 .. c - 1
        BY <2>2, LenProperties
      <3>2. (g \o Given(c, d))[k] = Given(c, d)[k - Len(g)]
        BY <1>1, <2>2, <3>1, ConcatProperties
      <3>3. Given(c, d)[k - Len(g)] = s[Len(g) + (k - Len(g) - 1) + 1]
        BY <1>1, <3>1
      <3> QED
        BY <3>2, <3>3, LenProperties
    <2> QED
      BY <2>1, <2>2
  <1> QED
    BY <1>1, <1>2, ConcatProperties

LEMMA HeldSame ==
  ASSUME HeldInv, UNCHANGED <<sent, got, buffer, txByte>>, Unstored' <=> Unstored PROVE HeldInv'
  BY DEF HeldInv, buffer

\* No step but the last of a byte, on either end, concerns what is held.
LEMMA HeldKept ==
  ASSUME ControlInv, FollowInv, HeldInv, FollowInv',
         \/ NextCell \/ IdleCell \/ TimerTick \/ Glitch \/ UNCHANGED vars
         \/ IsrEnter \/ IsrStartBit \/ IsrNoStartBit \/ IsrNoTick \/ IsrDataBit
         \/ \E b \in Byte : StartByte(b)
  PROVE  HeldInv'
  <1>1. CASE NextCell
    <2>1. ~Unstored /\ ~Unstored'
      BY <1>1, SettledFacts, SoftUartAssumption
      DEF NextCell, Unstored, FollowInv, StopInv, StopCell, ControlInv, TypeOK
    <2> QED
      BY <1>1, <2>1, HeldSame DEF NextCell
  <1>2. CASE IdleCell
    <2>1. ~Unstored /\ ~Unstored'
      BY <1>2, SoftUartAssumption DEF IdleCell, line, Unstored, StopCell
    <2> QED
      BY <1>2, <2>1, HeldSame DEF IdleCell, line
  <1>3. CASE \E b \in Byte : StartByte(b)
    <2>1. ~Unstored /\ ~Unstored'
      BY <1>3, SettledFacts, SoftUartAssumption DEF StartByte, Unstored, FollowInv, StopInv, StopCell
    <2>2. HeldInv /\ UNCHANGED <<sent, got, buffer>>
      BY <1>3 DEF StartByte
    <2> QED
      BY <2>1, <2>2 DEF HeldInv, buffer
  <1>4. CASE TimerTick \/ Glitch \/ UNCHANGED vars
    BY <1>4, HeldSame DEF TimerTick, Glitch, vars, line, observers, Unstored
  <1>5. CASE IsrEnter \/ IsrNoStartBit \/ IsrNoTick
    BY <1>5, HeldSame DEF IsrEnter, IsrNoStartBit, IsrNoTick, line, observers, Unstored
  <1>6. CASE IsrStartBit
    <2>1. ~Unstored /\ ~Unstored'
      BY <1>6, StartBitState, StatesDiffer DEF ControlInv, Unstored
    <2> QED
      BY <1>6, <2>1, HeldSame DEF IsrStartBit, line, observers
  <1>7. CASE IsrDataBit
    <2>1. txCell \in 1 .. NBits + 1
      BY <1>7, DataBitState DEF FollowInv, ShiftInv, ControlInv
    <2>2. ~Unstored /\ ~Unstored'
      BY <1>7, <2>1, SoftUartAssumption DEF IsrDataBit, line, Unstored, StopCell
    <2> QED
      BY <1>7, <2>2, HeldSame DEF IsrDataBit, line, observers
  <1> QED
    BY <1>1, <1>2, <1>3, <1>4, <1>5, <1>6, <1>7

LEMMA HeldLineChange ==
  ASSUME ControlInv, FollowInv, HeldInv, LineChange PROVE HeldInv'
  <1>1. /\ UNCHANGED <<txByte, txCell, state, got, data_count, data>>
        /\ "line" \in due /\ "line" \notin due'
        /\ sent' = IF txCell = StopCell THEN Append(sent, txByte) ELSE sent
    BY DEF LineChange, buffer
  <1>2. ~Unstored
    BY <1>1 DEF Unstored
  <1>3. CASE txCell # StopCell
    <2>1. ~Unstored'
      BY <1>1, <1>3 DEF Unstored, StopCell
    <2> QED
      BY <1>1, <1>2, <1>3, <2>1, HeldSame DEF buffer
  <1>4. CASE txCell = StopCell
    <2>1. state = Stopping
      BY <1>1, <1>4, SoftUartAssumption
      DEF FollowInv, LineInv, GapInv, ShiftInv, StopCell, ControlInv, StateInv, States
    <2>2. Unstored'
      BY <1>1, <1>4, <2>1 DEF Unstored, StopCell
    <2>3. /\ sent \in Seq(Byte) /\ got \in Seq(Byte) /\ txByte \in Byte /\ data_count \in Nat
      BY DEF ControlInv, TypeOK
    <2>4. /\ sent' = Append(sent, txByte) /\ Len(sent') = Len(sent) + 1 /\ Len(sent) \in Nat
          /\ sent'[Len(sent')] = txByte /\ \A k \in 1 .. Len(sent) : sent'[k] = sent[k]
      BY <1>1, <1>4, <2>3, AppendProperties, LenProperties
    <2>5. Len(got) \in Nat /\ Len(sent) = Len(got) + data_count
      BY <1>2, <2>3, LenProperties DEF HeldInv
    <2>6. /\ \A k \in 1 .. Len(got) : k \in 1 .. Len(sent)
          /\ \A k \in 0 .. data_count - 1 : Len(got) + k + 1 \in 1 .. Len(sent)
      BY <2>3, <2>5
    <2> QED
      BY <1>1, <2>2, <2>3, <2>4, <2>5, <2>6 DEF HeldInv
  <1> QED
    BY <1>3, <1>4

LEMMA HeldStopBit ==
  ASSUME ControlInv, FollowInv, HeldInv, IsrStopBit, DataSize < CountMod PROVE HeldInv'
  <1>1. /\ state' = Gap /\ Unstored /\ level = 1 /\ temp_byte = txByte
        /\ sent' = sent /\ txByte' = txByte
    BY StopBitFacts DEF IsrStopBit, line
  <1>2. ~Unstored'
    BY <1>1, StatesDiffer DEF Unstored
  <1>3. /\ sent \in Seq(Byte) /\ got \in Seq(Byte) /\ txByte \in Byte
        /\ Len(sent) \in Nat /\ Len(got) \in Nat
        /\ data_count \in 0 .. CountMod - 1 /\ data_count < DataSize
        /\ data \in [0 .. CountMod - 1 -> Byte]
    BY LenProperties DEF ControlInv, TypeOK, RoomInv
  <1>4. data_count + 1 \in 0 .. CountMod - 1 /\ (data_count + 1) % CountMod = data_count + 1
    <2>1. data_count + 1 \in Nat /\ data_count + 1 < CountMod
      BY <1>3, SoftUartAssumption
    <2> QED
      BY <2>1, SmallRemainder, SoftUartAssumption
  <1>5. /\ data' = [data EXCEPT ![data_count] = txByte]
        /\ \/ data_count' = 0 /\ got' = got \o Given(data_count + 1, data')
           \/ data_count' = data_count + 1 /\ got' = got
    BY <1>1, <1>4, StopBitStores
  <1>6. Len(sent) = Len(got) + data_count + 1
    BY <1>1 DEF HeldInv
  <1>7. \A k \in 0 .. data_count : data'[k] = sent[Len(got) + k + 1]
    <2>1. \A k \in 0 .. data_count - 1 : data'[k] = sent[Len(got) + k + 1]
      BY <1>3, <1>5 DEF HeldInv
    <2>2. data'[data_count] = sent[Len(got) + data_count + 1]
      BY <1>1, <1>3, <1>5, <1>6 DEF HeldInv
    <2> QED
      BY <1>3, <2>1, <2>2
  <1>8. CASE data_count' = data_count + 1 /\ got' = got
    BY <1>1, <1>2, <1>3, <1>6, <1>7, <1>8 DEF HeldInv
  <1>9. CASE data_count' = 0 /\ got' = got \o Given(data_count + 1, data')
    <2>1. data' \in [0 .. CountMod - 1 -> Byte]
      BY <1>3, <1>5
    <2>2. /\ \A k \in 1 .. Len(got) : got[k] = sent[k]
          /\ \A k \in 0 .. (data_count + 1) - 1 : data'[k] = sent[Len(got) + k + 1]
      BY <1>3, <1>7 DEF HeldInv
    <2>3. Len(got') = Len(got) + data_count + 1 /\ \A k \in 1 .. Len(got') : got'[k] = sent[k]
      <3>1. LET c == data_count + 1
            IN  /\ Len(got \o Given(c, data')) = Len(got) + c
                /\ \A k \in 1 .. Len(got) + c : (got \o Given(c, data'))[k] = sent[k]
        BY <1>3, <1>4, <2>1, <2>2, HandOver
      <3> QED
        BY <1>3, <1>9, <3>1
    <2> QED
      BY <1>1, <1>2, <1>6, <1>9, <2>3 DEF HeldInv
  <1> QED
    BY <1>5, <1>8, <1>9

LEMMA HeldDoneTick ==
  ASSUME ControlInv, FollowInv, HeldInv, IsrDoneTick PROVE HeldInv'
  <1>1. ~Unstored /\ ~Unstored'
    BY DoneTickState, StatesDiffer DEF ControlInv, Unstored
  <1>2. /\ sent \in Seq(Byte) /\ got \in Seq(Byte) /\ Len(sent) \in Nat /\ Len(got) \in Nat
        /\ data_count \in 0 .. CountMod - 1 /\ data \in [0 .. CountMod - 1 -> Byte]
    BY LenProperties DEF ControlInv, TypeOK
  <1>3. sent' = sent /\ data' = data /\ txByte' = txByte
    BY DEF IsrDoneTick, line
  <1>4. \/ data_count' = 0 /\ got' = got \o Given(data_count, data)
        \/ data_count' = data_count /\ got' = got
    BY <1>2, DoneTickGives
  <1>5. CASE data_count' = data_count /\ got' = got
    BY <1>1, <1>3, <1>5 DEF HeldInv
  <1>6. CASE data_count' = 0 /\ got' = got \o Given(data_count, data)
    <2>1. Len(got') = Len(got) + data_count /\ \A k \in 1 .. Len(got') : got'[k] = sent[k]
      <3>1. /\ \A k \in 1 .. Len(got) : got[k] = sent[k]
            /\ \A k \in 0 .. data_count - 1 : data[k] = sent[Len(got) + k + 1]
        BY DEF HeldInv
      <3>2. LET all == got \o Given(data_count, data)
            IN  /\ Len(all) = Len(got) + data_count
                /\ \A k \in 1 .. Len(got) + data_count : all[k] = sent[k]
        BY <1>2, <3>1, HandOver
      <3> QED
        BY <1>6, <3>2
    <2> QED
      BY <1>1, <1>2, <1>3, <1>6, <2>1 DEF HeldInv
  <1> QED
    BY <1>4, <1>5, <1>6

LEMMA HeldStep ==
  ASSUME ControlInv, FollowInv, HeldInv, [Next]_vars, AlwaysOn', DataSize < CountMod
  PROVE  HeldInv'
  <1>1. FollowInv'
    BY FollowStep
  <1> QED
    BY <1>1, AlwaysOnSteps, HeldKept, HeldLineChange, HeldStopBit, HeldDoneTick DEF Isr

----------------------------------------------------------------------------
(* What the invariants say.                                                *)

LEMMA ControlAlways == Spec => []ControlInv
  <1>1. ControlInv /\ [Next]_vars => ControlInv'
    BY ControlStep
  <1> QED
    BY InitControl, <1>1, PTL DEF Spec

LEMMA InductiveAlways == Spec => []IInv
  <1>1. Init => IInv
    BY InitControl, InitFollow DEF IInv
  <1>2. IInv /\ [Next]_vars => IInv'
    BY ControlStep, AlwaysOnBefore, FollowStep DEF IInv
  <1> QED
    BY <1>1, <1>2, PTL DEF Spec

LEMMA HeldAlways ==
  ASSUME DataSize < CountMod PROVE Spec => [](IInv /\ (AlwaysOn => HeldInv))
  <1> DEFINE Held == AlwaysOn => HeldInv
  <1>1. Init => Held
    <2> SUFFICES ASSUME Init PROVE HeldInv
      OBVIOUS
    <2>1. ~Unstored
      BY SoftUartAssumption DEF Init, Unstored, StopCell
    <2> QED
      BY <2>1 DEF Init, HeldInv
  <1>2. IInv /\ Held /\ [Next]_vars => Held'
    BY AlwaysOnBefore, HeldStep DEF IInv
  <1> HIDE DEF Held
  <1>3. Spec => []Held
    BY <1>1, <1>2, InductiveAlways, PTL DEF Spec
  <1> QED
    BY <1>3, InductiveAlways, PTL DEF Held

\* Every variable keeps to its range: no bit is shifted out of a byte, and the
\* idle intervals are never counted past the timeout.
THEOREM TypeCorrect == Spec => []TypeOK
  <1>1. ControlInv => TypeOK
    BY DEF ControlInv
  <1> QED
    BY ControlAlways, <1>1, PTL

\* The byte received next has room in a buffer of any size, with soft_uart_dis
\* and soft_uart_en called at any time.
THEOREM RoomCorrect == Spec => []RoomForByte
  <1>1. ControlInv => RoomForByte
    BY DEF ControlInv, RoomInv, RoomForByte
  <1> QED
    BY ControlAlways, <1>1, PTL

\* Whatever calls of soft_uart_dis and soft_uart_en fall between whatever ticks
\* and edges, something is left to wake the receiver, or it is off.
THEOREM StuckCorrect == Spec => []NeverStuck
  <1>1. ASSUME ControlInv, isr = "out", call = "none"
        PROVE  \/ state = {"DIS"} /\ ~gpioEn /\ ~tmrRun
               \/ state = {"WAIT"} /\ gpioEn
               \/ state = {"WAIT", "DONE_CHECK"} /\ gpioEn /\ tmrRun
               \/ state \in {{"WORK"}, {"STOP_CHECK"}} /\ tmrRun
    <2>1. \/ state = Off /\ ~gpioEn /\ ~tmrRun
          \/ state = Idle /\ gpioEn
          \/ state = Gap /\ gpioEn /\ tmrRun
          \/ state \in {Shifting, Stopping} /\ tmrRun
      BY <1>1 DEF ControlInv, StateInv, States, WakeInv
    <2> QED
      BY <2>1 DEF Off, Idle, Gap, Shifting, Stopping
  <1>2. ControlInv => NeverStuck
    BY <1>1 DEF NeverStuck
  <1> QED
    BY ControlAlways, <1>2, PTL

\* With a buffer that the count of its bytes can fill, what was handed over is
\* a beginning of what was sent, in order and bit for bit.
THEOREM OrderCorrect == ASSUME DataSize < CountMod PROVE Spec => []InOrder
  <1>1. ASSUME TypeOK, HeldInv PROVE Len(got) <= Len(sent) /\ got = SubSeq(sent, 1, Len(got))
    <2>1. /\ got \in Seq(Byte) /\ sent \in Seq(Byte) /\ data_count \in Nat
          /\ Len(got) \in Nat /\ Len(sent) \in Nat
      BY <1>1, LenProperties DEF TypeOK
    <2>2. Len(got) <= Len(sent)
      BY <1>1, <2>1 DEF HeldInv
    <2>3. \A k \in 1 .. Len(got) : got[k] = sent[k]
      BY <1>1 DEF HeldInv
    <2>4. /\ SubSeq(sent, 1, Len(got)) \in Seq(Byte) /\ Len(SubSeq(sent, 1, Len(got))) = Len(got)
          /\ \A k \in 1 .. Len(got) : SubSeq(sent, 1, Len(got))[k] = sent[k]
      BY <2>1, <2>2, SubSeqProperties
    <2> QED
      BY <2>1, <2>2, <2>3, <2>4, SeqEqual
  <1>2. IInv /\ (AlwaysOn => HeldInv) => InOrder
    BY <1>1 DEF IInv, ControlInv, InOrder
  <1> QED
    BY HeldAlways, <1>2, PTL

\* When the line has been idle for UART_RECE_DONE_NUM intervals the receive
\* handler has been given all it carried.
THEOREM DeliveredCorrect == ASSUME DataSize < CountMod PROVE Spec => []DeliveredInTime
  <1>1. ASSUME ControlInv, FollowInv, HeldInv, Settled, txCell = 0, rest >= DoneNum
        PROVE  got = sent
    <2>1. ~Owed /\ state # Off
      BY <1>1, SettledFacts DEF FollowInv, LineInv
    <2>2. state # Gap
      BY <1>1, <2>1, SoftUartAssumption DEF FollowInv, CountInv, ControlInv, StateInv, TypeOK
    <2>3. state \notin {Shifting, Stopping}
      BY <1>1, SoftUartAssumption DEF FollowInv, ShiftInv, StopInv, StopCell
    <2>4. state = Idle
      BY <1>1, <2>1, <2>2, <2>3 DEF ControlInv, StateInv, States
    <2>5. data_count = 0 /\ ~Unstored
      BY <1>1, <2>4, StatesDiffer DEF FollowInv, IdleInv, Unstored
    <2>6. got \in Seq(Byte) /\ sent \in Seq(Byte) /\ Len(got) \in Nat
      BY <1>1, LenProperties DEF ControlInv, TypeOK
    <2>7. Len(sent) = Len(got) /\ \A k \in 1 .. Len(got) : got[k] = sent[k]
      BY <1>1, <2>5, <2>6 DEF HeldInv
    <2> QED
      BY <2>6, <2>7, SeqEqual
  <1>2. IInv /\ (AlwaysOn => HeldInv) => DeliveredInTime
    BY <1>1 DEF IInv, DeliveredInTime
  <1> QED
    BY HeldAlways, <1>2, PTL

\* What is handed over fills the buffer, or the line has been idle for
\* UART_RECE_DONE_NUM intervals.
THEOREM CutCorrect == Spec => OnlyCutWhenDone
  <1>1. ASSUME ControlInv, IsrStopBit, got' # got PROVE Len(got') - Len(got) = DataSize
    <2>1. PICK count \in 0 .. CountMod - 1 :
            /\ count = (data_count + 1) % CountMod /\ count >= DataSize
            /\ got' = got \o Given(count, data') /\ data' = [data EXCEPT ![data_count] = temp_byte]
      BY <1>1, StopBitStores
    <2>2. /\ got \in Seq(Byte) /\ Len(got) \in Nat /\ data \in [0 .. CountMod - 1 -> Byte]
          /\ data_count \in Nat /\ data_count < DataSize /\ temp_byte \in Byte
      BY <1>1, LenProperties DEF ControlInv, TypeOK, RoomInv
    <2>3. count <= data_count + 1
      <3>1. data_count + 1 \in Nat
        BY <2>2
      <3> QED
        BY <2>1, <3>1, SmallRemainder, SoftUartAssumption
    <2>4. count = DataSize
      <3>1. count \in Nat /\ count >= DataSize
        BY <2>1, SoftUartAssumption
      <3> QED
        BY <2>2, <2>3, <3>1, SoftUartAssumption
    <2>5. data' \in [0 .. CountMod - 1 -> Byte]
      BY <2>1, <2>2
    <2>6. Len(Given(count, data')) = count /\ Given(count, data') \in Seq(Byte)
      BY <2>5, GivenType
    <2>7. Len(got') = Len(got) + count
      <3>1. Len(got \o Given(count, data')) = Len(got) + Len(Given(count, data'))
        BY <2>2, <2>6, ConcatProperties
      <3> QED
        BY <2>1, <2>6, <3>1
    <2> QED
      BY <2>2, <2>4, <2>7, SoftUartAssumption
  <1>2. ASSUME ControlInv, FollowInv, IsrDoneTick, got' # got PROVE rest >= DoneNum
    BY <1>2, DoneTickFacts, DoneTickGives
  <1>3. IInv /\ [Next]_vars => [AlwaysOn /\ got' # got =>
                                  rest >= DoneNum \/ Len(got') - Len(got) = DataSize]_vars
    <2> SUFFICES ASSUME IInv, [Next]_vars, AlwaysOn, got' # got
                 PROVE  rest >= DoneNum \/ Len(got') - Len(got) = DataSize
      OBVIOUS
    <2>1. IsrStopBit \/ IsrDoneTick
      BY DEF Next, Isr, Program, vars, observers, NextCell, IdleCell, LineChange, TimerTick, Glitch,
         StartByte, IsrEnter, IsrStartBit, IsrNoStartBit, IsrNoTick, IsrDataBit, DisState,
         ClearTimerStatus, ClearGpioStatus, DisTimerStop, DisGpioClose, EnState, EnGpioOpen
    <2> QED
      BY <2>1, <1>1, <1>2 DEF IInv
  <1> QED
    BY InductiveAlways, <1>3, PTL DEF Spec, OnlyCutWhenDone
=============================================================================
