----------------------------- MODULE SoftUart ------------------------------
(***************************************************************************)
(* The bit-banged UART (drivers/ext_driver/software_uart.c): its transmit  *)
(* routine on one end of a line, its receiving interrupt handler on the    *)
(* other, and the two calls that turn the receiver off and on.             *)
(*                                                                         *)
(* Time is counted in bit intervals.  In every interval the line takes its *)
(* next level and timer0, if it runs, ticks; the handler is entered for    *)
(* either, or for both at once, and runs in two parts (the pin's interrupt *)
(* and the timer's), between which either of the two events can still      *)
(* happen.  The main program's calls proceed register by register, with    *)
(* the handler, the line and the timer between any two writes.             *)
(*                                                                         *)
(* A byte is the set of its one bits, the state word the set of its flags. *)
(***************************************************************************)
EXTENDS Naturals, Sequences

CONSTANTS
    NBits,          \* data bits of a byte: 8
    DoneNum,        \* UART_RECE_DONE_NUM
    CountMod,       \* data_count is an unsigned char: 256
    DataSize,       \* data_size: the buffer length less four
    MaxBytes,       \* bytes the line carries in a behaviour
    MaxRest,        \* how far the idle intervals are counted
    MaxDisables     \* calls of soft_uart_dis in a behaviour

ASSUME SoftUartAssumption ==
    /\ NBits \in Nat \ {0} /\ DoneNum \in Nat \ {0} /\ CountMod \in Nat \ {0}
    /\ DataSize \in Nat \ {0} /\ MaxBytes \in Nat /\ MaxRest \in Nat
    /\ DoneNum < MaxRest
    /\ MaxDisables \in Nat

VARIABLES
    \* The transmitter and the line.
    txByte, txCell, \* the byte being shifted out; its interval, 0 when idle
    level,          \* the level of the receive pin
    due,            \* what has yet to happen in this interval
    \* The interrupt hardware.
    gpioEn,         \* reg_gpio_irq_wakeup_en of the pin
    gpioPend,       \* FLD_IRQ_GPIO_EN in reg_irq_src
    tmrRun,         \* timer0 is started
    tmrPend,        \* FLD_TMR_STA_TMR0 in reg_tmr_sta
    \* soft_uart_rece.
    state, bit_num, temp_byte, done_count, data_count, data, mutex_flag,
    \* The two threads of control.
    isr,            \* where soft_uart_irq_handler is
    call,           \* where the main program is in dis or en
    \* Observers.
    sent,           \* the bytes whose stop bit has begun
    got,            \* the bytes handed to the receive handler
    rest,           \* intervals from the last stop bit to the next start bit
    disables        \* how often the receiver has been turned off

line == <<txByte, txCell, level>>
hw == <<gpioEn, gpioPend, tmrRun, tmrPend>>
frame == <<bit_num, temp_byte, done_count>>
buffer == <<data_count, data>>
observers == <<sent, got, rest, disables>>
vars == <<line, due, hw, state, frame, buffer, mutex_flag, isr, call, observers>>

Byte == SUBSET (0 .. NBits - 1)
StopCell == NBits + 2

Init ==
    /\ txByte = {} /\ txCell = 0 /\ level = 1 /\ due = {}
    /\ gpioEn = TRUE /\ gpioPend = FALSE /\ tmrRun = FALSE /\ tmrPend = FALSE
    /\ state = {"WAIT"} /\ bit_num = 0 /\ temp_byte = {} /\ done_count = 0
    /\ data_count = 0 /\ data = [k \in 0 .. CountMod - 1 |-> {}]
    /\ mutex_flag = FALSE
    /\ isr = "out" /\ call = "none"
    /\ sent = <<>> /\ got = <<>> /\ rest = MaxRest /\ disables = 0

----------------------------------------------------------------------------
(* soft_uart_putchar: a start bit, the data bits from the lowest up, and   *)
(* one stop bit, each for one interval.  soft_uart_send leaves any gap     *)
(* between two bytes, because it waits for the radio.                      *)

LevelAt(cell) ==
    IF cell = 0 \/ cell = StopCell THEN 1
    ELSE IF cell = 1 THEN 0
    ELSE IF cell - 2 \in txByte THEN 1 ELSE 0

\* The handler has dealt with everything: an interrupt takes less than a bit.
Settled ==
    /\ due = {} /\ isr = "out"
    /\ (gpioPend \/ tmrPend) => "DIS" \in state

TickDue == IF tmrRun THEN {"timer"} ELSE {}

Longer == IF rest < MaxRest THEN rest + 1 ELSE rest

\* The next interval: inside a byte, a start bit, or one more idle interval.
NextCell ==
    /\ Settled
    /\ txCell # 0
    /\ txCell' = IF txCell = StopCell THEN 0 ELSE txCell + 1
    /\ due' = TickDue \cup (IF txCell = StopCell THEN {} ELSE {"line"})
    /\ rest' = IF txCell = StopCell THEN Longer ELSE rest
    /\ UNCHANGED <<txByte, level, hw, state, frame, buffer, mutex_flag, isr, call,
                   sent, got, disables>>

StartByte(b) ==
    /\ Settled
    /\ txCell \in {0, StopCell} /\ Len(sent) < MaxBytes
    /\ txByte' = b /\ txCell' = 1
    /\ due' = TickDue \cup {"line"}
    /\ rest' = Longer
    /\ UNCHANGED <<level, hw, state, frame, buffer, mutex_flag, isr, call, sent, got, disables>>

IdleCell ==
    /\ Settled
    /\ txCell = 0
    /\ due' = TickDue
    /\ rest' = Longer
    /\ UNCHANGED <<line, hw, state, frame, buffer, mutex_flag, isr, call, sent, got, disables>>

LineChange ==
    /\ "line" \in due
    /\ level' = LevelAt(txCell)
    /\ gpioPend' = (gpioPend \/ (gpioEn /\ level = 1 /\ level' = 0))
    /\ due' = due \ {"line"}
    /\ sent' = IF txCell = StopCell THEN Append(sent, txByte) ELSE sent
    /\ rest' = IF txCell = StopCell THEN 0 ELSE rest
    /\ UNCHANGED <<txByte, txCell, gpioEn, tmrRun, tmrPend, state, frame, buffer,
                   mutex_flag, isr, call, got, disables>>

\* A pulse too short for the handler to see the pin low.
Glitch ==
    /\ txCell = 0 /\ due = {} /\ gpioEn /\ ~gpioPend
    /\ gpioPend' = TRUE
    /\ UNCHANGED <<line, due, gpioEn, tmrRun, tmrPend, state, frame, buffer,
                   mutex_flag, isr, call, observers>>

\* timer0 was started by the handler of a start bit, so inside a byte it ticks
\* after the line has changed; around a start bit the two come in any order.
TimerTick ==
    /\ "timer" \in due
    /\ "line" \in due => txCell = 1
    /\ tmrPend' = TRUE
    /\ due' = due \ {"timer"}
    /\ UNCHANGED <<line, gpioEn, gpioPend, tmrRun, state, frame, buffer, mutex_flag,
                   isr, call, observers>>

----------------------------------------------------------------------------
(* soft_uart_irq_handler.                                                  *)

\* A disabled receiver returns at once and leaves the status registers alone.
IsrEnter ==
    /\ isr = "out" /\ (gpioPend \/ tmrPend) /\ "DIS" \notin state
    /\ isr' = "gpio" /\ mutex_flag' = TRUE
    /\ UNCHANGED <<line, due, hw, state, frame, buffer, call, observers>>

\* Mutant: a tick that is already pending survives the restart.
RestartTimerOnly == tmrRun' = TRUE /\ tmrPend' = tmrPend /\ due' = due \ {"timer"}

\* timer0_set_mode and timer_start: the count starts again from zero and a
\* pending tick is cleared.
RestartTimer == tmrRun' = TRUE /\ tmrPend' = FALSE /\ due' = due \ {"timer"}

\* Mutant: the ticks counted in the gap before the byte are not forgotten.
ClearFrameOnly == bit_num' = 0 /\ temp_byte' = {} /\ done_count' = done_count

ClearFrame == bit_num' = 0 /\ temp_byte' = {} /\ done_count' = 0

StartSeen == gpioPend /\ level = 0 /\ "WAIT" \in state

IsrStartBit ==
    /\ isr = "gpio" /\ StartSeen
    /\ gpioEn' = FALSE /\ gpioPend' = FALSE
    /\ ClearFrame
    /\ state' = (state \ {"DONE_CHECK", "WAIT"}) \cup {"WORK"}
    /\ RestartTimer
    /\ isr' = "timer"
    /\ UNCHANGED <<line, buffer, mutex_flag, call, observers>>

\* No pin interrupt, or one that is only acknowledged.
IsrNoStartBit ==
    /\ isr = "gpio" /\ ~StartSeen
    /\ gpioPend' = FALSE
    /\ isr' = "timer"
    /\ UNCHANGED <<line, due, gpioEn, tmrRun, tmrPend, state, frame, buffer,
                   mutex_flag, call, observers>>

LeaveIsr == isr' = "out" /\ mutex_flag' = FALSE

IsrNoTick ==
    /\ isr = "timer" /\ (~tmrPend \/ state \cap {"WORK", "STOP_CHECK", "DONE_CHECK"} = {})
    /\ tmrPend' = FALSE
    /\ LeaveIsr
    /\ UNCHANGED <<line, due, gpioEn, gpioPend, tmrRun, state, frame, buffer, call,
                   observers>>

Tick == isr = "timer" /\ tmrPend

\* Mutant: one data bit too many.
PastLastBit == bit_num = NBits

LastBit == bit_num + 1 = NBits

IsrDataBit ==
    /\ Tick /\ "WORK" \in state
    /\ temp_byte' = IF level = 1 THEN temp_byte \cup {bit_num} ELSE temp_byte
    /\ IF LastBit
         THEN bit_num' = 0 /\ state' = (state \ {"WORK"}) \cup {"STOP_CHECK"}
         ELSE bit_num' = bit_num + 1 /\ state' = state
    /\ tmrPend' = FALSE
    /\ LeaveIsr
    /\ UNCHANGED <<line, due, gpioEn, gpioPend, tmrRun, done_count, buffer, call, observers>>

\* The receive handler reads the length in data[0] and that many bytes, and
\* gives the buffer back with soft_uart_RxSetFifo, which zeroes data_count.
Deliver(count, bytes) ==
    /\ got' = got \o [k \in 1 .. count |-> bytes[k - 1]]
    /\ data_count' = 0

\* Mutant: the buffer counts as full one byte too late.
Overfull(count) == count > DataSize

Full(count) == count >= DataSize

IsrStopBit ==
    /\ Tick /\ "WORK" \notin state /\ "STOP_CHECK" \in state
    /\ IF level = 1
         THEN LET count == (data_count + 1) % CountMod
              IN  /\ data' = [data EXCEPT ![data_count] = temp_byte]
                  /\ temp_byte' = {}
                  /\ IF Full(count) THEN Deliver(count, data')
                     ELSE data_count' = count /\ got' = got
         ELSE UNCHANGED <<buffer, temp_byte, got>>
    /\ state' = (state \ {"STOP_CHECK"}) \cup {"DONE_CHECK", "WAIT"}
    /\ gpioPend' = FALSE /\ gpioEn' = TRUE
    /\ tmrPend' = FALSE
    /\ LeaveIsr
    /\ UNCHANGED <<line, due, tmrRun, bit_num, done_count, call, sent, rest, disables>>

\* Mutant: one idle interval too many.
TimedOutLate(ticks) == ticks > DoneNum

TimedOut(ticks) == ticks >= DoneNum

\* Mutant: the pending tick is cleared, the timer runs on.
ClearTimer == tmrRun' = tmrRun /\ due' = due \ {"timer"}

\* timer_stop; writing reg_tmr_ctrl back also clears the status read with it.
StopTimer == tmrRun' = FALSE /\ due' = due \ {"timer"}

IsrDoneTick ==
    /\ Tick /\ state \cap {"WORK", "STOP_CHECK"} = {} /\ "DONE_CHECK" \in state
    /\ done_count' = done_count + 1
    /\ IF TimedOut(done_count')
         THEN /\ StopTimer
              /\ IF data_count > 0 THEN Deliver(data_count, data)
                 ELSE UNCHANGED <<data_count, got>>
              /\ state' = state \ {"DONE_CHECK"}
         ELSE UNCHANGED <<tmrRun, due, data_count, got, state>>
    /\ tmrPend' = FALSE
    /\ LeaveIsr
    /\ UNCHANGED <<line, gpioEn, gpioPend, bit_num, temp_byte, data, call, sent, rest, disables>>

Isr == IsrEnter \/ IsrStartBit \/ IsrNoStartBit \/ IsrNoTick \/ IsrDataBit
         \/ IsrStopBit \/ IsrDoneTick

----------------------------------------------------------------------------
(* soft_uart_dis and soft_uart_en, one register at a time.  The handler    *)
(* preempts them and is never preempted.                                   *)

DisState ==
    /\ disables < MaxDisables /\ isr = "out" /\ call = "none" /\ "DIS" \notin state
    /\ ~mutex_flag
    /\ state' = {"DIS"} /\ disables' = disables + 1
    /\ call' = "dis_timer_status"
    /\ UNCHANGED <<line, due, hw, frame, buffer, mutex_flag, isr, sent, got, rest>>

ClearTimerStatus ==
    /\ isr = "out" /\ call \in {"dis_timer_status", "en_timer_status"}
    /\ tmrPend' = FALSE
    /\ call' = IF call = "dis_timer_status" THEN "dis_gpio_status" ELSE "en_gpio_status"
    /\ UNCHANGED <<line, due, gpioEn, gpioPend, tmrRun, state, frame, buffer,
                   mutex_flag, isr, observers>>

ClearGpioStatus ==
    /\ isr = "out" /\ call \in {"dis_gpio_status", "en_gpio_status"}
    /\ gpioPend' = FALSE
    /\ call' = IF call = "dis_gpio_status" THEN "dis_timer_stop" ELSE "en_gpio_open"
    /\ UNCHANGED <<line, due, gpioEn, tmrRun, tmrPend, state, frame, buffer,
                   mutex_flag, isr, observers>>

DisTimerStop ==
    /\ isr = "out" /\ call = "dis_timer_stop"
    /\ StopTimer /\ tmrPend' = FALSE
    /\ call' = "dis_gpio_close"
    /\ UNCHANGED <<line, gpioEn, gpioPend, state, frame, buffer, mutex_flag,
                   isr, observers>>

DisGpioClose ==
    /\ isr = "out" /\ call = "dis_gpio_close"
    /\ gpioEn' = FALSE
    /\ ClearFrame
    /\ call' = "none"
    /\ UNCHANGED <<line, due, gpioPend, tmrRun, tmrPend, state, buffer, mutex_flag, isr,
                   observers>>

\* soft_uart_en is called on a receiver that soft_uart_dis has turned off.
EnState ==
    /\ isr = "out" /\ call = "none" /\ "DIS" \in state
    /\ ClearFrame
    /\ state' = {"WAIT"}
    /\ call' = "en_timer_status"
    /\ UNCHANGED <<line, due, hw, buffer, mutex_flag, isr, observers>>

EnGpioOpen ==
    /\ isr = "out" /\ call = "en_gpio_open"
    /\ gpioEn' = TRUE
    /\ call' = "none"
    /\ UNCHANGED <<line, due, gpioPend, tmrRun, tmrPend, state, frame, buffer,
                   mutex_flag, isr, observers>>

Program == DisState \/ ClearTimerStatus \/ ClearGpioStatus \/ DisTimerStop
             \/ DisGpioClose \/ EnState \/ EnGpioOpen

Next ==
    \/ NextCell \/ IdleCell \/ LineChange \/ TimerTick \/ Glitch
    \/ \E b \in Byte : StartByte(b)
    \/ Isr
    \/ Program

Spec == Init /\ [][Next]_vars
=============================================================================
