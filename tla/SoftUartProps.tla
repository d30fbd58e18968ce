--------------------------- MODULE SoftUartProps ---------------------------
(***************************************************************************)
(* What the bit-banged UART promises.                                      *)
(***************************************************************************)
EXTENDS SoftUart

Flags == {"WAIT", "WORK", "STOP_CHECK", "DONE_CHECK", "DIS"}
DisSteps == {"dis_timer_status", "dis_gpio_status", "dis_timer_stop", "dis_gpio_close"}
EnSteps == {"en_timer_status", "en_gpio_status", "en_gpio_open"}

TypeOK ==
    /\ txByte \in Byte /\ txCell \in 0 .. StopCell /\ level \in {0, 1}
    /\ due \subseteq {"line", "timer"}
    /\ gpioEn \in BOOLEAN /\ gpioPend \in BOOLEAN
    /\ tmrRun \in BOOLEAN /\ tmrPend \in BOOLEAN
    /\ state \subseteq Flags
    /\ bit_num \in 0 .. NBits - 1 /\ temp_byte \in Byte /\ done_count \in 0 .. DoneNum
    /\ data_count \in 0 .. CountMod - 1 /\ data \in [0 .. CountMod - 1 -> Byte]
    /\ mutex_flag \in BOOLEAN
    /\ isr \in {"out", "gpio", "timer"}
    /\ call \in {"none"} \cup DisSteps \cup EnSteps
    /\ sent \in Seq(Byte) /\ got \in Seq(Byte)
    /\ rest \in 0 .. MaxRest /\ disables \in 0 .. MaxDisables

AlwaysOn == disables = 0

\* While the receiver has always been on, what the receive handler has been
\* given is a beginning of what the line has carried: no byte is lost,
\* repeated or shifted by a bit, whatever the gaps between the bytes, however
\* a start bit falls together with a tick, and with pulses on the idle line.
InOrder == AlwaysOn => Len(got) <= Len(sent) /\ got = SubSeq(sent, 1, Len(got))

\* Once the line has been idle for the timeout of the packet,
\* everything it carried has been handed over.
DeliveredInTime == AlwaysOn /\ Settled /\ txCell = 0 /\ rest >= DoneNum => got = sent

\* A packet is cut only by a full buffer or by UART_RECE_DONE_NUM idle
\* intervals: a shorter gap between two bytes never splits it.
OnlyCutWhenDone ==
    [][AlwaysOn /\ got' # got =>
         rest >= DoneNum \/ Len(got') - Len(got) = DataSize]_vars

\* The byte received next has room in the buffer.
RoomForByte == state \cap {"WORK", "STOP_CHECK"} # {} => data_count < DataSize

\* The receiver is never left with nothing to wake it: while a byte is being
\* shifted in, or a packet timed out, timer0 runs; while a start bit is awaited
\* the pin's interrupt is on; turned off, it has neither.  (After soft_uart_en
\* the pin's interrupt can be on during a byte as well: an edge that came while
\* soft_uart_dis was at work starts the byte before the last line of en.)
NeverStuck ==
    isr = "out" /\ call = "none" =>
        \/ state = {"DIS"} /\ ~gpioEn /\ ~tmrRun
        \/ state = {"WAIT"} /\ gpioEn
        \/ state = {"WAIT", "DONE_CHECK"} /\ gpioEn /\ tmrRun
        \/ state \in {{"WORK"}, {"STOP_CHECK"}} /\ tmrRun

----------------------------------------------------------------------------
(* Two comments of the source that the code does not live up to.           *)

\* software_uart.c:200: "uart packet length needs to be no larger than
\* (recBuffLen - 4)", for a buffer of "5 ~ 260" bytes (:202): when such a
\* packet is over, the handler has been given it.
PacketFitsBuffer == DeliveredInTime

\* software_uart.c:129: soft_uart_dis ends with the status of the timer, and
\* of the pin, cleared ("clear irq status", "clear the relevant irq"); the
\* handler, which then returns at once, would never clear one that is left.
QuietWhenDisabled == call = "none" /\ "DIS" \in state => ~gpioPend /\ ~tmrPend
=============================================================================
