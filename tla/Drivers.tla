------------------------------ MODULE Drivers ------------------------------
(***************************************************************************)
(* The queue and the drivers that share no state with each other: a        *)
(* program uses one of them.                                               *)
(***************************************************************************)
EXTENDS MyFifoProps, Timers, SpiMaster, I2cMaster, UartBaud, KeyScan, AdcSample, FirmwareCheck,
        Gpio

CONSTANTS Parts     \* those a program may use

VARIABLES part      \* the one it uses

driversVars ==
    <<part, vars, tmrVars, spiVars, i2cVars, uartVars, ksVars, adcVars, fwVars, gpVars>>

DriversInit ==
    /\ part \in Parts
    /\ Init /\ TmrInit /\ SpiInit /\ I2cInit
    /\ UartInit /\ KsInit /\ AdcInit /\ FwInit /\ GpInit

DriversNext ==
    /\ UNCHANGED part
    /\ \/ /\ part = "queue" /\ Next
          /\ UNCHANGED <<tmrVars, spiVars, i2cVars, uartVars, ksVars, adcVars, fwVars, gpVars>>
       \/ /\ part = "timers" /\ TmrNext
          /\ UNCHANGED <<vars, spiVars, i2cVars, uartVars, ksVars, adcVars, fwVars, gpVars>>
       \/ /\ part = "spi" /\ SpiNext
          /\ UNCHANGED <<vars, tmrVars, i2cVars, uartVars, ksVars, adcVars, fwVars, gpVars>>
       \/ /\ part = "i2c" /\ I2cNext
          /\ UNCHANGED <<vars, tmrVars, spiVars, uartVars, ksVars, adcVars, fwVars, gpVars>>
       \/ /\ part = "uart" /\ uart_init_baudrate
          /\ UNCHANGED <<vars, tmrVars, spiVars, i2cVars, ksVars, adcVars, fwVars, gpVars>>
       \/ /\ part = "keyscan" /\ KsNext
          /\ UNCHANGED <<vars, tmrVars, spiVars, i2cVars, uartVars, adcVars, fwVars, gpVars>>
       \/ /\ part = "adc" /\ AdcNext
          /\ UNCHANGED <<vars, tmrVars, spiVars, i2cVars, uartVars, ksVars, fwVars, gpVars>>
       \/ /\ part = "firmware" /\ FwNext
          /\ UNCHANGED <<vars, tmrVars, spiVars, i2cVars, uartVars, ksVars, adcVars, gpVars>>
       \/ /\ part = "pins" /\ GpNext
          /\ UNCHANGED <<vars, tmrVars, spiVars, i2cVars, uartVars, ksVars, adcVars, fwVars>>

DriversSpec == DriversInit /\ [][DriversNext]_driversVars
=============================================================================
