------------------------------ MODULE UartBaud ------------------------------
(***************************************************************************)
(* How the UART driver finds its clock divider and bit width for a baud    *)
(* rate (drivers/uart.c, GetBetterBwpc, called by uart_init_baudrate and,  *)
(* for a smart card, by s7816_init): the baud rate is the system clock     *)
(* divided by (div + 1) * (bwpc + 1).                                      *)
(***************************************************************************)
EXTENDS Integers, FiniteSetsExt

CONSTANTS BitClocks     \* system clocks per bit asked for, in tenths

ASSUME UartAssumption == BitClocks \subseteq Nat

VARIABLES tenths, uart  \* what was asked for, and g_bwpc and g_uart_div

uartVars == <<tenths, uart>>

\* The loop looks at 5, 11, 17, ... while their squares are below n.
IsPrime(n) ==
    \/ n <= 3
    \/ /\ n % 2 # 0 /\ n % 3 # 0
       /\ \A i \in {5 + 6 * k : k \in 0 .. n \div 30 + 1} :
            i * i < n => n % i # 0 /\ n % (i + 2) # 0

\* The clocks per bit to aim for: rounded, and not a prime.
PrimeInt(t) ==
    LET n == t \div 10
    IN  IF IsPrime(n) THEN n + 1
        ELSE IF t % 10 > 5 /\ ~IsPrime(n + 1) THEN n + 1 ELSE n

Positions == 0 .. 12
Tenths(t, j) == (10 * PrimeInt(t)) \div (j + 4)
D_int(t, j) == Tenths(t, j) \div 10
D_dec(t, j) == Tenths(t, j) % 10

\* The last of the smallest, leaving out the widths that need no divider, and
\* the last of the largest.
PositionMin(t) ==
    LET ok == {j \in Positions : D_int(t, j) # 1}
    IN  Max({j \in ok : \A k \in ok : D_dec(t, j) <= D_dec(t, k)} \cup {0})

PositionMax(t) == Max({j \in Positions : \A k \in Positions : D_dec(t, k) <= D_dec(t, j)})

At_(t, j, up) == [bwpc |-> j + 3, div |-> IF up THEN D_int(t, j) ELSE D_int(t, j) - 1]

\* Mutant: the larger decimal is taken however small the smaller one is.
GetBetterBwpcUp(t) ==
    LET max == PositionMax(t)
    IN  IF D_dec(t, max) >= 5 THEN At_(t, max, TRUE) ELSE At_(t, PositionMin(t), FALSE)

\* A quotient just above an integer is rounded down, one just below it up.
GetBetterBwpc(t) ==
    LET min == PositionMin(t)
        max == PositionMax(t)
    IN  IF D_dec(t, min) < 5 /\ (D_dec(t, max) < 5 \/ D_dec(t, min) < 10 - D_dec(t, max))
          THEN At_(t, min, FALSE) ELSE At_(t, max, TRUE)

UartInit == tenths = 0 /\ uart = [bwpc |-> 0, div |-> 0]

uart_init_baudrate ==
    /\ tenths' \in BitClocks /\ uart' = GetBetterBwpc(tenths')

----------------------------------------------------------------------------

\* The baud rate the UART runs at is within 2 % of the one asked for, which a
\* receiver tolerates, whatever prime or remainder the division meets.
BaudAccurate ==
    tenths > 0 =>
      LET made == 10 * (uart.bwpc + 1) * (uart.div + 1)
      IN  50 * (IF made > tenths THEN made - tenths ELSE tenths - made) <= tenths
=============================================================================
