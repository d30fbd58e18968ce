------------------------------ MODULE KeyScan ------------------------------
(***************************************************************************)
(* The key scan driver (drivers/keyscan.c) and the scanner.  The scanner   *)
(* drives the pins named by the eight row fields one after the other; for  *)
(* each it puts row number and column pin of the active columns in a FIFO, *)
(* and an end flag after the last.  The driver turns column pins into the  *)
(* places they have in the program's list of columns.  Function, direction *)
(* and resistor of the pins, which it sets through gpio.c, and the         *)
(* polarity of the scan are taken to be right.                             *)
(***************************************************************************)
EXTENDS Integers, Sequences, SequencesExt, FiniteSetsExt

CONSTANTS
    KsMatrices      \* the lists of row and column pins (ks_value_e) configured

NoPin == 27                     \* 0x1b is no pin
KESYCAN_END_FLAG == 251         \* 0xfb

\* No pin is named twice; the scanner has eight row fields.
ASSUME KsAssumption ==
    \A m \in KsMatrices :
      /\ m \in [row : Seq(0 .. 31 \ {NoPin}), col : Seq(0 .. 31 \ {NoPin})]
      /\ Len(m.row) <= 8 /\ IsInjective(m.row \o m.col)

VARIABLES
    row_sel,        \* the bits set in reg_ks_row_sel0 (word 0) and reg_ks_row_sel4
    col_mask,       \* reg_ks_col_mask0, as a set of pins
    g_keyscan_col,  \* the program's columns
    ks_fifo,        \* the values the scanner has stored
    ks_got,         \* what keyscan_get_ks_value has returned since the scan
    ks_pressed      \* observer: the keys down in the scan, as the program numbers them

ksVars == <<row_sel, col_mask, g_keyscan_col, ks_fifo, ks_got, ks_pressed>>

Bits(pin) == {b \in 0 .. 4 : (pin \div 2 ^ b) % 2 = 1}

\* The seventh row's number is split between the two registers.
RowBits(i, pin) ==
    CASE i < 6 -> {<<0, b + 5 * i>> : b \in Bits(pin)}
      [] i = 6 -> {<<0, b + 30>> : b \in Bits(pin) \cap {0, 1}}
                    \cup {<<4, b - 2>> : b \in Bits(pin) \ {0, 1}}
      [] i = 7 -> {<<4, b + 3>> : b \in Bits(pin)}

\* Mutant: the fields of the unused rows are left 0, which is the pin PD0.
SetRowUsedOnly(rows) == UNION {RowBits(i - 1, rows[i]) : i \in DOMAIN rows}

keyscan_set_row(rows) ==
    UNION {RowBits(i, IF i < Len(rows) THEN rows[i + 1] ELSE NoPin) : i \in 0 .. 7}

keyscan_set_col(cols) == Range(cols)

\* Mutant: the loop does not stop at the pin it looked for.
UserColumnTwice(pin) ==
    FoldLeft(LAMBDA p, i : IF p = g_keyscan_col[i] THEN i - 1 ELSE p,
             pin, [i \in DOMAIN g_keyscan_col |-> i])

UserColumn(pin) ==
    LET found == {i \in DOMAIN g_keyscan_col : g_keyscan_col[i] = pin}
    IN  IF found = {} THEN pin ELSE Min(found) - 1

----------------------------------------------------------------------------

KsInit ==
    /\ row_sel = {} /\ col_mask = {} /\ g_keyscan_col = <<>>
    /\ ks_fifo = <<>> /\ ks_got = <<>> /\ ks_pressed = {}

keyscan_set_martix ==
    /\ ks_fifo = <<>>
    /\ \E m \in KsMatrices :
         /\ g_keyscan_col' = m.col
         /\ row_sel' = keyscan_set_row(m.row) /\ col_mask' = keyscan_set_col(m.col)
         /\ ks_pressed' = {} /\ ks_got' = <<>>
    /\ UNCHANGED ks_fifo

\* The scanner's row fields: five bits each, across both registers.
RowBit(n) == IF n < 32 THEN <<0, n>> ELSE <<4, n - 32>>
RowPin(i) ==
    LET Value(b) == IF RowBit(5 * i + b) \in row_sel THEN 2 ^ b ELSE 0
    IN  Value(0) + Value(1) + Value(2) + Value(3) + Value(4)

\* A key connects a row and a column pin; a column that is driven itself is active.
Active(keys) ==
    LET pin == [i \in 0 .. 7 |-> RowPin(i)]
    IN  {32 * x[1] + x[2] : x \in
           {y \in (0 .. 7) \X col_mask : pin[y[1]] = y[2] \/ <<pin[y[1]], y[2]>> \in keys}}

Ascending(S) == [k \in 1 .. Cardinality(S) |-> CHOOSE v \in S : Cardinality({w \in S : w < v}) = k - 1]

\* The keys of the matrix, as the program's row and column numbers.
Keys(m) == (0 .. Len(m.row) - 1) \X (0 .. Len(m.col) - 1)
KeyNumber(k) == 32 * k[1] + k[2]
Closed(m, keys) == {<<m.row[k[1] + 1], m.col[k[2] + 1]>> : k \in keys}

\* Up to two keys are down: with three, others may seem to be.
Scan ==
    /\ ks_fifo = <<>>
    /\ \E m \in {x \in KsMatrices : x.col = g_keyscan_col /\ keyscan_set_row(x.row) = row_sel} :
       \E down \in {{}} \cup {{k, l} : k, l \in Keys(m)} :
         /\ ks_pressed' = {KeyNumber(k) : k \in down}
         /\ ks_fifo' = Append(Ascending(Active(Closed(m, down))), KESYCAN_END_FLAG)
    /\ ks_got' = <<>>
    /\ UNCHANGED <<row_sel, col_mask, g_keyscan_col>>

keyscan_get_ks_value ==
    /\ ks_fifo # <<>>
    /\ LET ks_key == Head(ks_fifo)
       IN  ks_got' = Append(ks_got, 32 * (ks_key \div 32) + UserColumn(ks_key % 32))
    /\ ks_fifo' = Tail(ks_fifo)
    /\ UNCHANGED <<row_sel, col_mask, g_keyscan_col, ks_pressed>>

KsNext == keyscan_set_martix \/ Scan \/ keyscan_get_ks_value

----------------------------------------------------------------------------

\* When the FIFO has been read up to the end flag, the values returned are the
\* keys that were down, each once and numbered as the program listed its pins,
\* and none is the end flag (keyscan.c:163-170, keyscan.h:49-54).
KeysDecoded ==
    ks_fifo = <<>> /\ ks_got # <<>> =>
      /\ Last(ks_got) = KESYCAN_END_FLAG
      /\ Range(Front(ks_got)) = ks_pressed
      /\ Len(ks_got) = Cardinality(ks_pressed) + 1
      /\ KESYCAN_END_FLAG \notin ks_pressed
=============================================================================
