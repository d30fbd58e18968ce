--------------------------- MODULE FirmwareCheck ---------------------------
(***************************************************************************)
(* The check of a firmware image in flash (vendor/common/flash_fw_check.c).*)
(* The image's CRC is computed a block at a time, then over what is left   *)
(* before the four bytes that hold the expected CRC.  A CRC is kept as     *)
(* what was fed to it: from which value it started, up to which byte it    *)
(* has gone without gap, and whether all bytes were as they were signed.   *)
(***************************************************************************)
EXTENDS Integers

CONSTANTS
    FW_READ_SIZE,   \* 256
    FwSizes         \* sizes of images: a multiple of 16, and 4 bytes of CRC

ASSUME FwAssumption ==
    /\ FW_READ_SIZE \in Nat \ {0} /\ FW_READ_SIZE % 16 = 0
    /\ \A n \in FwSizes : n \in Nat /\ n % 16 = 4

VARIABLES
    fw,             \* the image: its size and the byte that is damaged, if any
    fw_i,           \* the block the check has come to, or where else it is
    fw_crc_init,    \* the CRC so far
    fw_result,      \* what the last call returned
    fw_given        \* observer: the initial value it was given

fwVars == <<fw, fw_i, fw_crc_init, fw_result, fw_given>>

None == -1
SignedUpTo(n) == [start |-> "ffffffff", upto |-> n, intact |-> TRUE]
Fresh == SignedUpTo(0)

\* Mutant: the CRC goes on from that of the last call.
StartCrcStale(crc_init_value) == fw_crc_init

StartCrc(crc_init_value) ==
    [Fresh EXCEPT !.start = IF crc_init_value = "0" THEN "ffffffff" ELSE crc_init_value]

Feed(crc, at, n) ==
    [start |-> crc.start, upto |-> IF at = crc.upto THEN at + n ELSE None,
     intact |-> crc.intact /\ fw.damage \notin at .. at + n - 1]

fw_Block == fw.size \div FW_READ_SIZE
fw_remainSizeByte == fw.size % FW_READ_SIZE

FwInit ==
    /\ fw = [size |-> 0, damage |-> None]
    /\ fw_i = None /\ fw_crc_init = Fresh /\ fw_result = "none" /\ fw_given = "0"

\* Between two calls an image is written, whole or with a byte wrong; the
\* bytes of the size itself, at 24, are taken to be right.
WriteImage ==
    /\ fw_i = None
    /\ \E n \in FwSizes : \E d \in {None} \cup ((0 .. n - 1) \ (24 .. 27)) : fw' = [size |-> n, damage |-> d]
    /\ fw_result' = "none"
    /\ UNCHANGED <<fw_i, fw_crc_init, fw_given>>

\* Erased flash, whose size is 0 or 2^32 - 1, is no image.
flash_fw_check ==
    /\ fw_i = None
    /\ fw_given' \in {"0", "ffffffff", "other"} /\ fw_crc_init' = StartCrc(fw_given')
    /\ IF fw.size = 0 THEN fw_i' = None /\ fw_result' = "fail"
       ELSE fw_i' = 0 /\ fw_result' = "none"
    /\ UNCHANGED fw

FwBlock ==
    /\ fw_i \in 0 .. fw_Block - 1
    /\ fw_crc_init' = Feed(fw_crc_init, fw_i * FW_READ_SIZE, FW_READ_SIZE)
    /\ fw_i' = fw_i + 1
    /\ UNCHANGED <<fw, fw_result, fw_given>>

FwRest ==
    /\ fw_i = fw_Block
    /\ fw_crc_init' = IF fw_remainSizeByte # 4
                        THEN Feed(fw_crc_init, fw.size - fw_remainSizeByte, fw_remainSizeByte - 4)
                        ELSE fw_crc_init
    /\ fw_result' = IF fw_crc_init' = SignedUpTo(fw.size - 4)
                         /\ fw.damage \notin fw.size - 4 .. fw.size - 1
                      THEN "ok" ELSE "fail"
    /\ fw_i' = None
    /\ UNCHANGED <<fw, fw_given>>

FwNext == WriteImage \/ flash_fw_check \/ FwBlock \/ FwRest

----------------------------------------------------------------------------

\* Whatever its size and whatever was checked before, an image passes exactly
\* when it is there, no byte of it differs from what was signed, and the call
\* starts from the value it was signed from, 0 standing for that: no byte is
\* left out where blocks and the rest meet, none is taken twice.
ImageChecked ==
    fw_result # "none" =>
      (fw_result = "ok") = (fw.size # 0 /\ fw.damage = None /\ fw_given # "other")
=============================================================================
