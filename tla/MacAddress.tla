----------------------------- MODULE MacAddress -----------------------------
(***************************************************************************)
(* The device address: blc_initMacAddress (vendor/common/blt_common.c)     *)
(* over flash_page_program and flash_read_data (drivers/flash.c), and the  *)
(* loss of power at any moment.                                            *)
(*                                                                         *)
(* Flash is NOR: a byte is the set of its bits that are 1, an erased byte  *)
(* has them all, and programming a byte can only clear bits.  The eight    *)
(* bytes kept are three random ones, three of the company and two of the   *)
(* static random address; their numbers are parameters.                    *)
(***************************************************************************)
EXTENDS Integers

CONSTANTS
    Bits,           \* the bits of a byte
    RandLen,        \* random bytes of the public address: 3
    PublicLen,      \* bytes of the public address: 6
    MacLen,         \* bytes kept in flash: 8
    CompanyByte,    \* the value of each company byte, by its index
    PageSize,       \* bytes programmed by one command at most: 256
    FlashSize,      \* bytes of the flash, whole pages of it
    FlashAddr       \* where the address is kept: the argument flash_addr

Byte == SUBSET Bits
Erased == Bits
RandIdx == 0 .. RandLen - 1
CompanyIdx == RandLen .. PublicLen - 1
PublicIdx == 0 .. PublicLen - 1
HighIdx == PublicLen .. MacLen - 1
Idx == 0 .. MacLen - 1
Cells == 0 .. FlashSize - 1

ASSUME MacAssumption ==
    /\ RandLen \in Nat /\ PublicLen \in Nat /\ MacLen \in Nat
    /\ RandLen < PublicLen /\ PublicLen < MacLen
    /\ CompanyByte \in [CompanyIdx -> Byte]
    /\ \E b \in CompanyIdx : CompanyByte[b] # Erased
    /\ PageSize \in Nat \ {0} /\ FlashSize \in Nat /\ FlashAddr \in Nat
    /\ FlashSize % PageSize = 0 /\ FlashAddr + MacLen <= FlashSize

VARIABLES
    flash,          \* the bytes of the flash
    pc,             \* where blc_initMacAddress is; "off" without power
    mac_read,       \* the eight bytes it has read
    value_rand,     \* the random bytes it has drawn, by the byte they are for
    mac,            \* mac_public, then bytes 3 and 4 of mac_random_static
    at, left,       \* flash_page_program: the next byte and how many are left
    firstPublic,    \* observer: the public address first used, <<>> before that
    firstStatic     \* observer: the first drawn bytes kept of a static address

ram == <<mac_read, value_rand, mac, at, left>>
vars == <<flash, ram, pc, firstPublic, firstStatic>>

Blank == [n \in Idx |-> Erased]
Part(bytes, from) == [n \in from |-> bytes[n]]
AllErased(bytes, from) == \A n \in from : bytes[n] = Erased

\* Memory without power; what is in it is never read.
RamLost ==
    /\ mac_read' = Blank /\ mac' = Blank
    /\ value_rand' = Blank /\ at' = 0 /\ left' = 0

\* The production line has written a public address, or nothing.
Provisioned(bytes) ==
    bytes = Blank \/ \A n \in CompanyIdx : bytes[n] = CompanyByte[n]

Init ==
    /\ \E bytes \in [Idx -> Byte] :
         /\ Provisioned(bytes)
         /\ flash = [c \in Cells |->
                      IF c - FlashAddr \in Idx THEN bytes[c - FlashAddr] ELSE Erased]
    /\ pc = "off"
    /\ mac_read = Blank /\ mac = Blank /\ value_rand = Blank
    /\ at = 0 /\ left = 0
    /\ firstPublic = <<>> /\ firstStatic = <<>>

----------------------------------------------------------------------------
(* drivers/flash.c                                                         *)

\* The bytes from address FlashAddr on, by flash_read_data.
Read == [n \in Idx |-> flash[FlashAddr + n]]

Smaller(m, n) == IF m < n THEN m ELSE n

\* Mutant: flash_page_program sends everything in one command.
ChunkUnsplit == left

\* Mutant: every command fills its page.
ChunkToPageEnd == PageSize - ((FlashAddr + at) % PageSize)

\* How many bytes the next program command of flash_page_program carries.
Chunk == Smaller(left, PageSize - ((FlashAddr + at) % PageSize))

\* The chip counts its address up within the page of the first byte.
Target(n) ==
    LET first == FlashAddr + at
    IN  (first - (first % PageSize)) + ((FlashAddr + n) % PageSize)

Sent == at .. at + Chunk - 1

\* One command: the bits that are 0 in a byte sent are cleared.
Programmed ==
    [c \in Cells |->
      {b \in flash[c] : \A n \in Sent : Target(n) = c => b \in mac[n]}]

\* The same cut short: of the bits to clear, any have been.
Torn ==
    {[c \in Cells |-> flash[c] \ {b \in Bits : <<c, b>> \in cleared}] :
       cleared \in SUBSET {cb \in Cells \X Bits :
                             cb[2] \in flash[cb[1]] \ Programmed[cb[1]]}}

----------------------------------------------------------------------------
(* blc_initMacAddress                                                      *)

\* Reads the address kept and draws the random bytes.
Boot ==
    /\ pc = "off"
    /\ mac_read' = Read
    /\ \E r \in [RandIdx \cup HighIdx -> Byte] :
         value_rand' = [n \in Idx |-> IF n \in CompanyIdx THEN Erased ELSE r[n]]
    /\ pc' = "public"
    /\ UNCHANGED <<flash, mac, at, left, firstPublic, firstStatic>>

\* Mutant: only the random part is looked at.
NoPublicByRand == AllErased(mac_read, RandIdx)

NoPublic == AllErased(mac_read, PublicIdx)

KeepPublic ==
    /\ pc = "public" /\ ~NoPublic
    /\ mac' = [n \in Idx |-> IF n \in PublicIdx THEN mac_read[n] ELSE mac[n]]
    /\ pc' = "static"
    /\ UNCHANGED <<flash, mac_read, value_rand, at, left, firstPublic, firstStatic>>

NewPublic ==
    /\ pc = "public" /\ NoPublic
    /\ mac' = [n \in Idx |-> IF n \in RandIdx THEN value_rand[n]
                             ELSE IF n \in CompanyIdx THEN CompanyByte[n] ELSE mac[n]]
    /\ at' = 0 /\ left' = PublicLen
    /\ pc' = "writePublic"
    /\ UNCHANGED <<flash, mac_read, value_rand, firstPublic, firstStatic>>

\* Mutant: either byte erased counts as none kept.
NoHighByEither == \E n \in HighIdx : mac_read[n] = Erased

NoHigh == AllErased(mac_read, HighIdx)

\* The first random bytes of the static address kept, once they are not blank.
Use(bytes) ==
    /\ firstPublic' = IF firstPublic = <<>> THEN Part(bytes, PublicIdx) ELSE firstPublic
    /\ firstStatic' = IF firstStatic = <<>> /\ ~AllErased(bytes, HighIdx)
                        THEN Part(bytes, HighIdx) ELSE firstStatic

KeepHigh ==
    /\ pc = "static" /\ ~NoHigh
    /\ mac' = [n \in Idx |-> IF n \in HighIdx THEN mac_read[n] ELSE mac[n]]
    /\ pc' = "done" /\ Use(mac')
    /\ UNCHANGED <<flash, mac_read, value_rand, at, left>>

NewHigh ==
    /\ pc = "static" /\ NoHigh
    /\ mac' = [n \in Idx |-> IF n \in HighIdx THEN value_rand[n] ELSE mac[n]]
    /\ at' = PublicLen /\ left' = MacLen - PublicLen
    /\ pc' = "writeHigh"
    /\ UNCHANGED <<flash, mac_read, value_rand, firstPublic, firstStatic>>

Writing == pc \in {"writePublic", "writeHigh"}

\* One turn of the loop of flash_page_program, with flash_wait_done.
WritePage ==
    /\ Writing
    /\ flash' = Programmed
    /\ at' = at + Chunk /\ left' = left - Chunk
    /\ IF left' > 0 THEN UNCHANGED <<pc, firstPublic, firstStatic>>
       ELSE IF pc = "writePublic"
         THEN pc' = "static" /\ UNCHANGED <<firstPublic, firstStatic>>
         ELSE pc' = "done" /\ Use(mac)
    /\ UNCHANGED <<mac_read, value_rand, mac>>

PowerLoss ==
    /\ pc # "off"
    /\ IF Writing THEN flash' \in Torn ELSE UNCHANGED flash
    /\ pc' = "off"
    /\ RamLost
    /\ UNCHANGED <<firstPublic, firstStatic>>

Next ==
    Boot \/ KeepPublic \/ NewPublic \/ KeepHigh \/ NewHigh \/ WritePage \/ PowerLoss

Spec == Init /\ [][Next]_vars
=============================================================================
