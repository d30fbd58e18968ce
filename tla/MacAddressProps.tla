-------------------------- MODULE MacAddressProps --------------------------
(***************************************************************************)
(* What the device address promises across losses of power.                *)
(***************************************************************************)
EXTENDS MacAddress

\* Type correctness of the flash, of blc_initMacAddress's variables and of
\* the observers.
TypeOK ==
    /\ flash \in [Cells -> Byte]
    /\ pc \in {"off", "public", "writePublic", "static", "writeHigh", "done"}
    /\ mac_read \in [Idx -> Byte] /\ value_rand \in [Idx -> Byte] /\ mac \in [Idx -> Byte]
    /\ at \in 0 .. MacLen /\ left \in 0 .. MacLen
    /\ firstPublic \in [PublicIdx -> Byte] \cup {<<>>}
    /\ firstStatic \in [HighIdx -> Byte] \cup {<<>>}

Done == pc = "done"

\* A device that has used a public address uses the same one ever after,
\* whenever the power was lost in between: blc_initMacAddress writes it before
\* it returns, and does not draw another (blt_common.c:52-65).
PublicStable == Done => Part(mac, PublicIdx) = firstPublic

\* And so for the two bytes of the static random address, from the first drawn
\* that are not both 0xff on (blt_common.c:72-81).
StaticStable == Done /\ firstStatic # <<>> => Part(mac, HighIdx) = firstStatic

\* The flash holds what was returned: no byte was programmed over one that was
\* not erased, in the wrong page or not at all (flash.c:235-248).
StoredIsUsed == Done => Read = mac

----------------------------------------------------------------------------
(* The flash this module assumes is the one the flash driver provides.     *)

Flash ==
    INSTANCE FlashMemory WITH
      Contexts <- {"boot"}, mem <- flash, protected <- {},
      powered <- (pc # "off"),
      todo <- [x \in {"boot"} |->
                IF Writing THEN [c \in FlashAddr + at .. FlashAddr + at + left - 1 |->
                                  [keep |-> mac[c - FlashAddr], set |-> {}]]
                           ELSE <<>>]

\* Every change of the flash here, torn ones included, is one that the flash
\* functions make for a caller who asked for these bytes (FlashMemory).
UsesFlash == Flash!Spec
=============================================================================
