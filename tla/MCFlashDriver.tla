--------------------------- MODULE MCFlashDriver ---------------------------
EXTENDS FlashDriverProps

O == {}
I == {0}

\* The area of each choice of protection bits; "cmp" complements it.
MCArea == [b \in SUBSET BpBits |->
            CASE b = {} -> {} [] b = {"bp"} -> 0 .. 1 [] b = {"cmp"} -> Main [] OTHER -> 2 .. 3]

MCCalls ==
    [main |-> {flash_read_data(2, 2), flash_read_otp(0, 1), flash_page_program(1, <<O, I, O>>),
               flash_erase_sector(1), flash_write_otp(0, <<I, O>>), flash_erase_otp(1),
               flash_lock_mid136085({"bp"}), flash_lock_mid136085({"bp", "cmp"}),
               flash_unlock_mid136085, flash_lock_otp_mid136085({OtpLock}),
               flash_lock_mid114485({"bp"}), flash_unlock_mid114485},
     isr |-> {flash_page_program(2, <<O>>), flash_erase_sector(3)}]
=============================================================================
