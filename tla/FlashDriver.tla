---------------------------- MODULE FlashDriver ----------------------------
(***************************************************************************)
(* The flash driver (drivers/flash.c, drivers/flash/flash_mid*.c) and the  *)
(* chip it talks to.  Calls come from the main program and from its        *)
(* interrupt handler; power may be lost at any moment.                     *)
(*                                                                         *)
(* A call is a list of commands.  A command that reads or writes the chip  *)
(* runs with interrupts off and from RAM, because no code can be fetched   *)
(* from a flash that is selected or busy; everything else runs from flash. *)
(* Bytes and registers are sets of their bits that are 1.                  *)
(***************************************************************************)
EXTENDS Integers, Sequences

CONSTANTS
    Bits,                   \* the bits of a byte
    PageSize, PageSizeOtp,  \* PAGE_SIZE, PAGE_SIZE_OTP
    SectorSize,             \* bytes erased by FLASH_SECT_ERASE_CMD
    FlashSize, OtpSize,     \* bytes of the flash and of its security registers
    LowBits, HighBits,      \* the bits of the two status bytes
    BpBits, OtpLock, Wps,   \* those that protect, and the one of the configure register
    OtherConfig,            \* the other bits of the configure register
    Area,                   \* the bytes each choice of BpBits protects
    Calls,                  \* by context, the calls made
    MaxBusy,                \* polls the longest operation of the chip lasts
    MaxPolls                \* polls after which flash_wait_done gives up: 10000000

Contexts == {"main", "isr"}
Byte == SUBSET Bits
StatusBits == LowBits \cup HighBits

\* The security registers have addresses of their own; here they follow the flash.
Main == 0 .. FlashSize - 1
Otp == FlashSize .. FlashSize + OtpSize - 1
Cells == Main \cup Otp

ASSUME FlashAssumption ==
    /\ PageSize \in Nat \ {0} /\ PageSizeOtp \in Nat \ {0} /\ SectorSize \in Nat \ {0}
    /\ FlashSize \in Nat /\ OtpSize \in Nat
    /\ FlashSize % PageSize = 0 /\ FlashSize % SectorSize = 0
    /\ FlashSize % PageSizeOtp = 0 /\ OtpSize % PageSizeOtp = 0
    /\ BpBits \subseteq StatusBits /\ OtpLock \in StatusBits \ BpBits
    /\ Area \in [SUBSET BpBits -> SUBSET Main] /\ Area[{}] = {}
    /\ MaxBusy \in Nat /\ MaxPolls \in Nat /\ MaxBusy < MaxPolls

VARIABLES
    nv,         \* what the chip keeps without power: bytes, status, configure register
    goal,       \* what nv becomes when the operation under way is done
    busy,       \* polls until then
    wel,        \* the chip's write enable latch
    selected,   \* the chip select line is low
    irq_en,     \* reg_irq_en
    ctx,        \* the context that runs; "off" without power
    pc,         \* by context, where the driver is
    call,       \* by context, the call in progress
    r,          \* by context, what irq_disable returned
    got,        \* by context, the bytes read
    polls,      \* the counter of flash_wait_done
    wanted,     \* observer: reg_irq_en as the program set it
    locked      \* observer: the cells protected by the calls that have returned

chip == <<nv, goal, busy, wel, selected>>
driver == <<pc, call, r, got, polls>>
vars == <<chip, irq_en, ctx, driver, wanted, locked>>

----------------------------------------------------------------------------
(* Calls: what the functions of the driver send, one command after another. *)

All == {"P25D09U", "P25Q40SU"}      \* mid 0x114485 and 0x136085
Quiet == [cmds |-> <<>>, at |-> 0, buf |-> <<>>, bits |-> {}, mask |-> {},
          value |-> {}, on |-> All]

flash_read_data(addr, len) ==
    [Quiet EXCEPT !.cmds = <<"read">>, !.at = addr, !.buf = [n \in 1 .. len |-> Bits]]
flash_page_program(addr, buf) ==
    [Quiet EXCEPT !.cmds = <<"program">>, !.at = addr, !.buf = buf]
flash_erase_sector(addr) == [Quiet EXCEPT !.cmds = <<"erase">>, !.at = addr]
flash_read_otp(addr, len) == flash_read_data(FlashSize + addr, len)
flash_write_otp(addr, buf) == flash_page_program(FlashSize + addr, buf)
flash_erase_otp(addr) == flash_erase_sector(FlashSize + addr)

\* Reads the status, changes the bits of mask and writes it back.
flash_write_status_mid114485(data, mask) ==
    [Quiet EXCEPT !.cmds = <<"read_low", "write_status">>,
                  !.bits = data, !.mask = mask, !.on = {"P25D09U"}]
flash_write_status_mid136085(data, mask) ==
    [Quiet EXCEPT !.cmds = <<"read_low", "read_high", "write_status">>,
                  !.bits = data, !.mask = mask, !.on = {"P25Q40SU"}]

\* Mutant: the configure register is left alone.
LockWithoutConfig(block) == flash_write_status_mid136085(block, BpBits)

flash_lock_mid136085(block) ==
    [flash_write_status_mid136085(block, BpBits) EXCEPT
       !.cmds = <<"read_config", "write_config">> \o @]

flash_lock_mid114485(block) == flash_write_status_mid114485(block, BpBits)
flash_unlock_mid136085 == flash_lock_mid136085({})
flash_unlock_mid114485 == flash_lock_mid114485({})
flash_lock_otp_mid136085(area) == flash_write_status_mid136085(area, {OtpLock})

\* The commands a call can still have before it.
Lists ==
    {<<>>, <<"read">>, <<"program">>, <<"erase">>, <<"write_status">>,
     <<"read_low", "write_status">>, <<"read_high", "write_status">>,
     <<"read_low", "read_high", "write_status">>,
     <<"write_config", "read_low", "read_high", "write_status">>,
     <<"read_config", "write_config", "read_low", "read_high", "write_status">>}

CallType ==
    [cmds : Lists, at : Nat, buf : Seq(Byte), bits : SUBSET StatusBits, mask : SUBSET StatusBits,
     value : SUBSET (StatusBits \cup {Wps} \cup OtherConfig), on : SUBSET All]

\* A call names cells there are.
InRange(k) == Len(k.buf) > 0 /\ k.at + Len(k.buf) <= FlashSize + OtpSize

\* Nothing in the SDK writes the registers but the functions that lock and unlock.
LockCalls ==
    {flash_lock_mid136085(block) : block \in SUBSET BpBits}
      \cup {flash_lock_mid114485(block) : block \in SUBSET BpBits}
      \cup {flash_lock_otp_mid136085({OtpLock})}

ASSUME CallsAssumption ==
    /\ Calls \in [Contexts -> SUBSET CallType]
    /\ \A x \in Contexts : \A k \in Calls[x] :
         /\ k.cmds # <<>> /\ Head(k.cmds) \notin {"write_status", "read_high", "write_config"}
         /\ Head(k.cmds) \in {"read", "program"} => InRange(k)
         /\ Head(k.cmds) = "erase" => k.at \in Cells
         /\ Head(k.cmds) \in {"read_low", "read_config"} => k \in LockCalls
         /\ k.bits \subseteq k.mask

----------------------------------------------------------------------------
(* The chip.                                                               *)

Page(c) == IF c \in Main THEN PageSize ELSE PageSizeOtp

\* Mutant: the whole buffer in one command.
ChunkUnsplit(k) == Len(k.buf)

\* How many bytes the next program command carries: those up to the page end.
Chunk(k) ==
    LET room == Page(k.at) - (k.at % Page(k.at))
    IN  IF Len(k.buf) > room THEN room ELSE Len(k.buf)

\* Where byte n of a command goes: the chip counts up within the page.
Target(k, n) == (k.at - (k.at % Page(k.at))) + ((k.at + n) % Page(k.at))

Sector(c) ==
    IF c \in Main THEN {d \in Main : d \div SectorSize = c \div SectorSize} ELSE Otp

Touched(k) ==
    CASE Head(k.cmds) = "program" -> {Target(k, n) : n \in 0 .. Chunk(k) - 1}
      [] Head(k.cmds) = "erase"   -> Sector(k.at)
      [] OTHER                    -> {}

Protected(v) ==
    (IF Wps \in v.config THEN {} ELSE Area[v.status \cap BpBits])
      \cup (IF OtpLock \in v.status THEN Otp ELSE {})

\* Mutant: the bits that were read are not kept.
StatusWithout(k) == k.bits

\* data |= status & ~bit
NewStatus(k) == k.bits \cup (k.value \ k.mask)

Programmed(k) ==
    [c \in Cells |->
      {b \in nv.mem[c] : \A n \in 0 .. Chunk(k) - 1 : Target(k, n) = c => b \in k.buf[n + 1]}]

\* What the command makes of what the chip keeps.  A bit that locks the
\* security registers is never cleared again.
Effect(k) ==
    CASE Head(k.cmds) = "program" -> [nv EXCEPT !.mem = Programmed(k)]
      [] Head(k.cmds) = "erase" ->
           [nv EXCEPT !.mem = [c \in Cells |-> IF c \in Touched(k) THEN Bits ELSE @[c]]]
      [] Head(k.cmds) = "write_status" ->
           [nv EXCEPT !.status = NewStatus(k) \cup (@ \cap {OtpLock})]
      [] Head(k.cmds) = "write_config" -> [nv EXCEPT !.config = k.value \ {Wps}]

Between(v, old, new) == old \cap new \subseteq v /\ v \subseteq old \cup new

\* What an operation cut short leaves: any of the bits changed.
Torn ==
    {v \in [mem : [Cells -> Byte], status : {nv.status, goal.status},
            config : {nv.config, goal.config}, mid : {nv.mid}] :
       \A c \in Cells : Between(v.mem[c], nv.mem[c], goal.mem[c])}

NvType == [mem : [Cells -> Byte], status : SUBSET StatusBits,
           config : SUBSET ({Wps} \cup OtherConfig), mid : All]

\* Straight from the factory: erased, some bits of the registers set.
Init ==
    /\ nv \in [mem : {[c \in Cells |-> Bits]}, status : SUBSET (StatusBits \ (BpBits \cup {OtpLock})),
               config : SUBSET ({Wps} \cup OtherConfig), mid : All]
    /\ nv.mid = "P25D09U" => nv.status \subseteq LowBits /\ nv.config = {}
    /\ goal = nv /\ busy = 0 /\ wel = FALSE /\ selected = FALSE
    /\ irq_en = FALSE /\ wanted = FALSE /\ ctx = "main"
    /\ pc = [x \in Contexts |-> "idle"] /\ call = [x \in Contexts |-> Quiet]
    /\ r = [x \in Contexts |-> FALSE] /\ got = [x \in Contexts |-> <<>>]
    /\ polls = 0 /\ locked = {}

----------------------------------------------------------------------------
(* The driver.                                                             *)

Cmd(x) == Head(call[x].cmds)
Reads(x) == Cmd(x) \in {"read_low", "read_high", "read_config"}
At(x, place) == ctx = x /\ pc[x] = place
Goto(x, place) == pc' = [pc EXCEPT ![x] = place]

\* A lock or unlock under way protects nothing until it has returned.
Call(x) ==
    /\ At(x, "idle")
    /\ \E k \in Calls[x] :
         /\ nv.mid \in k.on
         /\ call' = [call EXCEPT ![x] = k]
         /\ locked' = IF k.mask = BpBits THEN locked \cap Otp ELSE locked
    /\ Goto(x, "begin")
    /\ UNCHANGED <<chip, irq_en, ctx, r, got, polls, wanted>>

\* Mutant: interrupts stay as they are.
BeginWithIrq(x) ==
    /\ At(x, "begin")
    /\ r' = [r EXCEPT ![x] = irq_en]
    /\ Goto(x, "send")
    /\ UNCHANGED <<chip, irq_en, ctx, call, got, polls, wanted, locked>>

\* irq_disable, at the start of flash_mspi_read_ram and flash_mspi_write_ram.
Begin(x) ==
    /\ At(x, "begin")
    /\ r' = [r EXCEPT ![x] = irq_en] /\ irq_en' = FALSE
    /\ Goto(x, "send")
    /\ UNCHANGED <<chip, ctx, call, got, polls, wanted, locked>>

\* Mutant: the status is read into a variable that is not cleared first.
ReadRegisterOnTop(x) ==
    /\ At(x, "send") /\ Reads(x)
    /\ call' = [call EXCEPT ![x].value = @ \cup
                  CASE Cmd(x) = "read_config" -> nv.config
                    [] Cmd(x) = "read_low"    -> nv.status \cap LowBits
                    [] Cmd(x) = "read_high"   -> nv.status \cap HighBits]
    /\ Goto(x, "restore")
    /\ UNCHANGED <<chip, irq_en, ctx, r, got, polls, wanted, locked>>

\* flash_mspi_read_ram of one byte of a register.
ReadRegister(x) ==
    /\ At(x, "send") /\ Reads(x)
    /\ call' = [call EXCEPT ![x].value =
                  CASE Cmd(x) = "read_config" -> nv.config
                    [] Cmd(x) = "read_low"    -> nv.status \cap LowBits
                    [] Cmd(x) = "read_high"   -> @ \cup (nv.status \cap HighBits)]
    /\ Goto(x, "restore")
    /\ UNCHANGED <<chip, irq_en, ctx, r, got, polls, wanted, locked>>

\* One turn of the loop of flash_mspi_read_ram.
ReadByte(x) ==
    /\ At(x, "send") /\ Cmd(x) = "read"
    /\ got' = [got EXCEPT ![x] = Append(@, nv.mem[call[x].at])]
    /\ call' = [call EXCEPT ![x].at = @ + 1, ![x].buf = Tail(@)]
    /\ IF Len(call[x].buf) > 1 THEN selected' = TRUE /\ UNCHANGED pc
       ELSE selected' = FALSE /\ Goto(x, "restore")
    /\ UNCHANGED <<nv, goal, busy, wel, irq_en, ctx, r, polls, wanted, locked>>

\* flash_mspi_write_ram sends FLASH_WRITE_ENABLE_CMD ...
WriteEnable(x) ==
    /\ At(x, "send") /\ ~Reads(x) /\ Cmd(x) # "read"
    /\ selected' = TRUE /\ wel' = (wel \/ busy = 0)
    /\ Goto(x, "command")
    /\ UNCHANGED <<nv, goal, busy, irq_en, ctx, call, r, got, polls, wanted, locked>>

Accepted(k) == wel /\ busy = 0 /\ Touched(k) \cap Protected(nv) = {}

\* ... and the command with its address and data, then flash_wait_done sleeps
\* and asks for the status.
Command(x) ==
    /\ At(x, "command")
    /\ \E b \in 0 .. MaxBusy :
         IF Accepted(call[x])
           THEN /\ busy' = b /\ goal' = Effect(call[x])
                /\ nv' = IF b = 0 THEN Effect(call[x]) ELSE nv
           ELSE b = 0 /\ UNCHANGED <<nv, goal, busy>>
    /\ wel' = FALSE /\ selected' = TRUE /\ polls' = 0
    /\ Goto(x, "wait")
    /\ UNCHANGED <<irq_en, ctx, call, r, got, wanted, locked>>

\* Mutant: gives up before the longest operation is done.
GivesUpEarly == polls + 1 >= MaxBusy

GivesUp == polls = MaxPolls

\* One turn of the loop of flash_wait_done.
WaitDone(x) ==
    /\ At(x, "wait")
    /\ IF busy = 0 \/ GivesUp
         THEN /\ selected' = FALSE /\ Goto(x, "restore")
              /\ UNCHANGED <<nv, busy, polls>>
         ELSE /\ busy' = busy - 1 /\ polls' = polls + 1
              /\ nv' = IF busy = 1 THEN goal ELSE nv
              /\ UNCHANGED <<selected, pc>>
    /\ UNCHANGED <<goal, wel, irq_en, ctx, call, r, got, wanted, locked>>

\* What is left of a call after a command.
Rest(k) ==
    IF Head(k.cmds) = "program" /\ Chunk(k) < Len(k.buf)
      THEN [k EXCEPT !.at = @ + Chunk(k), !.buf = SubSeq(@, Chunk(k) + 1, Len(@))]
      ELSE [k EXCEPT !.cmds = Tail(@)]

\* What is protected when a call has returned.
NowLocked(k) ==
    IF Head(k.cmds) # "write_status" THEN locked
    ELSE IF k.mask = BpBits THEN Area[k.bits] \cup (locked \cap Otp) ELSE locked \cup Otp

\* Mutant: interrupts are enabled whatever they were before.
RestoreEnables(x) == TRUE

Restored(x) == r[x]

\* irq_restore; then the next command of the call, or its return.
Restore(x) ==
    /\ At(x, "restore")
    /\ irq_en' = Restored(x)
    /\ LET rest == Rest(call[x])
       IN  IF rest.cmds = <<>>
             THEN /\ call' = [call EXCEPT ![x] = Quiet] /\ Goto(x, "idle")
                  /\ locked' = NowLocked(call[x])
                  /\ got' = [got EXCEPT ![x] = <<>>]
             ELSE /\ call' = [call EXCEPT ![x] = rest] /\ Goto(x, "begin")
                  /\ UNCHANGED <<locked, got>>
    /\ r' = [r EXCEPT ![x] = FALSE] /\ polls' = 0
    /\ UNCHANGED <<chip, ctx, wanted>>

----------------------------------------------------------------------------
(* The program around it.                                                  *)

Interrupt == ctx = "main" /\ irq_en /\ ctx' = "isr"
             /\ UNCHANGED <<chip, irq_en, driver, wanted, locked>>

IsrReturn == At("isr", "idle") /\ ctx' = "main"
             /\ UNCHANGED <<chip, irq_en, driver, wanted, locked>>

\* The main program turns interrupts on or off between calls.
SetIrq ==
    /\ At("main", "idle")
    /\ irq_en' = ~irq_en /\ wanted' = irq_en'
    /\ UNCHANGED <<chip, ctx, driver, locked>>

PowerLoss ==
    /\ ctx # "off"
    /\ nv' \in IF busy > 0 THEN Torn ELSE {nv}
    /\ goal' = nv' /\ busy' = 0 /\ wel' = FALSE /\ selected' = FALSE
    /\ irq_en' = FALSE /\ wanted' = FALSE /\ ctx' = "off"
    /\ pc' = [x \in Contexts |-> "idle"] /\ call' = [x \in Contexts |-> Quiet]
    /\ r' = [x \in Contexts |-> FALSE] /\ got' = [x \in Contexts |-> <<>>]
    /\ polls' = 0
    /\ UNCHANGED locked

PowerOn == ctx = "off" /\ ctx' = "main"
           /\ UNCHANGED <<chip, irq_en, driver, wanted, locked>>

Step(x) ==
    \/ Call(x) \/ Begin(x) \/ ReadRegister(x) \/ ReadByte(x) \/ WriteEnable(x)
    \/ Command(x) \/ WaitDone(x) \/ Restore(x)

Next == (\E x \in Contexts : Step(x)) \/ Interrupt \/ IsrReturn \/ SetIrq \/ PowerLoss \/ PowerOn

Spec == Init /\ [][Next]_vars
=============================================================================
