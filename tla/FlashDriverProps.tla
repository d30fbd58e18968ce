-------------------------- MODULE FlashDriverProps --------------------------
(***************************************************************************)
(* What the flash driver promises.                                         *)
(***************************************************************************)
EXTENDS FlashDriver

\* Type correctness of the chip, the driver and the observers.
TypeOK ==
    /\ nv \in NvType /\ goal \in NvType /\ busy \in 0 .. MaxBusy
    /\ wel \in BOOLEAN /\ selected \in BOOLEAN /\ irq_en \in BOOLEAN /\ wanted \in BOOLEAN
    /\ ctx \in Contexts \cup {"off"}
    /\ pc \in [Contexts -> {"idle", "begin", "send", "command", "wait", "restore"}]
    /\ call \in [Contexts -> CallType]
    /\ r \in [Contexts -> BOOLEAN] /\ got \in [Contexts -> Seq(Byte)]
    /\ polls \in 0 .. MaxPolls /\ locked \subseteq Cells

\* Code fetched from flash runs here: the application, its interrupt handler
\* and the functions of the driver that are not in RAM.
FromFlash == ctx # "off" /\ pc[ctx] \in {"idle", "begin"}

\* No instruction is ever fetched from a flash that is selected or busy: the
\* commands run with interrupts off until flash_wait_done has seen them done
\* (flash.c:116-174).
XipSafe == FromFlash => busy = 0 /\ ~selected

\* A call leaves reg_irq_en as its caller set it, in the handler as in the main
\* program, and interrupts are off while the chip is spoken to.
IrqKept == irq_en = (FromFlash /\ wanted)

\* flash_read_data returns bytes that were in the flash together, though a
\* handler may write while the main program reads.
ReadWhole ==
    \A x \in Contexts :
      pc[x] = "restore" /\ Cmd(x) = "read" =>
        got[x] = [n \in 1 .. Len(got[x]) |-> nv.mem[call[x].at - Len(got[x]) + n - 1]]

\* A byte in an area that flash_lock or flash_lock_otp has returned from
\* protecting does not change, whatever is called by whom and whenever power
\* fails, until a call of lock or unlock begins.
LockedKept == [][\A c \in locked : nv'.mem[c] = nv.mem[c]]_vars

\* Lock and unlock leave the other bits of the status and of the configure
\* register alone: some of them make the chip's protection irreversible
\* (flash_mid136085.h:95-97).
OtherBitsKept ==
    [][/\ nv'.status \ (BpBits \cup {OtpLock}) = nv.status \ (BpBits \cup {OtpLock})
       /\ nv'.config \ {Wps} = nv.config \ {Wps}]_vars

----------------------------------------------------------------------------
(* The flash as its callers see it.                                        *)

\* The chip is done with the command of x.
ChunkDone(x) == pc[x] = "restore" \/ (pc[x] = "wait" /\ busy = 0)

Kind(k) == IF k.cmds = <<>> THEN "none" ELSE Head(k.cmds)

Abstract ==
    INSTANCE FlashMemory WITH
      mem <- nv.mem,
      todo <- [x \in Contexts |->
                LET k == IF ChunkDone(x) THEN Rest(call[x]) ELSE call[x]
                IN  CASE Kind(k) = "program" ->
                           [c \in k.at .. k.at + Len(k.buf) - 1 |->
                             [keep |-> k.buf[c - k.at + 1], set |-> {}]]
                      [] Kind(k) = "erase" ->
                           [c \in Sector(k.at) |-> [keep |-> {}, set |-> Bits]]
                      [] OTHER -> <<>>],
      protected <- Protected(nv), powered <- (ctx # "off")

\* The driver and the chip keep that promise: the loop that splits a buffer at
\* the page ends programs each byte once, where it belongs, and nothing else
\* (flash.c:235-248, :338-351), however main program and handler alternate.
Implements == Abstract!Spec
=============================================================================
