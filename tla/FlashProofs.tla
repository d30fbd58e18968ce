----------------------------- MODULE FlashProofs -----------------------------
(***************************************************************************)
(* The flash driver, for every chip, every set of calls and every moment   *)
(* of an interrupt or a loss of power.  Three invariants, each resting on  *)
(* the one before: IInv, who runs and when the chip is free; KInv, what    *)
(* each command of a call finds and leaves; LInv, what is locked.  RInv    *)
(* adds to KInv the range of a call, for the refinement of FlashMemory.    *)
(***************************************************************************)
EXTENDS FlashDriverProps, Remainders, SequenceTheorems, TLAPS

Places == {"idle", "begin", "send", "command", "wait", "restore"}

\* The handler runs to its end, and interrupts a main program that runs from flash.
ContextInv ==
    /\ ctx # "isr" => pc["isr"] = "idle"
    /\ ctx # "main" => pc["main"] \in {"idle", "begin"}
    /\ ctx = "off" => pc["main"] = "idle" /\ ~wanted

\* What irq_disable returned is what the program had set.
HeldInv == \A x \in Contexts : pc[x] \in {"send", "command", "wait", "restore"} => r[x] = wanted

\* The chip is busy only while flash_wait_done polls, and then has fewer polls
\* to go than flash_wait_done; it is selected within a command only.
ChipInv ==
    /\ ctx = "off" => busy = 0 /\ ~selected
    /\ \A x \in Contexts : ctx = x =>
         /\ pc[x] # "wait" => busy = 0
         /\ pc[x] = "wait" => busy + polls <= MaxBusy
         /\ pc[x] \in {"idle", "begin", "restore"} => ~selected
         /\ pc[x] = "send" /\ Cmd(x) # "read" => ~selected

CoreType ==
    /\ busy \in 0 .. MaxBusy /\ selected \in BOOLEAN /\ irq_en \in BOOLEAN /\ wanted \in BOOLEAN
    /\ ctx \in Contexts \cup {"off"} /\ pc \in [Contexts -> Places]
    /\ r \in [Contexts -> BOOLEAN] /\ polls \in 0 .. MaxPolls

CoreInv == CoreType /\ ContextInv /\ HeldInv /\ ChipInv /\ IrqKept

USE DEF Contexts

LEMMA InitCore == Init => CoreInv
<1>1. SUFFICES ASSUME Init PROVE CoreInv
  OBVIOUS
<1>2. /\ busy = 0 /\ selected = FALSE /\ irq_en = FALSE /\ wanted = FALSE /\ ctx = "main" /\ polls = 0
      /\ pc = [x \in Contexts |-> "idle"] /\ r = [x \in Contexts |-> FALSE]
  BY <1>1 DEF Init
<1>3. QED
  <2>r. r \in [Contexts -> BOOLEAN]
    BY <1>2, Zenon
  <2>b. selected \in BOOLEAN /\ irq_en \in BOOLEAN /\ wanted \in BOOLEAN
    BY <1>2, Zenon
  <2>n. busy \in 0 .. MaxBusy /\ polls \in 0 .. MaxPolls
    BY <1>2, FlashAssumption
  <2>p. ctx \in Contexts \cup {"off"} /\ pc \in [Contexts -> Places]
    BY <1>2 DEF Places
  <2>1. CoreType
    BY <2>r, <2>b, <2>n, <2>p DEF CoreType
  <2>2. ContextInv
    BY <1>2, FlashAssumption DEF CoreInv, ContextInv
  <2>3. HeldInv
    BY <1>2, FlashAssumption DEF CoreInv, HeldInv, CoreType
  <2>4. ChipInv
    BY <1>2, FlashAssumption DEF CoreInv, ChipInv, CoreType, ContextInv, Cmd
  <2>5. IrqKept
    BY <1>2, FlashAssumption DEF CoreInv, IrqKept, FromFlash, CoreType, ContextInv
  <2>6. QED
    BY <2>1, <2>2, <2>3, <2>4, <2>5 DEF CoreInv

LEMMA CallCore == ASSUME CoreInv, NEW x \in Contexts, Call(x) PROVE CoreInv'
  BY FlashAssumption DEF CoreInv, CoreType, ContextInv, HeldInv, ChipInv, IrqKept, FromFlash, Call, At, Goto, chip, Places, Cmd

LEMMA BeginCore == ASSUME CoreInv, NEW x \in Contexts, Begin(x) PROVE CoreInv'
  BY FlashAssumption DEF CoreInv, CoreType, ContextInv, HeldInv, ChipInv, IrqKept, FromFlash, Begin, At, Goto, chip, Places, Cmd

LEMMA ReadRegisterCore == ASSUME CoreInv, NEW x \in Contexts, ReadRegister(x) PROVE CoreInv'
  BY FlashAssumption DEF CoreInv, CoreType, ContextInv, HeldInv, ChipInv, IrqKept, FromFlash, ReadRegister, Reads, At, Goto, chip, Places, Cmd

LEMMA WriteEnableCore == ASSUME CoreInv, NEW x \in Contexts, WriteEnable(x) PROVE CoreInv'
  BY FlashAssumption DEF CoreInv, CoreType, ContextInv, HeldInv, ChipInv, IrqKept, FromFlash, WriteEnable, At, Goto, Places, Cmd

LEMMA CommandCore == ASSUME CoreInv, NEW x \in Contexts, Command(x) PROVE CoreInv'
  BY FlashAssumption DEF CoreInv, CoreType, ContextInv, HeldInv, ChipInv, IrqKept, FromFlash, Command, At, Goto, Places, Cmd

LEMMA WaitDoneCore == ASSUME CoreInv, NEW x \in Contexts, WaitDone(x) PROVE CoreInv'
<1>1. /\ ctx = x /\ ctx' = x /\ pc[x] = "wait" /\ irq_en' = irq_en /\ wanted' = wanted /\ r' = r
      /\ call' = call
  BY DEF WaitDone, At
<1>2. busy + polls <= MaxBusy /\ busy \in 0 .. MaxBusy /\ polls \in 0 .. MaxPolls
  BY <1>1 DEF CoreInv, ChipInv, CoreType
<1>3. CASE busy = 0
  <2>1. selected' = FALSE /\ pc' = [pc EXCEPT ![x] = "restore"] /\ busy' = busy /\ polls' = polls
    BY <1>3, <1>2, FlashAssumption DEF WaitDone, Goto
  <2>2. QED
    BY <1>1, <1>2, <1>3, <2>1 DEF CoreInv, CoreType, ContextInv, HeldInv, ChipInv, IrqKept, FromFlash, Places
<1>4. CASE busy # 0
  <2>1. busy' = busy - 1 /\ polls' = polls + 1 /\ selected' = selected /\ pc' = pc
    BY <1>4, <1>2, FlashAssumption DEF WaitDone, GivesUp
  <2>2. busy' \in 0 .. MaxBusy /\ polls' \in 0 .. MaxPolls /\ busy' + polls' <= MaxBusy
    BY <1>2, <1>4, <2>1, FlashAssumption
  <2>3. QED
    BY <1>1, <2>1, <2>2 DEF CoreInv, CoreType, ContextInv, HeldInv, ChipInv, IrqKept, FromFlash, Places
<1>5. QED
  BY <1>3, <1>4

LEMMA RestoreCore == ASSUME CoreInv, NEW x \in Contexts, Restore(x) PROVE CoreInv'
<1>1. /\ ctx = x /\ ctx' = x /\ pc[x] = "restore" /\ irq_en' = r[x] /\ wanted' = wanted
      /\ busy' = busy /\ selected' = selected /\ r' = [r EXCEPT ![x] = FALSE] /\ polls' = 0
  BY DEF Restore, Restored, At, chip
<1>2. pc' = [pc EXCEPT ![x] = "idle"] \/ pc' = [pc EXCEPT ![x] = "begin"]
  BY DEF Restore, Goto
<1>3. PICK p \in {"idle", "begin"} : pc' = [pc EXCEPT ![x] = p]
  BY <1>2
<1>4. r[x] = wanted
  BY <1>1 DEF CoreInv, HeldInv
<1>5. QED
  <2>1. CoreType'
    BY <1>1, <1>3, <1>4, FlashAssumption DEF CoreInv, CoreType, Places
  <2>2. ContextInv'
    BY <1>1, <1>3, <1>4, FlashAssumption DEF CoreInv, ContextInv
  <2>3. HeldInv'
    BY <1>1, <1>3, <1>4, FlashAssumption DEF CoreInv, HeldInv, CoreType
  <2>4. ChipInv'
    BY <1>1, <1>3, <1>4, FlashAssumption DEF CoreInv, ChipInv, CoreType, ContextInv, Cmd
  <2>5. IrqKept'
    BY <1>1, <1>3, <1>4, FlashAssumption DEF CoreInv, IrqKept, FromFlash, CoreType, ContextInv
  <2>6. QED
    BY <2>1, <2>2, <2>3, <2>4, <2>5 DEF CoreInv

LEMMA ProgramCore == ASSUME CoreInv, Interrupt \/ IsrReturn \/ SetIrq PROVE CoreInv'
<1>1. CASE Interrupt
  BY <1>1 DEF CoreInv, CoreType, ContextInv, HeldInv, ChipInv, IrqKept, FromFlash, Places, Interrupt, chip, driver, Cmd
<1>2. CASE IsrReturn
  BY <1>2 DEF CoreInv, CoreType, ContextInv, HeldInv, ChipInv, IrqKept, FromFlash, Places, IsrReturn, At, chip, driver, Cmd
<1>3. CASE SetIrq
  BY <1>3 DEF CoreInv, CoreType, ContextInv, HeldInv, ChipInv, IrqKept, FromFlash, Places, SetIrq, At, chip, driver, Cmd
<1>4. QED
  BY <1>1, <1>2, <1>3

LEMMA PowerLossCore == ASSUME CoreInv, PowerLoss PROVE CoreInv'
<1>1. /\ busy' = 0 /\ selected' = FALSE /\ irq_en' = FALSE /\ wanted' = FALSE /\ ctx' = "off" /\ polls' = 0
      /\ pc' = [x \in Contexts |-> "idle"] /\ r' = [x \in Contexts |-> FALSE]
  BY DEF PowerLoss
<1>2. QED
  <2>r. r' \in [Contexts -> BOOLEAN]
    BY <1>1, Zenon
  <2>b. selected' \in BOOLEAN /\ irq_en' \in BOOLEAN /\ wanted' \in BOOLEAN
    BY <1>1, Zenon
  <2>n. busy' \in 0 .. MaxBusy /\ polls' \in 0 .. MaxPolls
    BY <1>1, FlashAssumption
  <2>p. ctx' \in Contexts \cup {"off"} /\ pc' \in [Contexts -> Places]
    BY <1>1 DEF Places
  <2>1. CoreType'
    BY <2>r, <2>b, <2>n, <2>p DEF CoreType
  <2>2. ContextInv'
    BY <1>1, FlashAssumption DEF CoreInv, ContextInv
  <2>3. HeldInv'
    BY <1>1, FlashAssumption DEF CoreInv, HeldInv, CoreType
  <2>4. ChipInv'
    BY <1>1, FlashAssumption DEF CoreInv, ChipInv, CoreType, ContextInv, Cmd
  <2>5. IrqKept'
    BY <1>1, FlashAssumption DEF CoreInv, IrqKept, FromFlash, CoreType, ContextInv
  <2>6. QED
    BY <2>1, <2>2, <2>3, <2>4, <2>5 DEF CoreInv

LEMMA PowerOnCore == ASSUME CoreInv, PowerOn PROVE CoreInv'
<1>1. /\ ctx = "off" /\ ctx' = "main" /\ irq_en' = irq_en /\ wanted' = wanted
      /\ busy' = busy /\ selected' = selected /\ pc' = pc /\ r' = r /\ polls' = polls /\ call' = call
  BY DEF PowerOn, chip, driver
<1>2. QED
  <2>1. CoreType'
    BY <1>1 DEF CoreInv, CoreType, Places
  <2>2. ContextInv'
    BY <1>1 DEF CoreInv, ContextInv
  <2>3. HeldInv'
    BY <1>1 DEF CoreInv, HeldInv, CoreType
  <2>4. ChipInv'
    BY <1>1 DEF CoreInv, ChipInv, CoreType, ContextInv, Cmd
  <2>5. IrqKept'
    BY <1>1 DEF CoreInv, IrqKept, FromFlash, CoreType, ContextInv
  <2>6. QED
    BY <2>1, <2>2, <2>3, <2>4, <2>5 DEF CoreInv

LEMMA ReadByteCore ==
  ASSUME CoreInv, call \in [Contexts -> CallType], NEW x \in Contexts, ReadByte(x)
  PROVE  CoreInv'
<1>1. /\ ctx = x /\ ctx' = x /\ pc[x] = "send" /\ irq_en' = irq_en /\ wanted' = wanted /\ r' = r
      /\ busy' = busy /\ polls' = polls /\ Cmd(x) = "read"
  BY DEF ReadByte, At
<1>2. Cmd(x)' = "read"
  <2>1. call'[x].cmds = call[x].cmds
    BY DEF ReadByte, CallType
  <2>2. QED
    BY <1>1, <2>1 DEF Cmd
<1>3. CASE Len(call[x].buf) > 1
  <2>a. pc' = pc /\ selected' = TRUE
    BY <1>3 DEF ReadByte
  <2>1. CoreType'
    BY <1>1, <1>2, <2>a DEF CoreInv, CoreType, Places
  <2>2. ContextInv'
    BY <1>1, <1>2, <2>a DEF CoreInv, ContextInv
  <2>3. HeldInv'
    BY <1>1, <1>2, <2>a DEF CoreInv, HeldInv, CoreType
  <2>4. ChipInv'
    BY <1>1, <1>2, <2>a DEF CoreInv, ChipInv, CoreType, ContextInv, Cmd
  <2>5. IrqKept'
    BY <1>1, <1>2, <2>a DEF CoreInv, IrqKept, FromFlash, CoreType, ContextInv
  <2>6. QED
    BY <2>1, <2>2, <2>3, <2>4, <2>5 DEF CoreInv
<1>4. CASE ~(Len(call[x].buf) > 1)
  <2>a. pc' = [pc EXCEPT ![x] = "restore"] /\ selected' = FALSE
    BY <1>4 DEF ReadByte, Goto
  <2>1. CoreType'
    BY <1>1, <1>2, <2>a DEF CoreInv, CoreType, Places
  <2>2. ContextInv'
    BY <1>1, <1>2, <2>a DEF CoreInv, ContextInv
  <2>3. HeldInv'
    BY <1>1, <1>2, <2>a DEF CoreInv, HeldInv, CoreType
  <2>4. ChipInv'
    BY <1>1, <1>2, <2>a DEF CoreInv, ChipInv, CoreType, ContextInv, Cmd
  <2>5. IrqKept'
    BY <1>1, <1>2, <2>a DEF CoreInv, IrqKept, FromFlash, CoreType, ContextInv
  <2>6. QED
    BY <2>1, <2>2, <2>3, <2>4, <2>5 DEF CoreInv
<1>5. QED
  BY <1>3, <1>4

----------------------------------------------------------------------------
(* Types.                                                                  *)

Running == {"begin", "send", "command", "wait"}
Writes == {"program", "erase", "write_status", "write_config"}

\* What a command needs, and what the one before has left it.
CommandInv ==
    \A x \in Contexts :
      /\ call[x].bits \subseteq call[x].mask
      /\ pc[x] # "idle" => call[x].cmds # <<>>
      /\ pc[x] \in {"command", "wait"} => Cmd(x) \in Writes
      /\ pc[x] \in Running /\ Cmd(x) = "read" => InRange(call[x])
      /\ pc[x] \in Running /\ Cmd(x) \in {"read_high", "write_status"} => call[x].value \subseteq StatusBits
      /\ pc[x] \in Running /\ Cmd(x) = "write_config" => call[x].value \subseteq {Wps} \cup OtherConfig
      /\ pc[x] = "restore" /\ Cmd(x) \in {"read_low", "read_high"} => call[x].value \subseteq StatusBits
      /\ pc[x] = "restore" /\ Cmd(x) = "read_config" => call[x].value \subseteq {Wps} \cup OtherConfig

DataType ==
    /\ nv \in NvType /\ goal \in NvType /\ wel \in BOOLEAN
    /\ call \in [Contexts -> CallType] /\ got \in [Contexts -> Seq(Byte)] /\ locked \subseteq Cells

IInv == CoreInv /\ DataType /\ CommandInv

Follows ==
    [read_low |-> {"read_high", "write_status"}, read_high |-> {"write_status"},
     read_config |-> {"write_config"}, write_config |-> {"read_low"},
     read |-> {}, program |-> {}, erase |-> {}, write_status |-> {}]

LEMMA ListTail ==
  ASSUME NEW l \in Lists, l # <<>>
  PROVE  /\ Tail(l) \in Lists /\ Head(l) \in DOMAIN Follows
         /\ Tail(l) # <<>> => Head(Tail(l)) \in Follows[Head(l)]
<1>1. ASSUME NEW c \in {"read", "program", "erase", "write_status"}, l = <<c>>
      PROVE  Tail(l) \in Lists /\ Head(l) \in DOMAIN Follows /\ Tail(l) = <<>>
  BY <1>1 DEF Lists, Follows
<1>2. CASE l = <<"read_low", "write_status">>
  BY <1>2 DEF Lists, Follows
<1>3. CASE l = <<"read_high", "write_status">>
  BY <1>3 DEF Lists, Follows
<1>4. CASE l = <<"read_low", "read_high", "write_status">>
  BY <1>4 DEF Lists, Follows
<1>5. CASE l = <<"write_config", "read_low", "read_high", "write_status">>
  BY <1>5 DEF Lists, Follows
<1>6. CASE l = <<"read_config", "write_config", "read_low", "read_high", "write_status">>
  BY <1>6 DEF Lists, Follows
<1>7. QED
  BY <1>1, <1>2, <1>3, <1>4, <1>5, <1>6 DEF Lists

LEMMA QuietType == Quiet \in CallType
<1>1. <<>> \in Lists /\ <<>> \in Seq(Byte) /\ 0 \in Nat /\ All \in SUBSET All
  BY DEF Lists
<1>2. {} \in SUBSET StatusBits /\ {} \in SUBSET (StatusBits \cup {Wps} \cup OtherConfig)
  OBVIOUS
<1>3. QED
  BY <1>1, <1>2 DEF Quiet, CallType

LEMMA InitData == Init => DataType /\ CommandInv
<1>1. SUFFICES ASSUME Init PROVE DataType /\ CommandInv
  OBVIOUS
<1>2. nv \in NvType
  <2>1. [c \in Cells |-> Bits] \in [Cells -> Byte]
    BY DEF Byte
  <2>2. SUBSET (StatusBits \ (BpBits \cup {OtpLock})) \subseteq SUBSET StatusBits
    OBVIOUS
  <2>3. QED
    BY <1>1, <2>1, <2>2 DEF Init, NvType
<1>3. Quiet \in CallType
  BY QuietType
<1>4. DataType
  <2>1. wel \in BOOLEAN
    BY <1>1, Zenon DEF Init
  <2>2. call \in [Contexts -> CallType]
    BY <1>1, <1>3 DEF Init
  <2>3. got \in [Contexts -> Seq(Byte)]
    <3>1. <<>> \in Seq(Byte)
      OBVIOUS
    <3>2. QED
      BY <1>1, <3>1 DEF Init
  <2>4. goal \in NvType /\ locked \subseteq Cells
    BY <1>1, <1>2 DEF Init
  <2>5. QED
    BY <1>2, <2>1, <2>2, <2>3, <2>4 DEF DataType
<1>5. CommandInv
  BY <1>1 DEF Init, CommandInv, Quiet, Running
<1>6. QED
  BY <1>4, <1>5

LEMMA CallData == ASSUME IInv, NEW x \in Contexts, Call(x) PROVE DataType' /\ CommandInv'
  BY CallsAssumption DEF IInv, CoreInv, CoreType, DataType, CommandInv, Call, At, Goto, chip, Cmd, Running, Writes, Places

LEMMA BeginData == ASSUME IInv, NEW x \in Contexts, Begin(x) PROVE DataType' /\ CommandInv'
  BY DEF IInv, CoreInv, CoreType, DataType, CommandInv, Begin, At, Goto, chip, Cmd, Running, Writes, Places

LEMMA Writing ==
  ASSUME IInv, NEW x \in Contexts, pc[x] # "idle", ~Reads(x), Cmd(x) # "read"
  PROVE  Cmd(x) \in Writes
<1>1. call[x].cmds \in Lists /\ call[x].cmds # <<>>
  BY DEF IInv, DataType, CommandInv, CallType
<1>2. QED
  BY <1>1, ListTail DEF Cmd, Reads, Writes, Follows

LEMMA WriteEnableData == ASSUME IInv, NEW x \in Contexts, WriteEnable(x) PROVE DataType' /\ CommandInv'
<1>1. Cmd(x) \in Writes
  BY Writing DEF WriteEnable, At
<1>2. DataType'
  BY DEF IInv, CoreInv, CoreType, DataType, WriteEnable
<1>3. CommandInv'
  BY <1>1 DEF IInv, CoreInv, CoreType, CommandInv, WriteEnable, At, Goto, Cmd, Running, Places, Writes
<1>4. QED
  BY <1>2, <1>3

LEMMA ReadRegisterData == ASSUME IInv, NEW x \in Contexts, ReadRegister(x) PROVE DataType' /\ CommandInv'
<1> DEFINE value == call'[x].value
<1>1. /\ pc[x] = "send" /\ pc' = [pc EXCEPT ![x] = "restore"] /\ Reads(x) /\ chip' = chip
      /\ locked' = locked /\ got' = got
  BY DEF ReadRegister, At, Goto
<1>2. PICK v : call' = [call EXCEPT ![x].value = v]
                /\ v = CASE Cmd(x) = "read_config" -> nv.config
                         [] Cmd(x) = "read_low"    -> nv.status \cap LowBits
                         [] Cmd(x) = "read_high"   -> call[x].value \cup (nv.status \cap HighBits)
  BY DEF ReadRegister, IInv, DataType
<1>3. nv.config \subseteq {Wps} \cup OtherConfig /\ nv.status \subseteq StatusBits
  BY DEF IInv, DataType, NvType
<1>4. /\ Cmd(x) = "read_config" => v \subseteq {Wps} \cup OtherConfig
      /\ Cmd(x) \in {"read_low", "read_high"} => v \subseteq StatusBits
  BY <1>1, <1>2, <1>3 DEF IInv, CommandInv, Running
<1>5. v \subseteq StatusBits \cup {Wps} \cup OtherConfig
  BY <1>1, <1>4 DEF Reads
<1>6. DataType'
  BY <1>1, <1>2, <1>5 DEF IInv, DataType, CallType, chip
<1>7. call'[x].cmds = call[x].cmds /\ call'[x].value = v /\ call'[x].bits = call[x].bits
      /\ call'[x].mask = call[x].mask
  BY <1>2 DEF IInv, DataType, CallType
<1>8. CommandInv'
  BY <1>1, <1>2, <1>4, <1>7 DEF IInv, CoreInv, CoreType, CommandInv, Running, Cmd, Places, chip
<1>9. QED
  BY <1>6, <1>8

LEMMA ReadByteData == ASSUME IInv, NEW x \in Contexts, ReadByte(x) PROVE DataType' /\ CommandInv'
<1>1. /\ pc[x] = "send" /\ Cmd(x) = "read" /\ nv' = nv /\ goal' = goal /\ wel' = wel /\ locked' = locked
      /\ got' = [got EXCEPT ![x] = Append(@, nv.mem[call[x].at])]
      /\ call' = [call EXCEPT ![x].at = @ + 1, ![x].buf = Tail(@)]
  BY DEF ReadByte, At
<1>2. InRange(call[x]) /\ call[x] \in CallType
  BY <1>1 DEF IInv, CommandInv, DataType, Running
<1>3. call[x].at \in Cells /\ call[x].buf \in Seq(Byte) /\ Tail(call[x].buf) \in Seq(Byte)
      /\ Len(Tail(call[x].buf)) = Len(call[x].buf) - 1 /\ call[x].at \in Nat
  BY <1>2, FlashAssumption DEF InRange, CallType, Cells, Main, Otp
<1>4. nv.mem[call[x].at] \in Byte
  BY <1>3 DEF IInv, DataType, NvType
<1>5. /\ call'[x].at = call[x].at + 1 /\ call'[x].buf = Tail(call[x].buf) /\ call'[x].cmds = call[x].cmds
      /\ call'[x].value = call[x].value /\ call'[x].bits = call[x].bits /\ call'[x].mask = call[x].mask
      /\ call' \in [Contexts -> CallType]
  <2>1. call \in [Contexts -> CallType]
    BY DEF IInv, DataType
  <2>2. PICK k \in CallType : k = call[x]
    BY <1>2
  <2>3. PICK next : next = [k EXCEPT !.at = @ + 1, !.buf = Tail(@)]
    OBVIOUS
  <2>4. call' = [call EXCEPT ![x] = next]
    BY <1>1, <2>2, <2>3
  <2>5. call'[x] = next /\ \A y \in Contexts : y # x => call'[y] = call[y]
    BY <2>1, <2>4
  <2>6. /\ next.at = k.at + 1 /\ next.buf = Tail(k.buf) /\ next.cmds = k.cmds
        /\ next.value = k.value /\ next.bits = k.bits /\ next.mask = k.mask
    BY <2>3 DEF CallType
  <2>7. k.at \in Nat /\ k.at + 1 \in Nat /\ Tail(k.buf) \in Seq(Byte)
    BY <1>3, <2>2
  <2>8. next \in CallType
    BY <2>3, <2>7 DEF CallType
  <2>9. QED
    BY <2>1, <2>2, <2>4, <2>5, <2>6, <2>8
<1>6. DataType'
  BY <1>1, <1>4, <1>5 DEF IInv, DataType
<1>7. Len(call[x].buf) > 1 => InRange(call'[x]) /\ pc' = pc
  <2>1. ASSUME Len(call[x].buf) > 1
        PROVE  Len(call'[x].buf) > 0 /\ call'[x].at + Len(call'[x].buf) <= FlashSize + OtpSize
    BY <2>1, <1>2, <1>3, <1>5, FlashAssumption DEF InRange
  <2>2. ASSUME Len(call[x].buf) > 1 PROVE pc' = pc
    BY <2>2 DEF ReadByte
  <2>3. QED
    BY <2>1, <2>2 DEF InRange
<1>8. ~(Len(call[x].buf) > 1) => pc' = [pc EXCEPT ![x] = "restore"]
  BY DEF ReadByte, Goto
<1>9. \A y \in Contexts : y # x => call'[y] = call[y] /\ pc'[y] = pc[y]
  BY <1>1, <1>7, <1>8 DEF IInv, DataType, CoreInv, CoreType
<1>10. CommandInv'
  BY <1>1, <1>5, <1>7, <1>8, <1>9 DEF IInv, CoreInv, CoreType, CommandInv, Running, Cmd, Places, Writes, InRange
<1>11. QED
  BY <1>6, <1>10

LEMMA ChunkIn ==
  ASSUME NEW k \in CallType
  PROVE  Chunk(k) \in 0 .. Len(k.buf) /\ Page(k.at) \in Nat \ {0}
  BY FlashAssumption DEF Chunk, Page, CallType

LEMMA EffectType ==
  ASSUME nv \in NvType, NEW k \in CallType, k.cmds # <<>>, Head(k.cmds) \in Writes,
         Head(k.cmds) = "write_status" => k.value \subseteq StatusBits,
         Head(k.cmds) = "write_config" => k.value \subseteq {Wps} \cup OtherConfig
  PROVE  Effect(k) \in NvType
<1>1. CASE Head(k.cmds) = "program"
  <2>1. Programmed(k) \in [Cells -> Byte]
    BY DEF Programmed, NvType, Byte
  <2>2. QED
    BY <1>1, <2>1 DEF Effect, NvType
<1>2. CASE Head(k.cmds) = "erase"
  <2>1. [c \in Cells |-> IF c \in Touched(k) THEN Bits ELSE nv.mem[c]] \in [Cells -> Byte]
    BY DEF NvType, Byte
  <2>2. QED
    BY <1>2, <2>1 DEF Effect, NvType
<1>3. CASE Head(k.cmds) = "write_status"
  <2>1. NewStatus(k) \cup (nv.status \cap {OtpLock}) \in SUBSET StatusBits
    BY <1>3 DEF NewStatus, NvType, CallType
  <2>2. QED
    BY <1>3, <2>1 DEF Effect, NvType
<1>4. CASE Head(k.cmds) = "write_config"
  BY <1>4 DEF Effect, NvType
<1>5. QED
  BY <1>1, <1>2, <1>3, <1>4 DEF Writes

LEMMA CommandData == ASSUME IInv, NEW x \in Contexts, Command(x) PROVE DataType' /\ CommandInv'
<1>1. pc[x] = "command" /\ Cmd(x) \in Writes /\ call[x] \in CallType /\ call[x].cmds # <<>>
  BY DEF IInv, CommandInv, DataType, Command, At
<1>2. Effect(call[x]) \in NvType
  BY <1>1, EffectType DEF IInv, CommandInv, DataType, Running, Cmd
<1>3. nv' \in NvType /\ goal' \in NvType
  BY <1>2 DEF IInv, DataType, Command
<1>4. DataType'
  BY <1>3 DEF IInv, DataType, Command
<1>5. CommandInv'
  BY <1>1 DEF IInv, CoreInv, CoreType, CommandInv, Command, At, Goto, Cmd, Running, Places, Writes
<1>6. QED
  BY <1>4, <1>5

LEMMA WaitDoneData == ASSUME IInv, NEW x \in Contexts, WaitDone(x) PROVE DataType' /\ CommandInv'
<1>1. pc[x] = "wait" /\ Cmd(x) \in Writes /\ call' = call
      /\ (pc' = pc \/ pc' = [pc EXCEPT ![x] = "restore"]) /\ (nv' = nv \/ nv' = goal)
  BY DEF IInv, CommandInv, WaitDone, At, Goto
<1>2. DataType'
  BY <1>1 DEF IInv, DataType, WaitDone
<1>3. CommandInv'
  BY <1>1 DEF IInv, CoreInv, CoreType, CommandInv, Cmd, Running, Places, Writes
<1>4. QED
  BY <1>2, <1>3

LEMMA RestType ==
  ASSUME NEW k \in CallType, k.cmds # <<>>
  PROVE  /\ Rest(k) \in CallType
         /\ Rest(k).bits = k.bits /\ Rest(k).mask = k.mask /\ Rest(k).value = k.value
         /\ \/ Rest(k).cmds = k.cmds /\ Head(k.cmds) = "program"
            \/ Rest(k).cmds = Tail(k.cmds)
<1>1. CASE Head(k.cmds) = "program" /\ Chunk(k) < Len(k.buf)
  <2>1. k.at + Chunk(k) \in Nat
    BY ChunkIn DEF CallType
  <2>2. SubSeq(k.buf, Chunk(k) + 1, Len(k.buf)) \in Seq(Byte)
    <3>1. k.buf \in Seq(Byte) /\ Chunk(k) \in Nat
      BY ChunkIn DEF CallType
    <3>2. \A n \in Chunk(k) + 1 .. Len(k.buf) : n \in 1 .. Len(k.buf)
      BY <3>1
    <3>3. QED
      BY <3>1, <3>2, SubSeqProperties
  <2>3. Rest(k) = [k EXCEPT !.at = k.at + Chunk(k), !.buf = SubSeq(k.buf, Chunk(k) + 1, Len(k.buf))]
    BY <1>1 DEF Rest
  <2>4. QED
    BY <1>1, <2>1, <2>2, <2>3 DEF CallType
<1>2. CASE ~(Head(k.cmds) = "program" /\ Chunk(k) < Len(k.buf))
  <2>1. Rest(k) = [k EXCEPT !.cmds = Tail(k.cmds)]
    BY <1>2 DEF Rest
  <2>2. Tail(k.cmds) \in Lists
    BY ListTail DEF CallType
  <2>3. QED
    BY <2>1, <2>2 DEF CallType
<1>3. QED
  BY <1>1, <1>2

\* The command that comes next finds the value its predecessor read.
LEMMA NextCommand ==
  ASSUME IInv, NEW x \in Contexts, pc[x] = "restore", Rest(call[x]).cmds # <<>>,
         NEW k, k = Rest(call[x])
  PROVE  /\ Head(k.cmds) # "read"
         /\ Head(k.cmds) \in {"read_high", "write_status"} => k.value \subseteq StatusBits
         /\ Head(k.cmds) = "write_config" => k.value \subseteq {Wps} \cup OtherConfig
<1>1. call[x] \in CallType /\ call[x].cmds # <<>> /\ call[x].cmds \in Lists
  BY DEF IInv, CommandInv, DataType, CallType
<1>2. /\ k.value = call[x].value
      /\ \/ k.cmds = call[x].cmds /\ Cmd(x) = "program"
         \/ k.cmds = Tail(call[x].cmds)
  BY <1>1, RestType DEF Cmd
<1>3. CASE k.cmds = call[x].cmds /\ Cmd(x) = "program"
  BY <1>3 DEF Cmd
<1>4. CASE k.cmds = Tail(call[x].cmds)
  <2>1. Cmd(x) \in DOMAIN Follows /\ Head(k.cmds) \in Follows[Cmd(x)]
    BY <1>1, <1>4, ListTail DEF Cmd
  <2>2. /\ Cmd(x) \in {"read_low", "read_high"} => call[x].value \subseteq StatusBits
        /\ Cmd(x) = "read_config" => call[x].value \subseteq {Wps} \cup OtherConfig
    BY DEF IInv, CommandInv
  <2>3. QED
    BY <1>2, <2>1, <2>2 DEF Follows
<1>5. QED
  BY <1>2, <1>3, <1>4

LEMMA NowLockedType == ASSUME IInv, NEW x \in Contexts PROVE NowLocked(call[x]) \subseteq Cells
<1>1. /\ call[x].mask = BpBits => call[x].bits \in SUBSET BpBits
      /\ locked \subseteq Cells
  BY DEF IInv, DataType, CommandInv
<1>2. Area \in [SUBSET BpBits -> SUBSET Main] /\ Main \subseteq Cells /\ Otp \subseteq Cells
  BY FlashAssumption DEF Cells
<1>3. call[x].mask = BpBits => Area[call[x].bits] \subseteq Main
  BY <1>1, <1>2
<1>4. QED
  BY <1>1, <1>2, <1>3 DEF NowLocked

LEMMA RestoreData == ASSUME IInv, NEW x \in Contexts, Restore(x) PROVE DataType' /\ CommandInv'
<1> DEFINE rest == Rest(call[x])
<1>1. pc[x] = "restore" /\ call[x] \in CallType /\ call[x].cmds # <<>> /\ chip' = chip
  BY DEF IInv, CommandInv, DataType, Restore, At
<1>2. rest \in CallType /\ rest.bits \subseteq rest.mask
  BY <1>1, RestType DEF IInv, CommandInv
<1>3. <<>> \in Seq(Byte) /\ Quiet \in CallType /\ Quiet.bits \subseteq Quiet.mask
  BY QuietType DEF Quiet
<1>4. CASE rest.cmds = <<>>
  <2>1. /\ call' = [call EXCEPT ![x] = Quiet] /\ pc' = [pc EXCEPT ![x] = "idle"]
        /\ locked' = NowLocked(call[x]) /\ got' = [got EXCEPT ![x] = <<>>]
    BY <1>4 DEF Restore, Goto
  <2>2. DataType'
    BY <1>1, <1>3, <2>1, NowLockedType DEF IInv, DataType, chip
  <2>3. CommandInv'
    BY <1>3, <2>1 DEF IInv, CoreInv, CoreType, DataType, CommandInv, Running, Cmd, Places
  <2>4. QED
    BY <2>2, <2>3
<1>5. CASE rest.cmds # <<>>
  <2>1. /\ call' = [call EXCEPT ![x] = rest] /\ pc' = [pc EXCEPT ![x] = "begin"]
        /\ locked' = locked /\ got' = got
    BY <1>5 DEF Restore, Goto
  <2>2. DataType'
    BY <1>1, <1>2, <2>1 DEF IInv, DataType, chip
  <2>3. /\ Head(rest.cmds) # "read"
        /\ Head(rest.cmds) \in {"read_high", "write_status"} => rest.value \subseteq StatusBits
        /\ Head(rest.cmds) = "write_config" => rest.value \subseteq {Wps} \cup OtherConfig
    BY <1>1, <1>5, NextCommand
  <2>4. call'[x] = rest /\ pc'[x] = "begin"
        /\ \A y \in Contexts : y # x => call'[y] = call[y] /\ pc'[y] = pc[y]
    BY <2>1 DEF IInv, CoreInv, CoreType, DataType
  <2>5. CommandInv'
    BY <1>2, <1>5, <2>3, <2>4 DEF IInv, CommandInv, Running, Cmd
  <2>6. QED
    BY <2>2, <2>5
<1>6. QED
  BY <1>4, <1>5

LEMMA ProgramData ==
  ASSUME IInv, Interrupt \/ IsrReturn \/ SetIrq \/ PowerOn
  PROVE  DataType' /\ CommandInv'
<1>1. chip' = chip /\ driver' = driver /\ locked' = locked
  BY DEF Interrupt, IsrReturn, SetIrq, PowerOn
<1>2. QED
  BY <1>1 DEF IInv, DataType, CommandInv, Cmd, chip, driver

LEMMA PowerLossData == ASSUME IInv, PowerLoss PROVE DataType' /\ CommandInv'
<1>1. nv' \in NvType
  <2>1. Torn \subseteq NvType
    BY DEF IInv, DataType, Torn, NvType
  <2>2. QED
    BY <2>1 DEF IInv, DataType, PowerLoss
<1>2. /\ call' = [x \in Contexts |-> Quiet] /\ got' = [x \in Contexts |-> <<>>]
      /\ pc' = [x \in Contexts |-> "idle"] /\ goal' = nv' /\ locked' = locked /\ wel' = FALSE
  BY DEF PowerLoss
<1>3. <<>> \in Seq(Byte) /\ Quiet \in CallType
  BY QuietType
<1>4. wel' \in BOOLEAN
  BY <1>2, Zenon
<1>5. DataType'
  BY <1>1, <1>2, <1>3, <1>4 DEF IInv, DataType
<1>6. CommandInv'
  BY <1>2 DEF CommandInv, Quiet, Running
<1>7. QED
  BY <1>5, <1>6

----------------------------------------------------------------------------
(* The theorems.                                                           *)

LEMMA StepInv == IInv /\ [Next]_vars => IInv'
<1>1. SUFFICES ASSUME IInv, [Next]_vars PROVE IInv'
  OBVIOUS
<1>2. CoreInv /\ \A x \in Contexts : call[x] \in CallType
  BY <1>1 DEF IInv, DataType
<1>t. call \in [Contexts -> CallType]
  BY <1>1 DEF IInv, DataType
<1>3. ASSUME NEW x \in Contexts, Step(x) PROVE IInv'
  <2>1. CASE Call(x)
    BY <1>1, <1>2, <2>1, CallCore, CallData DEF IInv
  <2>2. CASE Begin(x)
    BY <1>1, <1>2, <2>2, BeginCore, BeginData DEF IInv
  <2>3. CASE ReadRegister(x)
    BY <1>1, <1>2, <2>3, ReadRegisterCore, ReadRegisterData DEF IInv
  <2>4. CASE ReadByte(x)
    BY <1>1, <1>2, <1>t, <2>4, ReadByteCore, ReadByteData DEF IInv
  <2>5. CASE WriteEnable(x)
    BY <1>1, <1>2, <2>5, WriteEnableCore, WriteEnableData DEF IInv
  <2>6. CASE Command(x)
    BY <1>1, <1>2, <2>6, CommandCore, CommandData DEF IInv
  <2>7. CASE WaitDone(x)
    BY <1>1, <1>2, <2>7, WaitDoneCore, WaitDoneData DEF IInv
  <2>8. CASE Restore(x)
    BY <1>1, <1>2, <2>8, RestoreCore, RestoreData DEF IInv
  <2>9. QED
    BY <1>3, <2>1, <2>2, <2>3, <2>4, <2>5, <2>6, <2>7, <2>8 DEF Step
<1>4. CASE Interrupt \/ IsrReturn \/ SetIrq
  BY <1>1, <1>2, <1>4, ProgramCore, ProgramData DEF IInv
<1>5. CASE PowerLoss
  BY <1>1, <1>2, <1>5, PowerLossCore, PowerLossData DEF IInv
<1>6. CASE PowerOn
  BY <1>1, <1>2, <1>6, PowerOnCore, ProgramData DEF IInv
<1>7. CASE UNCHANGED vars
  BY <1>1, <1>7 DEF IInv, CoreInv, CoreType, ContextInv, HeldInv, ChipInv, IrqKept, FromFlash, DataType,
                    CommandInv, Cmd, vars, chip, driver
<1>8. QED
  BY <1>1, <1>3, <1>4, <1>5, <1>6, <1>7 DEF Next

LEMMA IInvHolds == Spec => []IInv
<1>1. Init => IInv
  BY InitCore, InitData DEF IInv
<1>2. QED
  BY <1>1, StepInv, PTL DEF Spec

LEMMA IInvTypeOK == IInv => TypeOK
  BY DEF IInv, CoreInv, CoreType, DataType, TypeOK, Places

LEMMA IInvXipSafe == IInv => XipSafe
<1>1. SUFFICES ASSUME IInv, FromFlash PROVE busy = 0 /\ ~selected
  BY DEF XipSafe
<1>2. ctx \in Contexts /\ pc[ctx] \in {"idle", "begin"}
  BY <1>1 DEF IInv, CoreInv, CoreType, FromFlash
<1>3. QED
  BY <1>1, <1>2 DEF IInv, CoreInv, ChipInv

\* The chip, the driver and what is observed of them keep their types, for
\* every set of calls (flash.c, flash_mid136085.c, flash_mid114485.c).
THEOREM TypeCorrect == Spec => []TypeOK
  BY IInvHolds, IInvTypeOK, PTL

\* No code is fetched from a flash that is selected or busy, however long the
\* chip takes within what flash_wait_done waits for (flash.c:90-174).
THEOREM XipCorrect == Spec => []XipSafe
  BY IInvHolds, IInvXipSafe, PTL

\* Every call leaves reg_irq_en as it found it (flash.c:116-174).
THEOREM IrqCorrect == Spec => []IrqKept
<1>1. IInv => IrqKept
  BY DEF IInv, CoreInv
<1>2. QED
  BY <1>1, IInvHolds, PTL

----------------------------------------------------------------------------
(* What each step of a call makes of the chip.                             *)

Registers == {"read_low", "read_high", "write_status", "read_config", "write_config"}
Fixed == BpBits \cup {OtpLock}

S1 == <<"write_status">>
S2 == <<"read_high", "write_status">>
S3 == <<"read_low", "read_high", "write_status">>
L2 == <<"read_low", "write_status">>
C4 == <<"write_config", "read_low", "read_high", "write_status">>
C5 == <<"read_config", "write_config", "read_low", "read_high", "write_status">>

\* A call that writes the registers is one of lock or unlock, for this chip.
OrderInv(x) ==
    pc[x] # "idle" /\ Cmd(x) \in Registers =>
      \/ /\ call[x].mask = BpBits /\ nv.mid = "P25Q40SU" /\ call[x].cmds \in {C5, C4, S3, S2, S1}
      \/ /\ call[x].mask = BpBits /\ nv.mid = "P25D09U" /\ call[x].cmds \in {L2, S1}
      \/ /\ call[x].mask = {OtpLock} /\ call[x].bits = {OtpLock}
         /\ nv.mid = "P25Q40SU" /\ call[x].cmds \in {S3, S2, S1}

After(x, this, next) ==
    (pc[x] = "restore" /\ Cmd(x) = this) \/ (pc[x] \in Running /\ Cmd(x) = next)

\* The bits that no lock is about: what was read is still what the chip has,
\* whatever the other context has written since.
ValueInv(x) ==
    /\ After(x, "read_config", "write_config") => call[x].value \ {Wps} = nv.config \ {Wps}
    /\ After(x, "read_low", "read_high") => call[x].value \ Fixed = (nv.status \cap LowBits) \ Fixed
    /\ After(x, "read_high", "write_status") => call[x].value \ Fixed = nv.status \ Fixed

\* The chip that has one status byte, and no configure register.
SmallChip == nv.mid = "P25D09U" => nv.status \ Fixed \subseteq LowBits /\ Wps \notin nv.config

\* A command was enabled, and while it lasts it is on its way to its effect.
EffectInv(x) ==
    /\ pc[x] = "command" => wel
    /\ pc[x] = "wait" /\ busy > 0 =>
         goal = Effect(call[x]) /\ Touched(call[x]) \cap Protected(nv) = {}

\* A command that is done has had its effect.
DoneInv(x) ==
    /\ ChunkDone(x) /\ Cmd(x) = "write_config" => Wps \notin nv.config
    /\ ChunkDone(x) /\ Cmd(x) = "write_status" => nv.status \cap call[x].mask = call[x].bits
    /\ pc[x] # "idle" /\ call[x].mask = BpBits /\ Cmd(x) \in {"read_low", "read_high", "write_status"} =>
         Wps \notin nv.config

\* The bytes read so far.
GotInv(x) ==
    /\ pc[x] \in {"idle", "begin"} \/ Cmd(x) # "read" => got[x] = <<>>
    /\ pc[x] \in {"send", "restore"} /\ Cmd(x) = "read" =>
         got[x] = [n \in 1 .. Len(got[x]) |-> nv.mem[call[x].at - Len(got[x]) + n - 1]]

CallInv(x) == OrderInv(x) /\ ValueInv(x) /\ EffectInv(x) /\ DoneInv(x) /\ GotInv(x)

KInv == IInv /\ SmallChip /\ \A x \in Contexts : CallInv(x)

LEMMA ListSteps ==
    /\ Head(C5) = "read_config" /\ Tail(C5) = C4 /\ Head(C4) = "write_config" /\ Tail(C4) = S3
    /\ Head(S3) = "read_low" /\ Tail(S3) = S2 /\ Head(S2) = "read_high" /\ Tail(S2) = S1
    /\ Head(L2) = "read_low" /\ Tail(L2) = S1 /\ Head(S1) = "write_status" /\ Tail(S1) = <<>>
    /\ <<>> \notin {C5, C4, S3, S2, S1, L2}
<1>1. Head(C5) = "read_config" /\ Tail(C5) = C4 /\ C5 # <<>>
  BY DEF C5, C4
<1>2. Head(C4) = "write_config" /\ Tail(C4) = S3 /\ C4 # <<>>
  BY DEF C4, S3
<1>3. Head(S3) = "read_low" /\ Tail(S3) = S2 /\ S3 # <<>>
  BY DEF S3, S2
<1>4. Head(S2) = "read_high" /\ Tail(S2) = S1 /\ S2 # <<>>
  BY DEF S2, S1
<1>5. Head(L2) = "read_low" /\ Tail(L2) = S1 /\ L2 # <<>>
  BY DEF L2, S1
<1>6. Head(S1) = "write_status" /\ Tail(S1) = <<>> /\ S1 # <<>>
  BY DEF S1
<1>7. QED
  BY <1>1, <1>2, <1>3, <1>4, <1>5, <1>6

\* What each function of lock and unlock asks for.
LEMMA LockCallsAre ==
  ASSUME NEW k \in LockCalls
  PROVE  \/ k.mask = BpBits /\ k.on = {"P25Q40SU"} /\ k.cmds = C5
         \/ k.mask = BpBits /\ k.on = {"P25D09U"} /\ k.cmds = L2
         \/ k.mask = {OtpLock} /\ k.bits = {OtpLock} /\ k.on = {"P25Q40SU"} /\ k.cmds = S3
<1>1. CASE \E block \in SUBSET BpBits : k = flash_lock_mid136085(block)
  <2>1. PICK block \in SUBSET BpBits : k = flash_lock_mid136085(block)
    BY <1>1
  <2>2. k.mask = BpBits /\ k.on = {"P25Q40SU"}
        /\ k.cmds = <<"read_config", "write_config">> \o <<"read_low", "read_high", "write_status">>
    BY <2>1 DEF flash_lock_mid136085, flash_write_status_mid136085, Quiet
  <2>3. k.cmds = C5
    <3> DEFINE l == <<"read_config", "write_config">>
               m == <<"read_low", "read_high", "write_status">>
    <3>1. l \in Seq(Registers) /\ m \in Seq(Registers) /\ C5 \in Seq(Registers) /\ Len(l) = 2 /\ Len(m) = 3 /\ Len(C5) = 5
      BY DEF C5, Registers
    <3>2. /\ l \o m \in Seq(Registers) /\ Len(l \o m) = 5
          /\ \A i \in 1 .. 5 : (l \o m)[i] = IF i <= 2 THEN l[i] ELSE m[i - 2]
      BY <3>1, ConcatProperties
    <3>3. \A i \in 1 .. 5 : (l \o m)[i] = C5[i]
      BY <3>2 DEF C5
    <3>4. QED
      BY <2>2, <3>1, <3>2, <3>3, SeqEqual
  <2>4. QED
    BY <2>2, <2>3
<1>2. CASE \E block \in SUBSET BpBits : k = flash_lock_mid114485(block)
  BY <1>2 DEF flash_lock_mid114485, flash_write_status_mid114485, Quiet, L2
<1>3. CASE k = flash_lock_otp_mid136085({OtpLock})
  BY <1>3 DEF flash_lock_otp_mid136085, flash_write_status_mid136085, Quiet, S3
<1>4. QED
  BY <1>1, <1>2, <1>3 DEF LockCalls

\* The context that does not run is between two commands, and stays there.
LEMMA OtherWaits ==
  ASSUME CoreInv, NEW x \in Contexts, NEW y \in Contexts, y # x, ctx = x
  PROVE  pc[y] \in {"idle", "begin"}
  BY DEF CoreInv, ContextInv

LEMMA OtherStays ==
  ASSUME IInv, NEW x \in Contexts, Step(x), NEW y \in Contexts, y # x
  PROVE  ctx = x /\ ctx' = x /\ pc'[y] = pc[y] /\ call'[y] = call[y] /\ got'[y] = got[y]
<1>1. ctx = x /\ ctx' = x
  BY DEF Step, Call, Begin, ReadRegister, ReadByte, WriteEnable, Command, WaitDone, Restore, At
<1>2. pc \in [Contexts -> Places] /\ call \in [Contexts -> CallType] /\ got \in [Contexts -> Seq(Byte)]
  BY DEF IInv, CoreInv, CoreType, DataType
<1>3. \/ pc' = pc \/ \E p \in Places : pc' = [pc EXCEPT ![x] = p]
  BY DEF Step, Call, Begin, ReadRegister, ReadByte, WriteEnable, Command, WaitDone, Restore, Goto, Places
<1>4. pc'[y] = pc[y]
  BY <1>2, <1>3
<1>5. call'[y] = call[y]
  BY <1>2 DEF Step, Call, Begin, ReadRegister, ReadByte, WriteEnable, Command, WaitDone, Restore
<1>6. got'[y] = got[y]
  BY <1>2 DEF Step, Call, Begin, ReadRegister, ReadByte, WriteEnable, Command, WaitDone, Restore
<1>7. QED
  BY <1>1, <1>4, <1>5, <1>6

\* The bits no lock is about stay, and the configure register is only opened.
SameBits(v, w) ==
    /\ w.mid = v.mid /\ w.status \ Fixed = v.status \ Fixed /\ w.config \ {Wps} = v.config \ {Wps}
    /\ Wps \notin v.config => Wps \notin w.config

\* A command that writes a register finds in value what the chip has.
LEMMA EffectBits ==
  ASSUME KInv, NEW x \in Contexts, pc[x] \in {"command", "wait"}, ~ChunkDone(x)
  PROVE  SameBits(nv, Effect(call[x]))
<1>1. /\ pc[x] \in Running /\ call[x] \in CallType /\ call[x].bits \subseteq call[x].mask /\ nv \in NvType
      /\ Cmd(x) \in Writes /\ OrderInv(x) /\ ValueInv(x)
  BY DEF KInv, CallInv, IInv, DataType, CommandInv, Running
<1>2. CASE Cmd(x) \in {"program", "erase"}
  BY <1>1, <1>2 DEF Effect, Cmd, SameBits, NvType
<1>3. CASE Cmd(x) = "write_status"
  <2>1. call[x].mask \subseteq Fixed /\ call[x].value \ Fixed = nv.status \ Fixed
    BY <1>1, <1>3 DEF OrderInv, ValueInv, After, Fixed, Registers
  <2>2. Effect(call[x]) = [nv EXCEPT !.status = NewStatus(call[x]) \cup (nv.status \cap {OtpLock})]
    BY <1>3 DEF Effect, Cmd
  <2>3. (NewStatus(call[x]) \cup (nv.status \cap {OtpLock})) \ Fixed = nv.status \ Fixed
    BY <1>1, <2>1 DEF NewStatus, Fixed
  <2>4. QED
    BY <1>1, <2>2, <2>3 DEF SameBits, NvType
<1>4. CASE Cmd(x) = "write_config"
  <2>1. call[x].value \ {Wps} = nv.config \ {Wps}
    BY <1>1, <1>4 DEF ValueInv, After
  <2>2. Effect(call[x]) = [nv EXCEPT !.config = call[x].value \ {Wps}]
    BY <1>4 DEF Effect, Cmd
  <2>3. QED
    BY <1>1, <2>1, <2>2 DEF SameBits, NvType
<1>5. QED
  BY <1>1, <1>2, <1>3, <1>4 DEF Writes

\* What the chip keeps changes by the effect of the command that is sent.
LEMMA StepChip ==
  ASSUME KInv, NEW x \in Contexts, Step(x)
  PROVE  \/ nv' = nv
         \/ pc[x] = "command" /\ Command(x) /\ Accepted(call[x]) /\ nv' = Effect(call[x])
         \/ pc[x] = "wait" /\ WaitDone(x) /\ busy > 0 /\ nv' = Effect(call[x])
<1>1. CASE Command(x)
  BY <1>1 DEF Command, At
<1>2. CASE WaitDone(x)
  <2>1. pc[x] = "wait" /\ EffectInv(x) /\ busy \in 0 .. MaxBusy
    BY <1>2 DEF WaitDone, At, KInv, CallInv, IInv, CoreInv, CoreType
  <2>2. QED
    BY <1>2, <2>1, FlashAssumption DEF WaitDone, EffectInv
<1>3. QED
  BY <1>1, <1>2 DEF Step, Call, Begin, ReadRegister, ReadByte, WriteEnable, Restore, chip

LEMMA StepBits == ASSUME KInv, NEW x \in Contexts, Step(x) PROVE SameBits(nv, nv')
<1>1. CASE nv' = nv
  BY <1>1 DEF SameBits
<1>2. CASE nv' # nv
  <2>1. pc[x] \in {"command", "wait"} /\ ~ChunkDone(x) /\ nv' = Effect(call[x])
    BY <1>2, StepChip, FlashAssumption DEF ChunkDone, KInv, IInv, CoreInv, CoreType
  <2>2. QED
    BY <2>1, EffectBits
<1>3. QED
  BY <1>1, <1>2

LEMMA SmallChipStays == ASSUME SmallChip, SameBits(nv, nv') PROVE SmallChip'
  BY DEF SmallChip, SameBits

LEMMA OtherCall ==
  ASSUME KInv, NEW x \in Contexts, Step(x), NEW y \in Contexts, y # x
  PROVE  CallInv(y)'
<1>1. /\ ctx = x /\ pc'[y] = pc[y] /\ call'[y] = call[y] /\ got'[y] = got[y] /\ pc[y] \in {"idle", "begin"}
      /\ SameBits(nv, nv') /\ CallInv(y)
  BY OtherStays, OtherWaits, StepBits DEF KInv, IInv
<1>2. OrderInv(y)'
  BY <1>1 DEF CallInv, OrderInv, SameBits, Cmd
<1>3. ValueInv(y)'
  <2>1. LowBits \cap (nv'.status \ Fixed) = LowBits \cap (nv.status \ Fixed)
    BY <1>1 DEF SameBits
  <2>2. (nv'.status \cap LowBits) \ Fixed = (nv.status \cap LowBits) \ Fixed
    BY <2>1
  <2>3. QED
    BY <1>1, <2>2 DEF CallInv, ValueInv, SameBits, Cmd, After
<1>4. EffectInv(y)'
  BY <1>1 DEF EffectInv
<1>5. DoneInv(y)'
  BY <1>1 DEF CallInv, DoneInv, SameBits, Cmd, ChunkDone
<1>6. GotInv(y)'
  BY <1>1 DEF CallInv, GotInv, Cmd
<1>7. QED
  BY <1>2, <1>3, <1>4, <1>5, <1>6 DEF CallInv

LEMMA CallKeeps == ASSUME KInv, NEW x \in Contexts, Call(x) PROVE CallInv(x)'
<1>1. PICK k \in Calls[x] : nv.mid \in k.on /\ call' = [call EXCEPT ![x] = k]
  BY DEF Call
<1>2. pc[x] = "idle" /\ pc' = [pc EXCEPT ![x] = "begin"] /\ nv' = nv /\ got' = got
  BY DEF Call, At, Goto, chip
<1>3. call'[x] = k /\ pc'[x] = "begin" /\ got'[x] = got[x] /\ got[x] = <<>>
  BY <1>1, <1>2 DEF KInv, IInv, CoreInv, CoreType, DataType, CallInv, GotInv
<1>4. k \in CallType /\ Head(k.cmds) \notin {"write_status", "read_high", "write_config"}
      /\ (Head(k.cmds) \in {"read_low", "read_config"} => k \in LockCalls)
  BY CallsAssumption
<1>5. Head(k.cmds) \in Registers =>
        \/ k.mask = BpBits /\ nv.mid = "P25Q40SU" /\ k.cmds = C5
        \/ k.mask = BpBits /\ nv.mid = "P25D09U" /\ k.cmds = L2
        \/ k.mask = {OtpLock} /\ k.bits = {OtpLock} /\ nv.mid = "P25Q40SU" /\ k.cmds = S3
  BY <1>1, <1>4, LockCallsAre DEF Registers
<1>6. OrderInv(x)'
  BY <1>2, <1>3, <1>5 DEF OrderInv, Cmd
<1>7. ValueInv(x)'
  BY <1>3, <1>4 DEF ValueInv, After, Cmd
<1>8. EffectInv(x)'
  BY <1>3 DEF EffectInv
<1>9. DoneInv(x)'
  <2>1. k.mask = BpBits /\ Head(k.cmds) \in {"read_low", "read_high", "write_status"} => Wps \notin nv.config
    BY <1>5, ListSteps, FlashAssumption DEF KInv, SmallChip, Registers
  <2>2. QED
    BY <1>2, <1>3, <2>1 DEF DoneInv, ChunkDone, Cmd
<1>10. GotInv(x)'
  BY <1>3 DEF GotInv
<1>11. QED
  BY <1>6, <1>7, <1>8, <1>9, <1>10 DEF CallInv

LEMMA BeginKeeps == ASSUME KInv, NEW x \in Contexts, Begin(x) PROVE CallInv(x)'
<1>1. pc[x] = "begin" /\ pc'[x] = "send" /\ call' = call /\ nv' = nv /\ got' = got /\ CallInv(x)
  BY DEF Begin, At, Goto, chip, KInv, IInv, CoreInv, CoreType
<1>2. OrderInv(x)' /\ ValueInv(x)' /\ EffectInv(x)' /\ DoneInv(x)'
  BY <1>1 DEF CallInv, OrderInv, ValueInv, EffectInv, DoneInv, After, Running, Cmd, ChunkDone
<1>3. GotInv(x)'
  <2>1. got[x] = <<>> /\ Len(got[x]) = 0
    BY <1>1 DEF CallInv, GotInv
  <2>2. <<>> = [n \in 1 .. 0 |-> nv.mem[call[x].at - 0 + n - 1]]
    OBVIOUS
  <2>3. QED
    BY <1>1, <2>1, <2>2 DEF GotInv, Cmd
<1>4. QED
  BY <1>2, <1>3 DEF CallInv

LEMMA WriteEnableKeeps == ASSUME KInv, NEW x \in Contexts, WriteEnable(x) PROVE CallInv(x)'
<1>1. pc[x] = "send" /\ pc'[x] = "command" /\ call' = call /\ nv' = nv /\ got' = got /\ CallInv(x)
      /\ Cmd(x) # "read" /\ ctx = x
  BY DEF WriteEnable, At, Goto, KInv, IInv, CoreInv, CoreType
<1>2. OrderInv(x)' /\ ValueInv(x)' /\ DoneInv(x)' /\ GotInv(x)'
  BY <1>1 DEF CallInv, OrderInv, ValueInv, DoneInv, GotInv, After, Running, Cmd, ChunkDone
<1>3. wel'
  <2>1. busy = 0
    BY <1>1 DEF KInv, IInv, CoreInv, ChipInv
  <2>2. QED
    BY <2>1, Zenon DEF WriteEnable
<1>4. EffectInv(x)'
  BY <1>1, <1>3 DEF EffectInv
<1>5. QED
  BY <1>2, <1>4 DEF CallInv

LEMMA ReadRegisterKeeps == ASSUME KInv, NEW x \in Contexts, ReadRegister(x) PROVE CallInv(x)'
<1>1. pc[x] = "send" /\ pc'[x] = "restore" /\ nv' = nv /\ got' = got /\ CallInv(x) /\ Reads(x)
  BY DEF ReadRegister, At, Goto, chip, KInv, IInv, CoreInv, CoreType
<1>2. PICK v : call' = [call EXCEPT ![x].value = v]
                /\ v = CASE Cmd(x) = "read_config" -> nv.config
                         [] Cmd(x) = "read_low"    -> nv.status \cap LowBits
                         [] Cmd(x) = "read_high"   -> call[x].value \cup (nv.status \cap HighBits)
  BY DEF ReadRegister, KInv, IInv, DataType
<1>3. call'[x].cmds = call[x].cmds /\ call'[x].value = v /\ call'[x].bits = call[x].bits
      /\ call'[x].mask = call[x].mask
  BY <1>2 DEF KInv, IInv, DataType, CallType
<1>4. OrderInv(x)' /\ DoneInv(x)' /\ EffectInv(x)'
  BY <1>1, <1>3 DEF CallInv, OrderInv, EffectInv, DoneInv, Cmd, ChunkDone, Reads
<1>5. GotInv(x)'
  BY <1>1, <1>3 DEF CallInv, GotInv, Cmd, Reads
<1>6. ValueInv(x)'
  <2>1. CASE Cmd(x) = "read_config"
    BY <1>1, <1>2, <1>3, <2>1 DEF ValueInv, After, Cmd, Running
  <2>2. CASE Cmd(x) = "read_low"
    BY <1>1, <1>2, <1>3, <2>2 DEF ValueInv, After, Cmd, Running
  <2>3. CASE Cmd(x) = "read_high"
    <3>1. call[x].value \ Fixed = (nv.status \cap LowBits) \ Fixed /\ nv.status \subseteq StatusBits
      BY <1>1, <2>3 DEF CallInv, ValueInv, After, Running, KInv, IInv, DataType, NvType
    <3>2. v \ Fixed = nv.status \ Fixed
      BY <1>2, <2>3, <3>1 DEF StatusBits
    <3>3. QED
      BY <1>1, <1>3, <2>3, <3>2 DEF ValueInv, After, Cmd, Running
  <2>4. QED
    BY <1>1, <2>1, <2>2, <2>3 DEF Reads
<1>7. QED
  BY <1>4, <1>5, <1>6 DEF CallInv

LEMMA ReadByteKeeps == ASSUME KInv, NEW x \in Contexts, ReadByte(x) PROVE CallInv(x)'
<1> DEFINE old == got[x]
           at == call[x].at
           byte == nv.mem[call[x].at]
<1>1. /\ pc[x] = "send" /\ pc'[x] \in {"send", "restore"} /\ Cmd(x) = "read" /\ nv' = nv
      /\ got' = [got EXCEPT ![x] = Append(old, byte)]
      /\ call' = [call EXCEPT ![x].at = @ + 1, ![x].buf = Tail(@)]
  BY DEF ReadByte, At, Goto, KInv, IInv, CoreInv, CoreType
<1>2. call'[x].cmds = call[x].cmds /\ call'[x].at = at + 1 /\ at \in Nat /\ got'[x] = Append(old, byte)
  BY <1>1 DEF KInv, IInv, DataType, CallType
<1>3. OrderInv(x)' /\ ValueInv(x)' /\ EffectInv(x)' /\ DoneInv(x)'
  BY <1>1, <1>2 DEF OrderInv, ValueInv, EffectInv, DoneInv, After, Cmd, ChunkDone, Registers
<1>4. GotInv(x)'
  <2>1. InRange(call[x]) /\ call[x] \in CallType
    BY <1>1 DEF KInv, IInv, DataType, CommandInv, Running
  <2>2. at \in Cells
    BY <2>1, FlashAssumption DEF InRange, CallType, Cells, Main, Otp
  <2>3. byte \in Byte /\ old \in Seq(Byte)
    BY <2>2 DEF KInv, IInv, DataType, NvType
  <2>4. /\ Len(Append(old, byte)) = Len(old) + 1 /\ Len(old) \in Nat
        /\ Append(old, byte) = [n \in 1 .. Len(old) + 1 |-> IF n <= Len(old) THEN old[n] ELSE byte]
    BY <2>3
  <2>5. old = [n \in 1 .. Len(old) |-> nv.mem[at - Len(old) + n - 1]]
    BY <1>1 DEF KInv, CallInv, GotInv
  <2>6. \A n \in 1 .. Len(old) + 1 :
          (IF n <= Len(old) THEN old[n] ELSE byte) = nv.mem[(at + 1) - (Len(old) + 1) + n - 1]
    <3>1. SUFFICES ASSUME NEW n \in 1 .. Len(old) + 1
                   PROVE  (IF n <= Len(old) THEN old[n] ELSE byte) = nv.mem[(at + 1) - (Len(old) + 1) + n - 1]
      OBVIOUS
    <3>2. (at + 1) - (Len(old) + 1) + n - 1 = at - Len(old) + n - 1
      <4>1. ASSUME NEW a \in Nat, NEW l \in Nat, NEW i \in Int PROVE (a + 1) - (l + 1) + i - 1 = a - l + i - 1
        OBVIOUS
      <4>2. at \in Nat /\ Len(old) \in Nat /\ n \in Int
        BY <1>2, <2>4
      <4>3. QED
        BY <4>1, <4>2
    <3>3. CASE n <= Len(old)
      <4>1. n \in 1 .. Len(old)
        BY <3>3, <2>4
      <4>2. old[n] = nv.mem[at - Len(old) + n - 1]
        BY <2>5, <4>1
      <4>3. QED
        BY <3>2, <3>3, <4>2
    <3>4. CASE ~(n <= Len(old))
      <4>1. at - Len(old) + n - 1 = at
        BY <1>2, <2>4, <3>4
      <4>2. QED
        BY <3>2, <3>4, <4>1
    <3>5. QED
      BY <3>3, <3>4
  <2>7. Append(old, byte) = [n \in 1 .. Len(old) + 1 |-> nv.mem[(at + 1) - (Len(old) + 1) + n - 1]]
    BY <2>4, <2>6
  <2>8. Len(got'[x]) = Len(old) + 1 /\ call'[x].at = at + 1 /\ nv'.mem = nv.mem
    BY <1>1, <1>2, <2>4
  <2>9. got'[x] = [n \in 1 .. Len(got'[x]) |-> nv'.mem[call'[x].at - Len(got'[x]) + n - 1]]
    BY <1>2, <2>7, <2>8
  <2>10. pc'[x] \notin {"idle", "begin"} /\ Cmd(x)' = "read"
    BY <1>1, <1>2 DEF Cmd
  <2>11. QED
    BY <2>9, <2>10 DEF GotInv
<1>5. QED
  BY <1>3, <1>4 DEF CallInv

\* The registers are never refused, and hold what was written to them.
LEMMA Written ==
  ASSUME KInv, NEW x \in Contexts, pc[x] \in {"command", "wait"}
  PROVE  /\ Cmd(x) \in {"write_status", "write_config"} => Touched(call[x]) = {}
         /\ Cmd(x) = "write_config" => Wps \notin Effect(call[x]).config
         /\ Cmd(x) = "write_status" => Effect(call[x]).status \cap call[x].mask = call[x].bits
<1>1. Cmd(x) \in {"write_status", "write_config"} => Touched(call[x]) = {}
  BY DEF Touched, Cmd
<1>2. nv \in NvType
  BY DEF KInv, IInv, DataType
<1>3. ASSUME Cmd(x) = "write_config" PROVE Wps \notin Effect(call[x]).config
  BY <1>2, <1>3 DEF Effect, Cmd, NvType
<1>4. ASSUME Cmd(x) = "write_status" PROVE Effect(call[x]).status \cap call[x].mask = call[x].bits
  <2>1. Effect(call[x]).status = NewStatus(call[x]) \cup (nv.status \cap {OtpLock})
    BY <1>2, <1>4 DEF Effect, Cmd, NvType
  <2>2. call[x].bits \subseteq call[x].mask
    BY DEF KInv, IInv, CommandInv
  <2>3. call[x].mask = BpBits \/ (call[x].mask = {OtpLock} /\ call[x].bits = {OtpLock})
    BY <1>4 DEF KInv, CallInv, OrderInv, Registers
  <2>4. QED
    BY <2>1, <2>2, <2>3, FlashAssumption DEF NewStatus
<1>5. QED
  BY <1>1, <1>3, <1>4

LEMMA CommandKeeps == ASSUME KInv, NEW x \in Contexts, Command(x) PROVE CallInv(x)'
<1>1. pc[x] = "command" /\ pc'[x] = "wait" /\ call' = call /\ got' = got /\ CallInv(x) /\ ctx = x
  BY DEF Command, At, Goto, KInv, IInv, CoreInv, CoreType, CallInv
<1>2. SameBits(nv, nv') /\ busy = 0 /\ wel
  BY <1>1, StepBits DEF Step, KInv, IInv, CoreInv, ChipInv, CallInv, EffectInv
<1>3. OrderInv(x)'
  BY <1>1, <1>2 DEF CallInv, OrderInv, SameBits, Cmd
<1>4. (nv'.status \cap LowBits) \ Fixed = (nv.status \cap LowBits) \ Fixed
  <2>1. LowBits \cap (nv'.status \ Fixed) = LowBits \cap (nv.status \ Fixed)
    BY <1>2 DEF SameBits
  <2>2. QED
    BY <2>1
<1>5. ValueInv(x)'
  BY <1>1, <1>2, <1>4 DEF CallInv, ValueInv, SameBits, Cmd, After, Running
<1>6. PICK b \in 0 .. MaxBusy :
         IF Accepted(call[x])
           THEN busy' = b /\ goal' = Effect(call[x]) /\ nv' = IF b = 0 THEN Effect(call[x]) ELSE nv
           ELSE b = 0 /\ UNCHANGED <<nv, goal, busy>>
  BY DEF Command
<1>7. EffectInv(x)'
  <2>1. SUFFICES ASSUME busy' > 0
                 PROVE  goal' = Effect(call[x])' /\ (Touched(call[x]) \cap Protected(nv) = {})'
    BY <1>1 DEF EffectInv
  <2>2. Accepted(call[x]) /\ nv' = nv /\ goal' = Effect(call[x])
    BY <1>2, <1>6, <2>1
  <2>3. Effect(call[x])' = Effect(call[x])
    BY <1>1, <2>2 DEF Effect, Programmed
  <2>4. QED
    BY <1>1, <2>2, <2>3 DEF Accepted
<1>8. DoneInv(x)'
  <2>1. ASSUME busy' = 0, Cmd(x) \in {"write_status", "write_config"} PROVE nv' = Effect(call[x])
    BY <1>1, <1>2, <1>6, <2>1, Written DEF Accepted
  <2>2. QED
    BY <1>1, <1>2, <2>1, Written DEF CallInv, DoneInv, SameBits, ChunkDone, Cmd
<1>9. GotInv(x)'
  BY <1>1 DEF CallInv, GotInv, Cmd
<1>10. QED
  BY <1>3, <1>5, <1>7, <1>8, <1>9 DEF CallInv

LEMMA WaitDoneKeeps == ASSUME KInv, NEW x \in Contexts, WaitDone(x) PROVE CallInv(x)'
<1>1. pc[x] = "wait" /\ call' = call /\ got' = got /\ goal' = goal /\ CallInv(x) /\ ctx = x
      /\ busy \in 0 .. MaxBusy /\ polls \in 0 .. MaxPolls /\ busy + polls <= MaxBusy
  BY DEF WaitDone, At, KInv, IInv, CoreInv, CoreType, CallInv, ChipInv
<1>2. SameBits(nv, nv')
  BY StepBits DEF Step
<1>3. pc'[x] \in {"wait", "restore"}
  BY <1>1 DEF WaitDone, Goto, KInv, IInv, CoreInv, CoreType
<1>4. OrderInv(x)'
  BY <1>1, <1>2, <1>3 DEF CallInv, OrderInv, SameBits, Cmd
<1>5. (nv'.status \cap LowBits) \ Fixed = (nv.status \cap LowBits) \ Fixed
  <2>1. LowBits \cap (nv'.status \ Fixed) = LowBits \cap (nv.status \ Fixed)
    BY <1>2 DEF SameBits
  <2>2. QED
    BY <2>1
<1>6. Cmd(x) \in Writes
  BY <1>1 DEF KInv, IInv, CommandInv
<1>7. ValueInv(x)'
  BY <1>1, <1>2, <1>3, <1>5, <1>6 DEF CallInv, ValueInv, SameBits, Cmd, After, Running, Writes
<1>8. GotInv(x)'
  BY <1>1, <1>3, <1>6 DEF CallInv, GotInv, Cmd, Writes
<1>9. CASE busy = 0
  <2>1. nv' = nv /\ busy' = 0 /\ pc' = [pc EXCEPT ![x] = "restore"]
    BY <1>1, <1>9 DEF WaitDone, Goto
  <2>2. ChunkDone(x) /\ pc'[x] # "wait"
    BY <1>1, <1>9, <2>1 DEF ChunkDone, KInv, IInv, CoreInv, CoreType
  <2>3. EffectInv(x)' /\ DoneInv(x)'
    BY <1>1, <1>3, <2>1, <2>2 DEF CallInv, EffectInv, DoneInv, Cmd
  <2>4. QED
    BY <1>4, <1>7, <1>8, <2>3 DEF CallInv
<1>10. CASE busy # 0
  <2>1. ~GivesUp /\ busy > 0
    BY <1>1, <1>10, FlashAssumption DEF GivesUp
  <2>2. busy' = busy - 1 /\ nv' = (IF busy = 1 THEN goal ELSE nv) /\ pc' = pc
    BY <2>1 DEF WaitDone
  <2>3. goal = Effect(call[x]) /\ Touched(call[x]) \cap Protected(nv) = {}
    BY <1>1, <2>1 DEF CallInv, EffectInv
  <2>4. EffectInv(x)'
    <3>1. SUFFICES ASSUME busy' > 0
                   PROVE  goal' = Effect(call[x])' /\ (Touched(call[x]) \cap Protected(nv) = {})'
      BY <1>1, <2>2 DEF EffectInv
    <3>2. nv' = nv
      BY <1>1, <2>2, <3>1
    <3>3. Effect(call[x])' = Effect(call[x])
      BY <1>1, <3>2 DEF Effect, Programmed
    <3>4. QED
      BY <1>1, <2>3, <3>2, <3>3
  <2>5. DoneInv(x)'
    <3>1. ASSUME busy' = 0 PROVE nv' = Effect(call[x])
      BY <1>1, <2>2, <2>3, <3>1
    <3>2. QED
      BY <1>1, <1>2, <2>2, <3>1, Written DEF CallInv, DoneInv, SameBits, ChunkDone, Cmd
  <2>6. QED
    BY <1>4, <1>7, <1>8, <2>4, <2>5 DEF CallInv
<1>11. QED
  BY <1>9, <1>10

\* What is left of a call that goes on to write a register.
InOrder(x, rest) ==
    /\ rest.cmds = Tail(call[x].cmds) /\ Cmd(x) \in {"read_low", "read_high", "read_config", "write_config"}
    /\ \/ /\ call[x].mask = BpBits /\ nv.mid = "P25Q40SU" /\ call[x].cmds \in {C5, C4, S3, S2}
          /\ rest.cmds \in {C4, S3, S2, S1}
       \/ call[x].mask = BpBits /\ nv.mid = "P25D09U" /\ call[x].cmds = L2 /\ rest.cmds = S1
       \/ /\ call[x].mask = {OtpLock} /\ call[x].bits = {OtpLock} /\ nv.mid = "P25Q40SU"
          /\ call[x].cmds \in {S3, S2} /\ rest.cmds \in {S2, S1}

LEMMA RestFollows ==
  ASSUME KInv, NEW x \in Contexts, pc[x] # "idle", Rest(call[x]).cmds # <<>>
  PROVE  /\ \/ Head(Rest(call[x]).cmds) = "program" /\ Cmd(x) = "program"
            \/ Cmd(x) \in DOMAIN Follows /\ Head(Rest(call[x]).cmds) \in Follows[Cmd(x)]
         /\ Head(Rest(call[x]).cmds) \in Registers => InOrder(x, Rest(call[x]))
<1> DEFINE k == call[x]
           rest == Rest(call[x])
<1>1. k \in CallType /\ k.cmds # <<>> /\ k.cmds \in Lists /\ CallInv(x)
  BY DEF KInv, IInv, CommandInv, DataType, CallType
<1>2. \/ rest.cmds = k.cmds /\ Head(k.cmds) = "program"
      \/ rest.cmds = Tail(k.cmds)
  BY <1>1, RestType
<1>3. \/ Head(rest.cmds) = "program" /\ Cmd(x) = "program"
      \/ rest.cmds = Tail(k.cmds) /\ Cmd(x) \in DOMAIN Follows /\ Head(rest.cmds) \in Follows[Cmd(x)]
  BY <1>1, <1>2, ListTail DEF Cmd
<1>4. ASSUME Head(rest.cmds) \in Registers PROVE InOrder(x, rest)
  <2>1. rest.cmds = Tail(k.cmds) /\ Cmd(x) \in {"read_low", "read_high", "read_config", "write_config"}
    BY <1>3, <1>4 DEF Registers, Follows
  <2>2. Cmd(x) \in Registers /\ k.cmds # S1
    BY <2>1, ListSteps DEF Registers, Cmd
  <2>3. QED
    BY <1>1, <2>1, <2>2, ListSteps DEF CallInv, OrderInv, Cmd, InOrder
<1>5. QED
  BY <1>3, <1>4

LEMMA RestoreKeeps == ASSUME KInv, NEW x \in Contexts, Restore(x) PROVE CallInv(x)'
<1> DEFINE k == call[x]
           rest == Rest(call[x])
<1>1. pc[x] = "restore" /\ k \in CallType /\ k.cmds # <<>> /\ k.cmds \in Lists /\ nv' = nv /\ CallInv(x)
  BY DEF KInv, IInv, CommandInv, DataType, CallType, Restore, At, chip
<1>2. /\ rest.bits = k.bits /\ rest.mask = k.mask /\ rest.value = k.value
      /\ \/ rest.cmds = k.cmds /\ Head(k.cmds) = "program"
         \/ rest.cmds = Tail(k.cmds)
  BY <1>1, RestType
<1>3. CASE rest.cmds = <<>>
  <2>1. pc'[x] = "idle" /\ call'[x] = Quiet /\ got'[x] = <<>>
    BY <1>3 DEF Restore, Goto, KInv, IInv, CoreInv, CoreType, DataType
  <2>2. QED
    BY <2>1 DEF CallInv, OrderInv, ValueInv, EffectInv, DoneInv, GotInv, After, Running, ChunkDone
<1>4. CASE rest.cmds # <<>>
  <2>1. pc'[x] = "begin" /\ call'[x] = rest /\ got' = got
    BY <1>4 DEF Restore, Goto, KInv, IInv, CoreInv, CoreType, DataType
  <2>2. /\ \/ Head(rest.cmds) = "program" /\ Head(k.cmds) = "program"
           \/ Head(k.cmds) \in DOMAIN Follows /\ Head(rest.cmds) \in Follows[Head(k.cmds)]
        /\ Head(rest.cmds) \in Registers => InOrder(x, rest)
    BY <1>1, <1>4, RestFollows DEF Cmd
  <2>5. OrderInv(x)'
    BY <1>1, <1>2, <2>1, <2>2 DEF OrderInv, InOrder, Cmd
  <2>6. ValueInv(x)'
    <3>1. Head(rest.cmds) = "write_config" => Head(k.cmds) = "read_config"
      BY <2>2 DEF Follows
    <3>2. Head(rest.cmds) = "read_high" => Head(k.cmds) = "read_low"
      BY <2>2 DEF Follows
    <3>3. ASSUME Head(rest.cmds) = "write_status" PROVE k.value \ Fixed = nv.status \ Fixed
      <4>1. CASE Head(k.cmds) = "read_high"
        BY <1>1, <4>1 DEF CallInv, ValueInv, After, Cmd
      <4>2. CASE Head(k.cmds) = "read_low"
        <5>1. k.cmds = L2 /\ nv.mid = "P25D09U"
          BY <2>2, <3>3, <4>2, ListSteps DEF InOrder, Registers
        <5>2. k.value \ Fixed = (nv.status \cap LowBits) \ Fixed /\ nv.status \ Fixed \subseteq LowBits
          BY <1>1, <4>2, <5>1 DEF CallInv, ValueInv, After, Cmd, KInv, SmallChip
        <5>3. QED
          BY <5>2
      <4>3. QED
        BY <2>2, <3>3, <4>1, <4>2 DEF Follows
    <3>4. QED
      BY <1>1, <1>2, <2>1, <3>1, <3>2, <3>3 DEF CallInv, ValueInv, After, Cmd, Running
  <2>7. EffectInv(x)'
    BY <2>1 DEF EffectInv
  <2>8. DoneInv(x)'
    <3>1. ASSUME k.mask = BpBits, Head(rest.cmds) \in {"read_low", "read_high", "write_status"}
          PROVE  Wps \notin nv.config
      <4>1. Head(k.cmds) \in {"read_low", "read_high", "write_config"}
        BY <2>2, <3>1 DEF Follows
      <4>2. QED
        BY <1>1, <3>1, <4>1 DEF CallInv, DoneInv, ChunkDone, Cmd
    <3>2. QED
      BY <1>1, <1>2, <2>1, <3>1 DEF DoneInv, ChunkDone, Cmd
  <2>9. GotInv(x)'
    <3>1. Head(k.cmds) # "read"
      BY <2>2 DEF Follows
    <3>2. QED
      BY <1>1, <2>1, <3>1 DEF CallInv, GotInv, Cmd
  <2>10. QED
    BY <2>5, <2>6, <2>7, <2>8, <2>9 DEF CallInv
<1>5. QED
  BY <1>3, <1>4

LEMMA SameRestStays ==
  ASSUME SmallChip, NEW x \in Contexts, CallInv(x), UNCHANGED <<nv, goal, busy, wel, pc, call, got>>
  PROVE  CallInv(x)' /\ SmallChip'
<1>1. SmallChip' /\ OrderInv(x)' /\ ValueInv(x)'
  BY DEF SmallChip, CallInv, OrderInv, ValueInv, After, Cmd
<1>2. EffectInv(x)'
  <2>1. Effect(call[x])' = Effect(call[x])
    BY DEF Effect, Programmed
  <2>2. (pc[x] = "command" => wel)'
    BY Zenon DEF CallInv, EffectInv
  <2>3. QED
    BY <2>1, <2>2 DEF CallInv, EffectInv
<1>3. DoneInv(x)' /\ GotInv(x)'
  BY DEF CallInv, DoneInv, GotInv, ChunkDone, Cmd
<1>4. QED
  BY <1>1, <1>2, <1>3 DEF CallInv

LEMMA ProgramKeeps ==
  ASSUME KInv, NEW x \in Contexts, Interrupt \/ IsrReturn \/ SetIrq \/ PowerOn
  PROVE  CallInv(x)' /\ SmallChip'
<1>1. UNCHANGED <<nv, goal, busy, wel, pc, call, got>>
  BY DEF Interrupt, IsrReturn, SetIrq, PowerOn, chip, driver
<1>2. QED
  BY <1>1, SameRestStays DEF KInv

\* What is under way is the effect of the command of the context that runs.
LEMMA UnderWay ==
  ASSUME KInv, ctx # "off", busy > 0
  PROVE  /\ ctx \in Contexts /\ pc[ctx] = "wait" /\ ~ChunkDone(ctx)
         /\ goal = Effect(call[ctx]) /\ Touched(call[ctx]) \cap Protected(nv) = {}
<1>1. ctx \in Contexts
  BY DEF KInv, IInv, CoreInv, CoreType
<1>2. pc[ctx] = "wait"
  BY <1>1, FlashAssumption DEF KInv, IInv, CoreInv, ChipInv, CoreType
<1>3. QED
  BY <1>1, <1>2, FlashAssumption DEF KInv, CallInv, EffectInv, ChunkDone, IInv, CoreInv, CoreType

\* Power is lost between two states of the registers, or within one of bytes.
LEMMA PowerLossBits == ASSUME KInv, PowerLoss PROVE SameBits(nv, nv')
<1>1. CASE busy > 0
  <2>1. SameBits(nv, goal)
    BY <1>1, UnderWay, EffectBits DEF PowerLoss
  <2>2. nv'.mid = nv.mid /\ nv'.status \in {nv.status, goal.status} /\ nv'.config \in {nv.config, goal.config}
    BY <1>1 DEF PowerLoss, Torn
  <2>3. QED
    BY <2>1, <2>2 DEF SameBits
<1>2. CASE ~(busy > 0)
  BY <1>2 DEF PowerLoss, SameBits
<1>3. QED
  BY <1>1, <1>2

LEMMA PowerLossKeeps == ASSUME KInv, NEW x \in Contexts, PowerLoss PROVE CallInv(x)'
<1>1. pc'[x] = "idle" /\ got'[x] = <<>>
  BY DEF PowerLoss
<1>2. QED
  BY <1>1 DEF CallInv, OrderInv, ValueInv, EffectInv, DoneInv, GotInv, After, Running, ChunkDone

LEMMA InitKInv == Init => KInv
<1>1. SUFFICES ASSUME Init PROVE KInv
  OBVIOUS
<1>2. IInv
  BY <1>1, InitCore, InitData DEF IInv
<1>3. SmallChip
  BY <1>1 DEF Init, SmallChip
<1>4. ASSUME NEW x \in Contexts PROVE CallInv(x)
  <2>1. pc[x] = "idle" /\ got[x] = <<>>
    BY <1>1 DEF Init
  <2>2. QED
    BY <2>1 DEF CallInv, OrderInv, ValueInv, EffectInv, DoneInv, GotInv, After, Running, ChunkDone
<1>5. QED
  BY <1>2, <1>3, <1>4 DEF KInv

LEMMA StepKInv == KInv /\ [Next]_vars => KInv'
<1>1. SUFFICES ASSUME KInv, [Next]_vars PROVE KInv'
  OBVIOUS
<1>2. IInv'
  BY <1>1, StepInv DEF KInv
<1>3. ASSUME NEW x \in Contexts, Step(x) PROVE KInv'
  <2>1. CallInv(x)'
    BY <1>1, <1>3, CallKeeps, BeginKeeps, ReadRegisterKeeps, ReadByteKeeps, WriteEnableKeeps, CommandKeeps,
       WaitDoneKeeps, RestoreKeeps DEF Step
  <2>2. \A y \in Contexts : y # x => CallInv(y)'
    BY <1>1, <1>3, OtherCall
  <2>3. SmallChip'
    BY <1>1, <1>3, StepBits, SmallChipStays DEF KInv
  <2>4. QED
    BY <1>2, <2>1, <2>2, <2>3 DEF KInv
<1>4. CASE Interrupt \/ IsrReturn \/ SetIrq \/ PowerOn
  BY <1>1, <1>2, <1>4, ProgramKeeps DEF KInv
<1>5. CASE PowerLoss
  <2>1. SmallChip'
    BY <1>1, <1>5, PowerLossBits, SmallChipStays DEF KInv
  <2>2. QED
    BY <1>1, <1>2, <1>5, <2>1, PowerLossKeeps DEF KInv
<1>6. CASE UNCHANGED vars
  <2>1. ASSUME NEW x \in Contexts PROVE CallInv(x)' /\ SmallChip'
    <3>1. nv' = nv /\ goal' = goal /\ busy' = busy /\ wel' = wel /\ pc' = pc /\ call' = call /\ got' = got
      BY <1>6 DEF vars, chip, driver
    <3>2. QED
      BY <1>1, <3>1, SameRestStays DEF KInv
  <2>2. QED
    BY <1>2, <2>1 DEF KInv
<1>7. QED
  BY <1>1, <1>3, <1>4, <1>5, <1>6 DEF Next

LEMMA KInvHolds == Spec => []KInv
  BY InitKInv, StepKInv, PTL DEF Spec

\* flash_read_data returns what was in the flash together, though the handler
\* may program or erase between any two commands (flash.c:116-130).
THEOREM ReadCorrect == Spec => []ReadWhole
<1>1. KInv => ReadWhole
  BY DEF KInv, CallInv, GotInv, ReadWhole
<1>2. QED
  BY <1>1, KInvHolds, PTL

LEMMA OtherBitsStep == KInv /\ [Next]_vars =>
    [/\ nv'.status \ (BpBits \cup {OtpLock}) = nv.status \ (BpBits \cup {OtpLock})
     /\ nv'.config \ {Wps} = nv.config \ {Wps}]_vars
<1>1. SUFFICES ASSUME KInv, Next PROVE SameBits(nv, nv')
  BY DEF SameBits, Fixed
<1>2. CASE \E x \in Contexts : Step(x)
  BY <1>1, <1>2, StepBits
<1>3. CASE PowerLoss
  BY <1>1, <1>3, PowerLossBits
<1>4. CASE Interrupt \/ IsrReturn \/ SetIrq \/ PowerOn
  BY <1>4 DEF Interrupt, IsrReturn, SetIrq, PowerOn, chip, SameBits
<1>5. QED
  BY <1>1, <1>2, <1>3, <1>4 DEF Next

\* Lock and unlock leave the bits they are not about as they are, on both
\* chips, though the handler may lock between the read and the write of the
\* main program and power may fail at any command (flash_mid136085.c).
THEOREM OtherBitsCorrect == Spec => OtherBitsKept
  BY KInvHolds, OtherBitsStep, PTL DEF Spec, OtherBitsKept

----------------------------------------------------------------------------
(* What is locked.  Lock and unlock read the status, change some bits and  *)
(* write it back: a handler that locks in between has its lock undone, so  *)
(* these hold for programs whose handler leaves that to the main program.  *)

HandlerNeverLocks == Calls["isr"] \cap LockCalls = {}

\* A lock or unlock under way has nothing to keep, or holds the bits of the
\* area as the chip has them.
HoldInv ==
    pc["main"] # "idle" /\ Cmd("main") \in Registers =>
      IF call["main"].mask = BpBits THEN locked \cap Main = {}
      ELSE /\ After("main", "read_low", "read_high") =>
                call["main"].value \cap BpBits = (nv.status \cap LowBits) \cap BpBits
           /\ After("main", "read_high", "write_status") =>
                call["main"].value \cap BpBits = nv.status \cap BpBits

\* What is locked is protected.
LockInv ==
    /\ locked \cap Otp # {} => OtpLock \in nv.status
    /\ locked \cap Main # {} =>
         Wps \notin nv.config /\ locked \cap Main \subseteq Area[nv.status \cap BpBits]
    /\ pc["isr"] # "idle" => Cmd("isr") \notin Registers
    /\ HoldInv

LInv == KInv /\ LockInv

LEMMA LockedProtected == ASSUME LInv PROVE locked \subseteq Protected(nv)
<1>1. locked \subseteq Main \cup Otp
  BY DEF LInv, KInv, IInv, DataType, Cells
<1>2. QED
  BY <1>1 DEF LInv, LockInv, Protected

\* The bits of an area change by a lock or unlock of the main program only.
SameLocks(x, status) ==
    /\ OtpLock \in nv.status => OtpLock \in status
    /\ x = "isr" => status = nv.status
    /\ locked \cap Main # {} \/ (Cmd(x) \in Registers /\ call[x].mask # BpBits) =>
         status \cap BpBits = nv.status \cap BpBits

LEMMA EffectLocks ==
  ASSUME LInv, NEW x \in Contexts, pc[x] \in {"command", "wait"}
  PROVE  SameLocks(x, Effect(call[x]).status)
<1>1. nv \in NvType /\ Cmd(x) \in Writes /\ pc[x] \in Running
  BY DEF LInv, KInv, IInv, DataType, CommandInv, Running
<1>2. CASE Cmd(x) # "write_status"
  <2>1. Effect(call[x]).status = nv.status
    BY <1>1, <1>2 DEF Effect, Cmd, NvType, Writes
  <2>2. QED
    BY <2>1 DEF SameLocks
<1>3. CASE Cmd(x) = "write_status"
  <2>1. Effect(call[x]).status = NewStatus(call[x]) \cup (nv.status \cap {OtpLock})
    BY <1>1, <1>3 DEF Effect, Cmd, NvType
  <2>2. Cmd(x) \in Registers /\ OrderInv(x) /\ LockInv
    BY <1>3 DEF Registers, LInv, KInv, CallInv
  <2>3. x = "main"
    BY <1>1, <2>2 DEF LockInv, Running
  <2>4. call["main"].mask = BpBits => locked \cap Main = {}
    BY <1>1, <2>2, <2>3 DEF LockInv, HoldInv, Running
  <2>5. ASSUME call[x].mask # BpBits PROVE Effect(call[x]).status \cap BpBits = nv.status \cap BpBits
    <3>1. call[x].mask = {OtpLock} /\ call[x].bits = {OtpLock}
      BY <1>1, <2>2, <2>5 DEF OrderInv, Running
    <3>2. call[x].value \cap BpBits = nv.status \cap BpBits
      BY <1>1, <1>3, <2>2, <2>3, <2>5 DEF LockInv, HoldInv, After, Running
    <3>3. QED
      BY <2>1, <3>1, <3>2, FlashAssumption DEF NewStatus
  <2>6. QED
    BY <2>1, <2>3, <2>4, <2>5 DEF SameLocks
<1>4. QED
  BY <1>2, <1>3

LEMMA StepLocks == ASSUME LInv, NEW x \in Contexts, Step(x) PROVE SameLocks(x, nv'.status)
<1>1. CASE nv' = nv
  BY <1>1 DEF SameLocks
<1>2. CASE nv' # nv
  BY <1>2, StepChip, EffectLocks DEF LInv
<1>3. QED
  BY <1>1, <1>2

\* What has just been locked is protected.
LEMMA NowLockedProtected ==
  ASSUME LInv, NEW x \in Contexts, pc[x] = "restore", Cmd(x) = "write_status"
  PROVE  /\ x = "main"
         /\ NowLocked(call[x]) \cap Otp # {} => OtpLock \in nv.status
         /\ NowLocked(call[x]) \cap Main # {} =>
              Wps \notin nv.config /\ NowLocked(call[x]) \cap Main \subseteq Area[nv.status \cap BpBits]
<1>1. /\ Cmd(x) \in Registers /\ OrderInv(x) /\ DoneInv(x) /\ LockInv /\ ChunkDone(x)
      /\ call[x].bits \subseteq call[x].mask
  BY DEF LInv, KInv, CallInv, Registers, ChunkDone, IInv, CommandInv
<1>2. x = "main"
  BY <1>1 DEF LockInv
<1>3. nv.status \cap call[x].mask = call[x].bits
  BY <1>1 DEF DoneInv
<1>4. Main \cap Otp = {}
  BY FlashAssumption DEF Main, Otp
<1>5. CASE call[x].mask = BpBits
  <2>1. NowLocked(call[x]) = Area[call[x].bits] \cup (locked \cap Otp) /\ Area[call[x].bits] \subseteq Main
    BY <1>1, <1>5, FlashAssumption DEF NowLocked, Cmd
  <2>2. Wps \notin nv.config
    BY <1>1, <1>5 DEF DoneInv
  <2>3. QED
    BY <1>1, <1>2, <1>3, <1>4, <1>5, <2>1, <2>2 DEF LockInv
<1>6. CASE call[x].mask # BpBits
  <2>1. call[x].mask = {OtpLock} /\ call[x].bits = {OtpLock} /\ NowLocked(call[x]) = locked \cup Otp
    BY <1>1, <1>6 DEF OrderInv, NowLocked, Cmd
  <2>2. OtpLock \in nv.status
    BY <1>3, <2>1
  <2>3. QED
    BY <1>1, <1>2, <1>4, <2>1, <2>2 DEF LockInv
<1>7. QED
  BY <1>5, <1>6

LEMMA StepLocked ==
  ASSUME LInv, NEW x \in Contexts, Step(x)
  PROVE  /\ \/ locked' \subseteq locked
            \/ /\ pc[x] = "restore" /\ Cmd(x) = "write_status" /\ nv' = nv
               /\ locked' = NowLocked(call[x])
         /\ Call(x) \/ Cmd(x) = "write_status" \/ locked' = locked
<1>1. CASE Call(x)
  BY <1>1 DEF Call
<1>2. CASE Restore(x)
  <2>1. pc[x] = "restore" /\ nv' = nv /\ (locked' = locked \/ locked' = NowLocked(call[x]))
    BY <1>2 DEF Restore, At, chip
  <2>2. Cmd(x) # "write_status" => NowLocked(call[x]) = locked
    BY DEF NowLocked, Cmd
  <2>3. QED
    BY <2>1, <2>2
<1>3. QED
  BY <1>1, <1>2 DEF Step, Begin, ReadRegister, ReadByte, WriteEnable, Command, WaitDone

LEMMA LockedStays ==
  ASSUME LInv, NEW x \in Contexts, Step(x)
  PROVE  /\ locked' \cap Otp # {} => OtpLock \in nv'.status
         /\ locked' \cap Main # {} =>
              Wps \notin nv'.config /\ locked' \cap Main \subseteq Area[nv'.status \cap BpBits]
<1>1. CASE locked' \subseteq locked
  <2>1. SameLocks(x, nv'.status) /\ SameBits(nv, nv') /\ LockInv
    BY StepLocks, StepBits DEF LInv
  <2>2. QED
    BY <1>1, <2>1 DEF SameLocks, SameBits, LockInv
<1>2. CASE ~(locked' \subseteq locked)
  BY <1>2, StepLocked, NowLockedProtected
<1>3. QED
  BY <1>1, <1>2

LEMMA HandlerLocks ==
  ASSUME HandlerNeverLocks, LInv, Step("isr")
  PROVE  (pc["isr"] # "idle" => Cmd("isr") \notin Registers)' /\ HoldInv'
<1>1. /\ pc'["main"] = pc["main"] /\ call'["main"] = call["main"] /\ ctx = "isr"
      /\ pc["isr"] # "idle" => Cmd("isr") \notin Registers
  BY OtherStays DEF LInv, KInv, LockInv
<1>2. nv'.status = nv.status
  BY StepLocks DEF LInv, SameLocks
<1>3. locked' \subseteq locked
  <2>1. CASE locked' = locked \/ Call("isr")
    BY <2>1 DEF Call
  <2>2. CASE pc["isr"] = "restore" /\ Cmd("isr") = "write_status"
    BY <1>1, <2>2 DEF Registers
  <2>3. QED
    BY <2>1, <2>2, StepLocked
<1>4. HoldInv'
  BY <1>1, <1>2, <1>3 DEF LInv, LockInv, HoldInv, After, Cmd
<1>5. ASSUME pc'["isr"] # "idle" PROVE Cmd("isr")' \notin Registers
  <2>1. CASE Call("isr")
    <3>1. PICK k \in Calls["isr"] : call' = [call EXCEPT !["isr"] = k]
      BY <2>1 DEF Call
    <3>2. Head(k.cmds) \notin Registers
      BY CallsAssumption DEF HandlerNeverLocks, Registers
    <3>3. call'["isr"] = k
      BY <3>1 DEF LInv, KInv, IInv, DataType
    <3>4. QED
      BY <3>2, <3>3 DEF Cmd
  <2>2. CASE Restore("isr")
    <3> DEFINE rest == Rest(call["isr"])
    <3>1. pc["isr"] = "restore"
      BY <2>2 DEF Restore, At
    <3>2. CASE rest.cmds = <<>>
      BY <1>5, <2>2, <3>2 DEF Restore, Goto, LInv, KInv, IInv, CoreInv, CoreType
    <3>3. CASE rest.cmds # <<>>
      <4>1. call'["isr"] = rest
        BY <2>2, <3>3 DEF Restore, LInv, KInv, IInv, DataType
      <4>2. Head(rest.cmds) \notin Registers
        BY <1>1, <3>1, <3>3, RestFollows DEF LInv, InOrder, Registers
      <4>3. QED
        BY <4>1, <4>2 DEF Cmd
    <3>4. QED
      BY <3>2, <3>3
  <2>3. CASE ~Call("isr") /\ ~Restore("isr")
    <3>1. pc["isr"] # "idle" /\ call'["isr"].cmds = call["isr"].cmds
      BY <2>3 DEF Step, Begin, ReadRegister, ReadByte, WriteEnable, Command, WaitDone, At, LInv, KInv, IInv,
                  DataType, CallType
    <3>2. QED
      BY <1>1, <3>1 DEF Cmd
  <2>4. QED
    BY <2>1, <2>2, <2>3
<1>6. QED
  BY <1>4, <1>5

LEMMA MainHolds == ASSUME LInv, Step("main") PROVE HoldInv'
<1> DEFINE k == call["main"]
<1>1. HoldInv /\ SameLocks("main", nv'.status) /\ StatusBits = LowBits \cup HighBits
  BY StepLocks DEF LInv, LockInv, HoldInv, StatusBits
<1>2. pc \in [Contexts -> Places] /\ call \in [Contexts -> CallType]
  BY DEF LInv, KInv, IInv, CoreInv, CoreType, DataType
<1>3. CASE Call("main")
  <2>1. PICK q \in Calls["main"] : /\ call' = [call EXCEPT !["main"] = q] /\ pc' = [pc EXCEPT !["main"] = "begin"]
                                   /\ locked' = IF q.mask = BpBits THEN locked \cap Otp ELSE locked
    BY <1>3 DEF Call, Goto
  <2>2. Head(q.cmds) \notin {"read_high", "write_status"} /\ Main \cap Otp = {}
    BY CallsAssumption, FlashAssumption DEF Main, Otp
  <2>3. call'["main"] = q /\ pc'["main"] = "begin"
    BY <1>2, <2>1
  <2>4. q.mask = BpBits => locked' \cap Main = {}
    BY <2>1, <2>2
  <2>5. QED
    BY <2>2, <2>3, <2>4 DEF HoldInv, After, Cmd
<1>4. CASE Begin("main") \/ WriteEnable("main")
  <2>1. /\ nv' = nv /\ call' = call /\ locked' = locked /\ pc["main"] \in Running /\ pc'["main"] \in Running
    BY <1>2, <1>4 DEF Begin, WriteEnable, At, Goto, chip, Running
  <2>2. QED
    BY <1>1, <2>1 DEF HoldInv, After, Cmd, Running
<1>5. CASE ReadRegister("main")
  <2>1. /\ nv' = nv /\ locked' = locked /\ pc["main"] = "send" /\ pc'["main"] = "restore" /\ Reads("main")
    BY <1>2, <1>5 DEF ReadRegister, At, Goto, chip
  <2>2. PICK v : call' = [call EXCEPT !["main"].value = v]
                /\ v = CASE Cmd("main") = "read_config" -> nv.config
                         [] Cmd("main") = "read_low"    -> nv.status \cap LowBits
                         [] Cmd("main") = "read_high"   -> k.value \cup (nv.status \cap HighBits)
    BY <1>2, <1>5 DEF ReadRegister
  <2>3. call'["main"].cmds = k.cmds /\ call'["main"].mask = k.mask /\ call'["main"].value = v
    BY <1>2, <2>2 DEF CallType
  <2>4. Cmd("main") \in Registers
    BY <2>1 DEF Reads, Registers
  <2>5. CASE k.mask = BpBits
    BY <1>1, <2>1, <2>3, <2>4, <2>5 DEF HoldInv, Cmd
  <2>6. CASE k.mask # BpBits /\ Cmd("main") = "read_low"
    BY <2>1, <2>2, <2>3, <2>6 DEF HoldInv, After, Cmd, Running
  <2>7. CASE k.mask # BpBits /\ Cmd("main") = "read_high"
    <3>1. k.value \cap BpBits = (nv.status \cap LowBits) \cap BpBits
      BY <1>1, <2>1, <2>4, <2>7 DEF HoldInv, After, Running
    <3>2. v \cap BpBits = nv.status \cap BpBits
      BY <1>1, <2>2, <2>7, <3>1, FlashAssumption
    <3>3. QED
      BY <2>1, <2>3, <2>7, <3>2 DEF HoldInv, After, Cmd, Running
  <2>8. CASE k.mask # BpBits /\ Cmd("main") = "read_config"
    BY <2>1, <2>3, <2>8 DEF HoldInv, After, Cmd, Running
  <2>9. QED
    BY <2>1, <2>5, <2>6, <2>7, <2>8 DEF Reads
<1>6. CASE ReadByte("main")
  <2>1. Cmd("main") = "read" /\ call'["main"].cmds = k.cmds
    BY <1>2, <1>6 DEF ReadByte, CallType
  <2>2. QED
    BY <2>1 DEF HoldInv, Cmd, Registers
<1>7. CASE Command("main") \/ WaitDone("main")
  <2>1. /\ call' = call /\ locked' = locked /\ pc["main"] \in {"command", "wait"}
        /\ pc'["main"] \in {"wait", "restore"}
    BY <1>2, <1>7 DEF Command, WaitDone, At, Goto
  <2>2. Cmd("main") \in Writes
    BY <2>1 DEF LInv, KInv, IInv, CommandInv
  <2>3. Cmd("main") \in Registers /\ k.mask # BpBits => nv'.status \cap BpBits = nv.status \cap BpBits
    BY <1>1 DEF SameLocks
  <2>4. QED
    BY <1>1, <2>1, <2>2, <2>3 DEF HoldInv, After, Cmd, Running, Writes
<1>8. CASE Restore("main")
  <2> DEFINE rest == Rest(k)
  <2>1. pc["main"] = "restore" /\ nv' = nv
    BY <1>8 DEF Restore, At, chip
  <2>2. CASE rest.cmds = <<>>
    BY <1>2, <1>8, <2>2 DEF Restore, Goto, HoldInv
  <2>3. CASE rest.cmds # <<>>
    <3>1. pc'["main"] = "begin" /\ call'["main"] = rest /\ locked' = locked
      BY <1>2, <1>8, <2>3 DEF Restore, Goto
    <3>2. rest.mask = k.mask /\ rest.value = k.value
      BY <1>2, <2>1, RestType DEF LInv, KInv, IInv, CommandInv
    <3>3. SUFFICES ASSUME Head(rest.cmds) \in Registers PROVE HoldInv'
      BY <3>1 DEF HoldInv, Cmd
    <3>4. InOrder("main", rest) /\ Cmd("main") \in Registers
      BY <2>1, <2>3, <3>3, RestFollows DEF LInv, InOrder, Registers
    <3>5. CASE k.mask = BpBits
      BY <1>1, <2>1, <3>1, <3>2, <3>4, <3>5 DEF HoldInv
    <3>6. CASE k.mask # BpBits
      <4>1. k.cmds \in {S3, S2} /\ rest.cmds = Tail(k.cmds)
        BY <3>4, <3>6 DEF InOrder
      <4>2. (k.cmds = S3 /\ rest.cmds = S2) \/ (k.cmds = S2 /\ rest.cmds = S1)
        BY <4>1, ListSteps
      <4>3. QED
        BY <1>1, <2>1, <3>1, <3>2, <3>4, <3>6, <4>2, ListSteps DEF HoldInv, After, Cmd, Running
    <3>7. QED
      BY <3>5, <3>6
  <2>4. QED
    BY <2>2, <2>3
<1>9. QED
  BY <1>3, <1>4, <1>5, <1>6, <1>7, <1>8 DEF Step

\* A command leaves the cells it does not touch.
LEMMA Untouched ==
  ASSUME nv \in NvType, NEW k, Head(k.cmds) \in Writes, NEW c \in Cells, c \notin Touched(k)
  PROVE  Effect(k).mem[c] = nv.mem[c]
<1>1. CASE Head(k.cmds) = "program"
  <2>1. Effect(k).mem = Programmed(k)
    BY <1>1 DEF Effect, NvType
  <2>2. \A n \in 0 .. Chunk(k) - 1 : Target(k, n) # c
    BY <1>1 DEF Touched
  <2>3. QED
    BY <2>1, <2>2 DEF Programmed
<1>2. CASE Head(k.cmds) = "erase"
  <2>1. Effect(k).mem = [d \in Cells |-> IF d \in Touched(k) THEN Bits ELSE nv.mem[d]]
    BY <1>2 DEF Effect, NvType
  <2>2. QED
    BY <2>1
<1>3. CASE Head(k.cmds) \in {"write_status", "write_config"}
  BY <1>3 DEF Effect, NvType
<1>4. QED
  BY <1>1, <1>2, <1>3 DEF Writes

LEMMA SameLockInv ==
  ASSUME LockInv, UNCHANGED <<nv, pc, call, locked>>
  PROVE  LockInv'
  BY DEF LockInv, HoldInv, After, Cmd

LEMMA PowerLossLocks ==
  ASSUME LInv, PowerLoss
  PROVE  LockInv' /\ \A c \in locked : nv'.mem[c] = nv.mem[c]
<1>1. locked' = locked /\ pc' = [x \in Contexts |-> "idle"] /\ SameBits(nv, nv') /\ LockInv
  BY PowerLossBits DEF PowerLoss, LInv
<1>2. CASE busy > 0
  <2>1. /\ ctx \in Contexts /\ goal = Effect(call[ctx]) /\ SameLocks(ctx, goal.status)
        /\ Touched(call[ctx]) \cap locked = {}
    BY <1>2, UnderWay, EffectLocks, LockedProtected DEF PowerLoss, LInv
  <2>2. nv' \in Torn
    BY <1>2 DEF PowerLoss
  <2>3. SameLocks(ctx, nv'.status)
    BY <2>1, <2>2 DEF Torn, SameLocks
  <2>4. LockInv'
    BY <1>1, <2>3 DEF LockInv, HoldInv, SameLocks, SameBits
  <2>5. ASSUME NEW c \in locked PROVE nv'.mem[c] = nv.mem[c]
    <3>1. c \in Cells /\ nv \in NvType /\ Head(call[ctx].cmds) \in Writes /\ c \notin Touched(call[ctx])
      BY <1>2, <2>1, UnderWay DEF PowerLoss, LInv, KInv, IInv, DataType, CommandInv, Cmd
    <3>2. goal.mem[c] = nv.mem[c]
      BY <2>1, <3>1, Untouched
    <3>3. Between(nv'.mem[c], nv.mem[c], goal.mem[c])
      BY <2>2, <3>1 DEF Torn
    <3>4. QED
      BY <3>2, <3>3 DEF Between
  <2>6. QED
    BY <2>4, <2>5
<1>3. CASE ~(busy > 0)
  <2>1. nv' = nv
    BY <1>3 DEF PowerLoss
  <2>2. QED
    BY <1>1, <2>1 DEF LockInv, HoldInv
<1>4. QED
  BY <1>2, <1>3

LEMMA StepLInv == ASSUME HandlerNeverLocks PROVE LInv /\ [Next]_vars => LInv'
<1>1. SUFFICES ASSUME LInv, [Next]_vars PROVE LInv'
  OBVIOUS
<1>2. KInv'
  BY <1>1, StepKInv DEF LInv
<1>3. CASE Step("isr")
  BY <1>1, <1>2, <1>3, LockedStays, HandlerLocks DEF LInv, LockInv
<1>4. CASE Step("main")
  <2>1. pc'["isr"] = pc["isr"] /\ pc["isr"] = "idle"
    BY <1>1, <1>4, OtherStays DEF LInv, KInv, IInv, CoreInv, ContextInv
  <2>2. QED
    BY <1>1, <1>2, <1>4, <2>1, LockedStays, MainHolds DEF LInv, LockInv
<1>5. CASE Interrupt \/ IsrReturn \/ SetIrq \/ PowerOn \/ UNCHANGED vars
  <2>1. UNCHANGED <<nv, pc, call, locked>>
    BY <1>5 DEF Interrupt, IsrReturn, SetIrq, PowerOn, vars, chip, driver
  <2>2. QED
    BY <1>1, <1>2, <2>1, SameLockInv DEF LInv
<1>6. CASE PowerLoss
  BY <1>1, <1>2, <1>6, PowerLossLocks DEF LInv
<1>7. QED
  BY <1>1, <1>3, <1>4, <1>5, <1>6 DEF Next

LEMMA LInvHolds == ASSUME HandlerNeverLocks PROVE Spec => []LInv
<1>1. Init => LInv
  <2>1. Init => LockInv
    BY DEF Init, LockInv, HoldInv
  <2>2. QED
    BY <2>1, InitKInv DEF LInv
<1>2. LInv /\ [Next]_vars => LInv'
  BY StepLInv
<1>3. QED
  BY <1>1, <1>2, PTL DEF Spec

LEMMA LockedStep == LInv /\ [Next]_vars => [\A c \in locked : nv'.mem[c] = nv.mem[c]]_vars
<1>1. SUFFICES ASSUME LInv, Next, NEW c \in locked PROVE nv'.mem[c] = nv.mem[c]
  OBVIOUS
<1>2. CASE \E x \in Contexts : Step(x)
  <2>1. PICK x \in Contexts : Step(x)
    BY <1>2
  <2>2. CASE nv' = nv
    BY <2>2
  <2>3. CASE nv' # nv
    <3>1. nv' = Effect(call[x]) /\ Touched(call[x]) \cap Protected(nv) = {}
      BY <1>1, <2>1, <2>3, StepChip DEF Accepted, LInv, KInv, CallInv, EffectInv
    <3>2. c \in Cells /\ nv \in NvType /\ Head(call[x].cmds) \in Writes /\ c \notin Touched(call[x])
      BY <1>1, <2>1, <2>3, <3>1, StepChip, LockedProtected DEF LInv, KInv, IInv, DataType, CommandInv, Cmd
    <3>3. QED
      BY <3>1, <3>2, Untouched
  <2>4. QED
    BY <2>2, <2>3
<1>3. CASE PowerLoss
  BY <1>1, <1>3, PowerLossLocks
<1>4. CASE Interrupt \/ IsrReturn \/ SetIrq \/ PowerOn
  BY <1>4 DEF Interrupt, IsrReturn, SetIrq, PowerOn, chip
<1>5. QED
  BY <1>1, <1>2, <1>3, <1>4 DEF Next

\* What flash_lock or flash_lock_otp has returned from protecting stays as it
\* is, until a lock or unlock begins, whatever is programmed or erased by whom
\* and whenever power fails (flash_mid136085.c, flash_mid114485.c), when the
\* handler itself neither locks nor unlocks: nothing in the SDK does.
THEOREM LockedCorrect == ASSUME HandlerNeverLocks PROVE Spec => LockedKept
<1>1. Spec => []LInv
  BY LInvHolds
<1>2. QED
  BY <1>1, LockedStep, PTL DEF Spec, LockedKept

LEMMA ProgramList ==
  ASSUME NEW l \in Lists, l # <<>>
  PROVE  Head(l) \in {"program", "erase"} => Tail(l) = <<>>
<1>1. ASSUME NEW c \in {"read", "program", "erase", "write_status"}, l = <<c>> PROVE Tail(l) = <<>>
  BY <1>1
<1>2. CASE l \in {S3, S2, L2, C4, C5}
  BY <1>2, ListSteps
<1>3. QED
  BY <1>1, <1>2 DEF Lists, S3, S2, L2, C4, C5

----------------------------------------------------------------------------
(* The flash as its callers see it.                                        *)

\* Between calls there is nothing to do; a command names cells there are.
RangeInv(x) ==
    /\ pc[x] = "idle" => call[x] = Quiet
    /\ pc[x] # "idle" /\ Cmd(x) = "program" => InRange(call[x])
    /\ pc[x] # "idle" /\ Cmd(x) = "erase" => call[x].at \in Cells

RInv == KInv /\ \A x \in Contexts : RangeInv(x)

LEMMA RestRange ==
  ASSUME NEW k \in CallType, k.cmds # <<>>, InRange(k), Head(k.cmds) = "program", Chunk(k) < Len(k.buf)
  PROVE  InRange(Rest(k))
<1>1. Chunk(k) \in Nat /\ Len(k.buf) \in Nat /\ k.at \in Nat /\ k.buf \in Seq(Byte)
  BY ChunkIn DEF CallType
<1>2. Rest(k).at = k.at + Chunk(k) /\ Rest(k).buf = SubSeq(k.buf, Chunk(k) + 1, Len(k.buf))
  BY DEF Rest, CallType
<1>3. Len(SubSeq(k.buf, Chunk(k) + 1, Len(k.buf))) = Len(k.buf) - Chunk(k)
  <2>1. \A n \in Chunk(k) + 1 .. Len(k.buf) : n \in 1 .. Len(k.buf)
    BY <1>1
  <2>2. Chunk(k) + 1 <= Len(k.buf) + 1
    BY <1>1
  <2>3. QED
    BY <1>1, <2>1, <2>2, SubSeqProperties
<1>4. QED
  BY <1>1, <1>2, <1>3, FlashAssumption DEF InRange

LEMMA StepRange ==
  ASSUME RInv, NEW x \in Contexts, Step(x)
  PROVE  RangeInv(x)'
<1>1. /\ pc \in [Contexts -> Places] /\ call \in [Contexts -> CallType] /\ RangeInv(x)
      /\ (pc[x] # "idle" => call[x].cmds # <<>>)
  BY DEF RInv, KInv, IInv, CoreInv, CoreType, DataType, CommandInv
<1>2. CASE Call(x)
  <2>1. PICK k \in Calls[x] : call' = [call EXCEPT ![x] = k] /\ pc' = [pc EXCEPT ![x] = "begin"]
    BY <1>2 DEF Call, Goto
  <2>2. QED
    BY <1>1, <2>1, CallsAssumption DEF RangeInv, Cmd
<1>3. CASE Restore(x)
  <2> DEFINE rest == Rest(call[x])
  <2>1. pc[x] = "restore"
    BY <1>3 DEF Restore, At
  <2>2. CASE rest.cmds = <<>>
    <3>1. call'[x] = Quiet /\ pc'[x] = "idle"
      BY <1>1, <1>3, <2>2 DEF Restore, Goto
    <3>2. QED
      BY <3>1 DEF RangeInv
  <2>3. CASE rest.cmds # <<>>
    <3>1. call'[x] = rest /\ pc'[x] = "begin"
      BY <1>1, <1>3, <2>3 DEF Restore, Goto
    <3>2. Head(rest.cmds) # "erase" /\ (Head(rest.cmds) = "program" => Cmd(x) = "program")
      BY <2>1, <2>3, RestFollows DEF RInv, Follows
    <3>3. ASSUME Cmd(x) = "program" PROVE Chunk(call[x]) < Len(call[x].buf)
      <4>1. Tail(call[x].cmds) = <<>>
        BY <1>1, <2>1, <3>3, ProgramList DEF CallType, Cmd
      <4>2. QED
        BY <1>1, <2>3, <3>3, <4>1 DEF Rest, CallType
    <3>4. Head(rest.cmds) = "program" => InRange(rest)
      BY <1>1, <2>1, <3>2, <3>3, RestRange DEF RangeInv, Cmd
    <3>5. QED
      BY <3>1, <3>2, <3>4 DEF RangeInv, Cmd
  <2>4. QED
    BY <2>2, <2>3
<1>4. CASE ReadRegister(x) \/ ReadByte(x)
  <2>1. pc[x] # "idle" /\ pc'[x] # "idle" /\ call'[x].cmds = call[x].cmds /\ Cmd(x) \notin {"program", "erase"}
    BY <1>1, <1>4 DEF ReadRegister, ReadByte, At, Goto, Reads, CallType
  <2>2. QED
    BY <2>1 DEF RangeInv, Cmd
<1>5. CASE Begin(x) \/ WriteEnable(x) \/ Command(x) \/ WaitDone(x)
  <2>1. pc[x] # "idle" /\ pc'[x] # "idle" /\ call' = call
    BY <1>1, <1>5 DEF Begin, WriteEnable, Command, WaitDone, At, Goto
  <2>2. QED
    BY <1>1, <2>1 DEF RangeInv, Cmd
<1>6. QED
  BY <1>2, <1>3, <1>4, <1>5 DEF Step

LEMMA StepRInv == RInv /\ [Next]_vars => RInv'
<1>1. SUFFICES ASSUME RInv, [Next]_vars PROVE RInv'
  OBVIOUS
<1>2. KInv'
  BY <1>1, StepKInv DEF RInv
<1>3. ASSUME NEW x \in Contexts, Step(x) PROVE RInv'
  <2>1. \A y \in Contexts : y # x => RangeInv(y)'
    BY <1>1, <1>3, OtherStays DEF RInv, KInv, RangeInv, Cmd
  <2>2. QED
    BY <1>1, <1>2, <1>3, <2>1, StepRange DEF RInv
<1>4. CASE Interrupt \/ IsrReturn \/ SetIrq \/ PowerOn \/ UNCHANGED vars
  <2>1. pc' = pc /\ call' = call
    BY <1>4 DEF Interrupt, IsrReturn, SetIrq, PowerOn, vars, driver
  <2>2. QED
    BY <1>1, <1>2, <2>1 DEF RInv, RangeInv, Cmd
<1>5. CASE PowerLoss
  BY <1>2, <1>5 DEF PowerLoss, RInv, RangeInv
<1>6. QED
  BY <1>1, <1>3, <1>4, <1>5 DEF Next

LEMMA RInvHolds == Spec => []RInv
<1>1. Init => RInv
  <2>1. Init => \A x \in Contexts : RangeInv(x)
    BY DEF Init, RangeInv
  <2>2. QED
    BY <2>1, InitKInv DEF RInv
<1>2. QED
  BY <1>1, StepRInv, PTL DEF Spec

\* What a call has still to do, by cell.
Job(k) ==
    CASE Kind(k) = "program" ->
           [c \in k.at .. k.at + Len(k.buf) - 1 |-> [keep |-> k.buf[c - k.at + 1], set |-> {}]]
      [] Kind(k) = "erase" -> [c \in Sector(k.at) |-> [keep |-> {}, set |-> Bits]]
      [] OTHER -> <<>>

Left(x) == IF ChunkDone(x) THEN Rest(call[x]) ELSE call[x]

Todo == [x \in Contexts |-> Job(Left(x))]

\* A call that names the cells it changes.
Names(k) ==
    \/ Kind(k) = "program" /\ InRange(k)
    \/ Kind(k) = "erase" /\ k.at \in Cells

NoChange == <<>>

LEMMA NoJob ==
    /\ DOMAIN NoChange = {} /\ \A job : [c \in {} |-> job[c]] = NoChange
    /\ Abstract!IsJob(NoChange)
<1>1. DOMAIN NoChange = {}
  BY DEF NoChange
<1>2. \A job : [c \in {} |-> job[c]] = NoChange
  BY DEF NoChange
<1>3. NoChange \in [{} -> Abstract!Change]
  BY DEF NoChange
<1>4. QED
  BY <1>1, <1>2, <1>3 DEF Abstract!IsJob

LEMMA OtherJob == ASSUME NEW k, Kind(k) \notin {"program", "erase"} PROVE Job(k) = NoChange
  BY DEF Job, NoChange

LEMMA SectorCells == ASSUME NEW c \in Cells PROVE Sector(c) \subseteq Cells /\ c \in Sector(c)
<1>1. CASE c \in Main
  BY <1>1 DEF Sector, Cells
<1>2. CASE c \notin Main
  BY <1>2 DEF Sector, Cells
<1>3. QED
  BY <1>1, <1>2

\* The bytes of one command go to the cells that follow each other: the chip
\* does not come to the end of the page.
LEMMA ChunkCells ==
  ASSUME NEW k \in CallType, Kind(k) = "program", InRange(k)
  PROVE  /\ k.at \in Nat /\ Chunk(k) \in 1 .. Len(k.buf) /\ Len(k.buf) \in Nat
         /\ \A n \in 0 .. Chunk(k) - 1 : Target(k, n) = k.at + n
         /\ Touched(k) = k.at .. k.at + Chunk(k) - 1
<1> DEFINE p == Page(k.at)
           room == p - (k.at % p)
<1>1. k.at \in Nat /\ p \in Nat \ {0} /\ Len(k.buf) \in Nat /\ Len(k.buf) > 0
  BY ChunkIn DEF CallType, InRange
<1>2. k.at % p \in 0 .. p - 1
  BY <1>1, DivMod
<1>3. Chunk(k) = IF Len(k.buf) > room THEN room ELSE Len(k.buf)
  BY DEF Chunk
<1> HIDE DEF p
<1>4. Chunk(k) \in 1 .. Len(k.buf) /\ Chunk(k) <= room
  BY <1>1, <1>2, <1>3
<1>5. ASSUME NEW n \in 0 .. Chunk(k) - 1 PROVE Target(k, n) = k.at + n
  <2>1. n \in Nat /\ n < room
    BY <1>1, <1>2, <1>4
  <2>2. (k.at - (k.at % p)) + ((k.at + n) % p) = k.at + n
    BY <1>1, <2>1, Paging
  <2>3. QED
    BY <2>2 DEF Target, p
<1>6. Touched(k) = k.at .. k.at + Chunk(k) - 1
  <2>1. Head(k.cmds) = "program"
    BY DEF Kind
  <2>2. Touched(k) = {Target(k, n) : n \in 0 .. Chunk(k) - 1}
    BY <2>1 DEF Touched
  <2>3. Touched(k) = {k.at + n : n \in 0 .. Chunk(k) - 1}
    BY <1>5, <2>2
  <2>4. ASSUME NEW c \in k.at .. k.at + Chunk(k) - 1 PROVE c \in {k.at + n : n \in 0 .. Chunk(k) - 1}
    <3>1. c - k.at \in 0 .. Chunk(k) - 1 /\ c = k.at + (c - k.at)
      BY <1>1, <1>4
    <3>2. QED
      BY <3>1
  <2>5. ASSUME NEW n \in 0 .. Chunk(k) - 1 PROVE k.at + n \in k.at .. k.at + Chunk(k) - 1
    BY <1>1, <1>4
  <2>6. QED
    BY <2>3, <2>4, <2>5
<1>7. QED
  BY <1>1, <1>4, <1>5, <1>6

LEMMA JobType ==
  ASSUME NEW k \in CallType, Names(k)
  PROVE  /\ Abstract!IsJob(Job(k)) /\ Touched(k) # {} /\ Touched(k) \subseteq DOMAIN Job(k)
         /\ DOMAIN Job(k) \subseteq Cells
<1>1. CASE Kind(k) = "program"
  <2>1. k.at \in Nat /\ k.buf \in Seq(Byte) /\ Chunk(k) \in 1 .. Len(k.buf) /\ Len(k.buf) \in Nat
        /\ Touched(k) = k.at .. k.at + Chunk(k) - 1 /\ k.at + Len(k.buf) <= FlashSize + OtpSize
    BY <1>1, ChunkCells DEF Names, CallType, InRange
  <2>2. Job(k) = [c \in k.at .. k.at + Len(k.buf) - 1 |-> [keep |-> k.buf[c - k.at + 1], set |-> {}]]
    BY <1>1 DEF Job
  <2>3. k.at .. k.at + Len(k.buf) - 1 \subseteq Cells
    BY <2>1, FlashAssumption DEF Cells, Main, Otp
  <2>4. ASSUME NEW c \in k.at .. k.at + Len(k.buf) - 1
        PROVE  [keep |-> k.buf[c - k.at + 1], set |-> {}] \in Abstract!Change
    <3>1. c - k.at + 1 \in 1 .. Len(k.buf)
      BY <2>1
    <3>2. k.buf[c - k.at + 1] \in Byte
      BY <2>1, <3>1
    <3>3. QED
      BY <3>2 DEF Abstract!Change, Abstract!Byte, Byte
  <2>5. DOMAIN Job(k) = k.at .. k.at + Len(k.buf) - 1 /\ Job(k) \in [DOMAIN Job(k) -> Abstract!Change]
    BY <2>2, <2>4
  <2>6. Touched(k) # {} /\ Touched(k) \subseteq DOMAIN Job(k)
    <3>1. k.at \in Touched(k)
      BY <2>1
    <3>2. QED
      BY <2>1, <2>5, <3>1
  <2>7. QED
    BY <2>3, <2>5, <2>6 DEF Abstract!IsJob
<1>2. CASE Kind(k) = "erase"
  <2>1. Head(k.cmds) = "erase" /\ k.at \in Cells
    BY <1>2 DEF Kind, Names
  <2>2. Touched(k) = Sector(k.at) /\ Job(k) = [c \in Sector(k.at) |-> [keep |-> {}, set |-> Bits]]
    BY <1>2, <2>1 DEF Touched, Job
  <2>3. [keep |-> {}, set |-> Bits] \in Abstract!Change
    BY DEF Abstract!Change, Abstract!Byte
  <2>4. QED
    BY <2>1, <2>2, <2>3, SectorCells DEF Abstract!IsJob
<1>3. QED
  BY <1>1, <1>2 DEF Names

\* A command does to the cells it touches what its call is to do to them.
LEMMA EffectOfJob ==
  ASSUME nv \in NvType, NEW k \in CallType, Names(k), NEW c \in Touched(k)
  PROVE  Effect(k).mem[c] = Abstract!Changed(nv.mem[c], Job(k)[c])
<1>0. c \in Cells
  BY JobType
<1>1. CASE Kind(k) = "program"
  <2>1. k.at \in Nat /\ Chunk(k) \in 1 .. Len(k.buf) /\ Len(k.buf) \in Nat
        /\ \A n \in 0 .. Chunk(k) - 1 : Target(k, n) = k.at + n
        /\ Touched(k) = k.at .. k.at + Chunk(k) - 1
    BY <1>1, ChunkCells DEF Names
  <2>2. Effect(k).mem = Programmed(k)
    BY <1>1 DEF Effect, NvType, Kind
  <2>3. Job(k)[c] = [keep |-> k.buf[c - k.at + 1], set |-> {}]
    <3>1. Job(k) = [d \in k.at .. k.at + Len(k.buf) - 1 |-> [keep |-> k.buf[d - k.at + 1], set |-> {}]]
      BY <1>1 DEF Job
    <3>2. c \in k.at .. k.at + Len(k.buf) - 1
      BY <2>1
    <3>3. QED
      BY <3>1, <3>2
  <2>4. \A n \in 0 .. Chunk(k) - 1 : Target(k, n) = c <=> n = c - k.at
    BY <2>1
  <2>5. c - k.at \in 0 .. Chunk(k) - 1
    BY <2>1
  <2>6. Programmed(k)[c] = {b \in nv.mem[c] : b \in k.buf[c - k.at + 1]}
    BY <1>0, <2>4, <2>5 DEF Programmed
  <2>7. QED
    BY <2>2, <2>3, <2>6 DEF Abstract!Changed
<1>2. CASE Kind(k) = "erase"
  <2>1. Head(k.cmds) = "erase" /\ k.at \in Cells
    BY <1>2 DEF Kind, Names
  <2>2. Touched(k) = Sector(k.at) /\ Job(k) = [d \in Sector(k.at) |-> [keep |-> {}, set |-> Bits]]
    BY <1>2, <2>1 DEF Touched, Job
  <2>3. Effect(k).mem = [d \in Cells |-> IF d \in Touched(k) THEN Bits ELSE nv.mem[d]]
    BY <2>1 DEF Effect, NvType
  <2>4. QED
    BY <1>0, <2>2, <2>3 DEF Abstract!Changed
<1>3. QED
  BY <1>1, <1>2 DEF Names

\* What is left of a job when a command is done is the job without its cells.
LEMMA RestOfJob ==
  ASSUME NEW k \in CallType, Names(k)
  PROVE  Job(Rest(k)) = Abstract!Without(Job(k), Touched(k))
<1>1. k.cmds \in Lists /\ k.cmds # <<>> /\ Tail(k.cmds) = <<>> /\ Kind(k) = Head(k.cmds)
  <2>1. k.cmds \in Lists /\ k.cmds # <<>> /\ Kind(k) = Head(k.cmds)
    BY DEF CallType, Names, Kind
  <2>2. Tail(k.cmds) = <<>>
    BY <2>1, ProgramList DEF Names
  <2>3. QED
    BY <2>1, <2>2
<1>2. CASE Kind(k) = "program" /\ Chunk(k) < Len(k.buf)
  <2>1. k.at \in Nat /\ k.buf \in Seq(Byte) /\ Chunk(k) \in 1 .. Len(k.buf) /\ Len(k.buf) \in Nat
        /\ Touched(k) = k.at .. k.at + Chunk(k) - 1
    BY <1>2, ChunkCells DEF Names, CallType
  <2>2. Job(k) = [c \in k.at .. k.at + Len(k.buf) - 1 |-> [keep |-> k.buf[c - k.at + 1], set |-> {}]]
    BY <1>2 DEF Job
  <2>3. /\ Rest(k).at = k.at + Chunk(k) /\ Rest(k).buf = SubSeq(k.buf, Chunk(k) + 1, Len(k.buf))
        /\ Rest(k).cmds = k.cmds
    BY <1>1, <1>2 DEF Rest, CallType, Kind
  <2>4. /\ Len(Rest(k).buf) = Len(k.buf) - Chunk(k)
        /\ \A n \in 1 .. Len(k.buf) - Chunk(k) : Rest(k).buf[n] = k.buf[Chunk(k) + n]
    <3>1. \A n \in Chunk(k) + 1 .. Len(k.buf) : n \in 1 .. Len(k.buf)
      BY <2>1
    <3>2. Chunk(k) + 1 <= Len(k.buf) + 1
      BY <2>1
    <3>3. /\ Len(SubSeq(k.buf, Chunk(k) + 1, Len(k.buf))) = Len(k.buf) - Chunk(k)
          /\ \A n \in 1 .. Len(k.buf) - Chunk(k) :
               SubSeq(k.buf, Chunk(k) + 1, Len(k.buf))[n] = k.buf[Chunk(k) + n]
      <4>1. PICK m \in Nat, l \in Nat : m = Chunk(k) /\ l = Len(k.buf)
        BY <2>1
      <4>2. m <= l /\ \A i \in m + 1 .. l : i \in 1 .. l
        BY <2>1, <3>1, <4>1
      <4>3. /\ Len(SubSeq(k.buf, m + 1, l)) = (IF m + 1 <= l THEN l - (m + 1) + 1 ELSE 0)
            /\ \A n \in 1 .. l - (m + 1) + 1 : SubSeq(k.buf, m + 1, l)[n] = k.buf[(m + 1) + n - 1]
        BY <2>1, <4>1, <4>2, SubSeqProperties
      <4>4. (IF m + 1 <= l THEN l - (m + 1) + 1 ELSE 0) = l - m /\ l - (m + 1) + 1 = l - m
        BY <4>2
      <4>5. \A n \in 1 .. l - m : (m + 1) + n - 1 = m + n
        OBVIOUS
      <4>6. Len(SubSeq(k.buf, m + 1, l)) = l - m
        BY <4>3, <4>4
      <4>7. \A n \in 1 .. l - m : SubSeq(k.buf, m + 1, l)[n] = k.buf[m + n]
        BY <4>3, <4>4, <4>5
      <4>8. QED
        BY <4>1, <4>6, <4>7
    <3>4. QED
      BY <2>3, <3>3
  <2>5. Job(Rest(k)) = [c \in k.at + Chunk(k) .. k.at + Len(k.buf) - 1 |->
                         [keep |-> Rest(k).buf[c - (k.at + Chunk(k)) + 1], set |-> {}]]
    <3>1. Kind(Rest(k)) = "program"
      BY <1>1, <1>2, <2>3 DEF Kind
    <3>2. Rest(k).at + Len(Rest(k).buf) - 1 = k.at + Len(k.buf) - 1
      <4>1. Rest(k).at = k.at + Chunk(k) /\ Len(Rest(k).buf) = Len(k.buf) - Chunk(k) /\ Chunk(k) \in Nat
        BY <2>1, <2>3, <2>4
      <4>2. QED
        <5>1. PICK m \in Nat, l \in Nat, a \in Nat : m = Chunk(k) /\ l = Len(k.buf) /\ a = k.at
          BY <2>1, <4>1
        <5>2. PICK p \in Int, q \in Int : p = a + m /\ q = l - m
          OBVIOUS
        <5>3. p + q - 1 = a + l - 1
          BY <5>2
        <5>4. Rest(k).at = p /\ Len(Rest(k).buf) = q
          BY <4>1, <5>1, <5>2, Zenon
        <5>5. Rest(k).at + Len(Rest(k).buf) - 1 = p + q - 1
          BY <5>4, Zenon
        <5>6. k.at + Len(k.buf) - 1 = a + l - 1
          BY <5>1, Zenon
        <5>7. QED
          BY <5>3, <5>5, <5>6, Zenon
    <3>3. QED
      BY <2>3, <3>1, <3>2 DEF Job
  <2>6. ASSUME NEW c \in k.at + Chunk(k) .. k.at + Len(k.buf) - 1
        PROVE  Rest(k).buf[c - (k.at + Chunk(k)) + 1] = k.buf[c - k.at + 1]
    <3>1. c - (k.at + Chunk(k)) + 1 \in 1 .. Len(k.buf) - Chunk(k)
          /\ Chunk(k) + (c - (k.at + Chunk(k)) + 1) = c - k.at + 1
      <4>1. PICK m \in Nat, l \in Nat, a \in Nat : m = Chunk(k) /\ l = Len(k.buf) /\ a = k.at
        BY <2>1
      <4>2. c \in a + m .. a + l - 1
        BY <2>6, <4>1
      <4>3. c - (a + m) + 1 \in 1 .. l - m /\ m + (c - (a + m) + 1) = c - a + 1
        BY <4>2
      <4>4. QED
        BY <4>1, <4>3
    <3>2. QED
      BY <2>4, <3>1
  <2>7. (DOMAIN Job(k)) \ Touched(k) = k.at + Chunk(k) .. k.at + Len(k.buf) - 1
    BY <2>1, <2>2
  <2>8. \A c \in k.at + Chunk(k) .. k.at + Len(k.buf) - 1 :
          Job(k)[c] = [keep |-> k.buf[c - k.at + 1], set |-> {}]
    BY <2>1, <2>2
  <2>9. QED
    BY <2>5, <2>6, <2>7, <2>8 DEF Abstract!Without
<1>3. CASE ~(Kind(k) = "program" /\ Chunk(k) < Len(k.buf))
  <2>1. Rest(k).cmds = <<>>
    BY <1>1, <1>3 DEF Rest, CallType, Kind
  <2>2. Job(Rest(k)) = NoChange
    BY <2>1, OtherJob DEF Kind
  <2>3. (DOMAIN Job(k)) \ Touched(k) = {}
    <3>1. CASE Kind(k) = "program"
      <4>1. k.at \in Nat /\ Chunk(k) \in 1 .. Len(k.buf) /\ Len(k.buf) \in Nat
            /\ Touched(k) = k.at .. k.at + Chunk(k) - 1
        BY <3>1, ChunkCells DEF Names
      <4>2. Chunk(k) = Len(k.buf)
        BY <1>3, <3>1, <4>1
      <4>3. DOMAIN Job(k) = k.at .. k.at + Len(k.buf) - 1
        BY <3>1 DEF Job
      <4>4. QED
        BY <4>1, <4>2, <4>3
    <3>2. CASE Kind(k) = "erase"
      BY <1>1, <3>2 DEF Touched, Job, Kind
    <3>3. QED
      BY <3>1, <3>2 DEF Names
  <2>4. Abstract!Without(Job(k), Touched(k)) = [c \in {} |-> Job(k)[c]]
    BY <2>3 DEF Abstract!Without
  <2>5. QED
    BY <2>2, <2>4, NoJob
<1>4. QED
  BY <1>2, <1>3

LEMMA StepTodo ==
  ASSUME RInv, NEW x \in Contexts, Step(x)
  PROVE  /\ Todo' = [Todo EXCEPT ![x] = Job(Left(x)')] /\ Todo[x] = Job(Left(x))
         /\ ctx # "off" /\ ctx' # "off"
<1>1. ASSUME NEW y \in Contexts, y # x PROVE Left(y)' = Left(y)
  <2>1. ctx = x /\ pc[y] \in {"idle", "begin"} /\ pc'[y] = pc[y] /\ call'[y] = call[y]
    BY <1>1, OtherStays, OtherWaits DEF RInv, KInv, IInv
  <2>2. QED
    BY <2>1 DEF Left, ChunkDone
<1>2. Todo' = [y \in Contexts |-> Job(Left(y)')]
  BY DEF Todo, Job
<1>3. ctx = x /\ ctx' = x
  BY DEF Step, Call, Begin, ReadRegister, ReadByte, WriteEnable, Command, WaitDone, Restore, At
<1>4. QED
  BY <1>1, <1>2, <1>3 DEF Todo

LEMMA Stutters ==
  ASSUME nv' = nv, Todo' = Todo, (ctx' # "off") <=> (ctx # "off")
  PROVE  UNCHANGED Abstract!vars
<1>1. (ctx' # "off") = (ctx # "off")
  OBVIOUS
<1>2. QED
  BY <1>1 DEF Abstract!vars, Todo, Job, Left, Protected

LEMMA CallMapped == ASSUME RInv, NEW x \in Contexts, Call(x) PROVE Abstract!Start(x)
<1>1. PICK k \in Calls[x] : call' = [call EXCEPT ![x] = k]
  BY DEF Call
<1>2. nv' = nv /\ pc[x] = "idle" /\ pc'[x] = "begin" /\ call'[x] = k /\ call[x] = Quiet
  BY <1>1 DEF Call, At, Goto, chip, RInv, RangeInv, KInv, IInv, CoreInv, CoreType, DataType
<1>3. Left(x) = Quiet /\ Left(x)' = k
  BY <1>2 DEF Left, ChunkDone
<1>4. k \in CallType /\ (Kind(k) \in {"program", "erase"} => Names(k))
  BY CallsAssumption DEF Kind, Names
<1>5. Abstract!IsJob(Job(k))
  BY <1>4, JobType, OtherJob, NoJob
<1>6. Todo' = [Todo EXCEPT ![x] = Job(k)] /\ Todo[x] = NoChange /\ ctx # "off" /\ ctx' # "off"
  BY <1>3, StepTodo, OtherJob DEF Step, Kind, Quiet
<1>7. Todo'[x] = Job(k)
  BY <1>6 DEF Todo
<1>8. /\ Abstract!Idle(Todo[x]) /\ Abstract!IsJob(Todo'[x]) /\ Todo' = [Todo EXCEPT ![x] = Todo'[x]]
  BY <1>5, <1>6, <1>7, NoJob DEF Abstract!Idle
<1>9. Protected(nv') = Protected(nv)
  BY <1>2
<1>10. QED
  BY <1>2, <1>6, <1>8, <1>9 DEF Abstract!Start, Todo, Job, Left, Protected

\* A command of another kind leaves nothing to do.
LEMMA RestOther ==
  ASSUME RInv, NEW x \in Contexts, pc[x] # "idle", Cmd(x) \notin {"program", "erase"}
  PROVE  Job(call[x]) = NoChange /\ Job(Rest(call[x])) = NoChange
<1>1. Kind(call[x]) = Cmd(x)
  BY DEF RInv, KInv, IInv, CommandInv, Kind, Cmd
<1>2. Kind(Rest(call[x])) \notin {"program", "erase"}
  <2>1. CASE Rest(call[x]).cmds = <<>>
    BY <2>1 DEF Kind
  <2>2. CASE Rest(call[x]).cmds # <<>>
    BY <2>2, RestFollows DEF RInv, Kind, Follows
  <2>3. QED
    BY <2>1, <2>2
<1>3. QED
  BY <1>1, <1>2, OtherJob

\* A step that is not the end of a command is none to the caller.
LEMMA QuietMapped ==
  ASSUME RInv, NEW x \in Contexts,
         Begin(x) \/ ReadRegister(x) \/ ReadByte(x) \/ WriteEnable(x) \/ Restore(x)
  PROVE  UNCHANGED Abstract!vars
<1>1. Step(x) /\ nv' = nv
  BY DEF Step, Begin, ReadRegister, ReadByte, WriteEnable, Restore, chip
<1>2. pc \in [Contexts -> Places] /\ call \in [Contexts -> CallType] /\ pc[x] # "idle"
      /\ call[x].cmds # <<>>
  BY DEF RInv, KInv, IInv, CoreInv, CoreType, DataType, CommandInv, Begin, ReadRegister, ReadByte, WriteEnable,
         Restore, At
<1>3. Job(Left(x)') = Job(Left(x))
  <2>1. CASE Begin(x) \/ WriteEnable(x)
    <3>1. pc[x] \in {"begin", "send"} /\ pc'[x] \in {"send", "command"} /\ call' = call
      BY <1>2, <2>1 DEF Begin, WriteEnable, At, Goto
    <3>2. QED
      BY <3>1 DEF Left, ChunkDone
  <2>2. CASE ReadRegister(x) \/ ReadByte(x)
    <3>1. Cmd(x) \notin {"program", "erase"} /\ pc[x] = "send" /\ pc'[x] \in {"send", "restore"}
          /\ call'[x].cmds = call[x].cmds /\ call'[x] \in CallType
      <4>1. call' \in [Contexts -> CallType]
        BY <1>1, StepInv DEF RInv, KInv, IInv, DataType, Next
      <4>2. QED
        BY <1>2, <2>2, <4>1 DEF ReadRegister, ReadByte, At, Goto, Reads, CallType
    <3>2. Left(x) = call[x] /\ Left(x)' \in {call'[x], Rest(call'[x])}
      BY <3>1 DEF Left, ChunkDone
    <3>3. Job(call[x]) = NoChange
      BY <1>2, <3>1, RestOther
    <3>4. Kind(call'[x]) \notin {"program", "erase"} /\ Kind(Rest(call'[x])) \notin {"program", "erase"}
      <4>1. Kind(call'[x]) = Cmd(x)
        BY <1>2, <3>1 DEF Kind, Cmd
      <4>2. Rest(call'[x]).cmds = Tail(call[x].cmds)
        BY <3>1, RestType, <1>2 DEF Cmd
      <4>3. Rest(call[x]).cmds = Tail(call[x].cmds)
        BY <1>2, <3>1, RestType DEF Cmd
      <4>4. Kind(Rest(call[x])) \notin {"program", "erase"}
        BY <1>2, <3>1, RestFollows DEF RInv, Kind, Follows
      <4>5. QED
        BY <3>1, <4>1, <4>2, <4>3, <4>4 DEF Kind
    <3>5. QED
      BY <3>2, <3>3, <3>4, OtherJob
  <2>3. CASE Restore(x)
    <3>1. pc[x] = "restore" /\ pc'[x] \in {"idle", "begin"} /\ Left(x) = Rest(call[x]) /\ Left(x)' = call'[x]
      BY <1>2, <2>3 DEF Restore, At, Goto, Left, ChunkDone
    <3>2. call'[x] = IF Rest(call[x]).cmds = <<>> THEN Quiet ELSE Rest(call[x])
      BY <1>2, <2>3 DEF Restore
    <3>3. Rest(call[x]).cmds = <<>> => Kind(Rest(call[x])) = "none" /\ Kind(Quiet) = "none"
      BY DEF Kind, Quiet
    <3>4. QED
      BY <3>1, <3>2, <3>3, OtherJob
  <2>4. QED
    BY <2>1, <2>2, <2>3
<1>4. Todo' = Todo
  BY <1>1, <1>3, StepTodo DEF Todo
<1>5. QED
  BY <1>1, <1>4, StepTodo, Stutters

LEMMA ProtectedCells == ASSUME NEW v PROVE Protected(v) \in SUBSET Cells
<1>1. Area[v.status \cap BpBits] \subseteq Main
  BY FlashAssumption
<1>2. QED
  BY <1>1 DEF Protected, Cells

\* The end of a command is the end of a piece of the job, done or refused, or
\* changes what is protected.
LEMMA EndMapped ==
  ASSUME RInv, NEW x \in Contexts, Step(x), pc[x] \in {"command", "wait"}, ~ChunkDone(x), ChunkDone(x)',
         call' = call, IF Touched(call[x]) \cap Protected(nv) = {} THEN nv' = Effect(call[x]) ELSE nv' = nv
  PROVE  Abstract!Protect \/ \E S \in SUBSET DOMAIN Todo[x] : Abstract!Piece(x, S)
<1> DEFINE k == call[x]
<1>1. /\ k \in CallType /\ k.cmds # <<>> /\ nv \in NvType /\ Cmd(x) \in Writes /\ pc[x] # "idle"
      /\ RangeInv(x)
  BY DEF RInv, KInv, IInv, DataType, CommandInv
<1>2. Left(x) = k /\ Left(x)' = Rest(k)
  BY DEF Left
<1>3. /\ Todo' = [Todo EXCEPT ![x] = Job(Rest(k))] /\ Todo[x] = Job(k) /\ ctx # "off" /\ ctx' # "off"
  BY <1>2, StepTodo
<1>4. CASE Cmd(x) \in {"program", "erase"}
  <2> DEFINE S == Touched(k)
  <2>1. Names(k)
    BY <1>1, <1>4 DEF RangeInv, Names, Kind, Cmd
  <2>2. S # {} /\ S \subseteq DOMAIN Todo[x] /\ Todo' = [Todo EXCEPT ![x] = Abstract!Without(@, S)]
    BY <1>1, <1>3, <2>1, JobType, RestOfJob
  <2>3. nv'.mem = [c \in Cells |-> IF c \in S /\ S \cap Protected(nv) = {}
                                     THEN Abstract!Changed(nv.mem[c], Todo[x][c]) ELSE nv.mem[c]]
    <3>1. CASE S \cap Protected(nv) = {}
      <4>1. nv' = Effect(k)
        BY <3>1
      <4>2. \A c \in Cells : c \in S => Effect(k).mem[c] = Abstract!Changed(nv.mem[c], Todo[x][c])
        BY <1>1, <1>3, <2>1, EffectOfJob
      <4>3. \A c \in Cells : c \notin S => Effect(k).mem[c] = nv.mem[c]
        BY <1>1, Untouched DEF Cmd
      <4>4. nv'.mem \in [Cells -> Byte]
        BY StepInv DEF RInv, KInv, IInv, DataType, NvType, Next
      <4>5. QED
        BY <3>1, <4>1, <4>2, <4>3, <4>4
    <3>2. CASE ~(S \cap Protected(nv) = {})
      <4>1. nv' = nv /\ nv.mem \in [Cells -> Byte]
        BY <1>1, <3>2 DEF NvType
      <4>2. QED
        BY <3>2, <4>1
    <3>3. QED
      BY <3>1, <3>2
  <2>4. Protected(nv') = Protected(nv)
    <3>1. nv'.status = nv.status /\ nv'.config = nv.config
      BY <1>1, <1>4 DEF Effect, Cmd, NvType
    <3>2. QED
      BY <3>1 DEF Protected
  <2>5. Abstract!Piece(x, S)
    BY <1>3, <2>2, <2>3, <2>4 DEF Abstract!Piece, Todo, Job, Left, Protected
  <2>6. QED
    BY <2>2, <2>5 DEF Abstract!Piece
<1>5. CASE Cmd(x) \notin {"program", "erase"}
  <2>1. Todo' = Todo
    <3>1. Job(Rest(k)) = Todo[x]
      BY <1>1, <1>3, <1>5, RestOther
    <3>2. QED
      BY <1>3, <3>1 DEF Todo
  <2>2. nv'.mem = nv.mem
    BY <1>1, <1>5 DEF Effect, Writes, Cmd, NvType
  <2>3. Protected(nv') \in SUBSET Cells
    BY ProtectedCells
  <2>4. Abstract!Protect
    BY <1>3, <2>1, <2>2, <2>3 DEF Abstract!Protect, Todo, Job, Left, Protected
  <2>5. QED
    BY <2>4
<1>6. QED
  BY <1>4, <1>5

LEMMA CommandMapped ==
  ASSUME RInv, NEW x \in Contexts, Command(x) \/ WaitDone(x)
  PROVE  \/ UNCHANGED Abstract!vars
         \/ Abstract!Protect \/ \E S \in SUBSET DOMAIN Todo[x] : Abstract!Piece(x, S)
<1>1. /\ Step(x) /\ ctx = x /\ call' = call /\ pc \in [Contexts -> Places] /\ busy \in 0 .. MaxBusy
      /\ polls \in 0 .. MaxPolls /\ CallInv(x)
  BY DEF Step, Command, WaitDone, At, RInv, KInv, IInv, CoreInv, CoreType
<1>2. CASE Command(x)
  <2>1. pc[x] = "command" /\ pc'[x] = "wait" /\ ~ChunkDone(x) /\ wel /\ busy = 0
    BY <1>1, <1>2 DEF Command, At, Goto, ChunkDone, CallInv, EffectInv, RInv, KInv, IInv, CoreInv, ChipInv
  <2>2. CASE busy' = 0
    <3>1. ChunkDone(x)'
      BY <2>1, <2>2 DEF ChunkDone
    <3>2. IF Touched(call[x]) \cap Protected(nv) = {} THEN nv' = Effect(call[x]) ELSE nv' = nv
      BY <1>2, <2>1, <2>2 DEF Command, Accepted
    <3>3. QED
      BY <1>1, <2>1, <3>1, <3>2, EndMapped
  <2>3. CASE busy' # 0
    <3>1. nv' = nv /\ ~ChunkDone(x)'
      BY <1>2, <2>1, <2>3 DEF Command, ChunkDone
    <3>2. Left(x)' = Left(x)
      BY <1>1, <2>1, <3>1 DEF Left
    <3>3. Todo' = Todo /\ ctx # "off" /\ ctx' # "off"
      BY <1>1, <3>2, StepTodo DEF Todo
    <3>4. QED
      BY <3>1, <3>3, Stutters
  <2>4. QED
    BY <2>2, <2>3
<1>3. CASE WaitDone(x)
  <2>1. pc[x] = "wait" /\ busy + polls <= MaxBusy
    BY <1>1, <1>3 DEF WaitDone, At, RInv, KInv, IInv, CoreInv, ChipInv
  <2>2. CASE busy = 1
    <3>1. ~GivesUp
      BY <1>1, <2>1, <2>2, FlashAssumption DEF GivesUp
    <3>2. busy' = 0 /\ nv' = goal /\ pc' = pc
      BY <1>3, <2>2, <3>1 DEF WaitDone
    <3>3. ~ChunkDone(x) /\ ChunkDone(x)'
      BY <2>1, <2>2, <3>2 DEF ChunkDone
    <3>4. goal = Effect(call[x]) /\ Touched(call[x]) \cap Protected(nv) = {}
      BY <1>1, <2>1, <2>2 DEF CallInv, EffectInv
    <3>5. QED
      BY <1>1, <2>1, <3>2, <3>3, <3>4, EndMapped
  <2>3. CASE busy # 1
    <3>1. nv' = nv /\ (busy = 0 => pc'[x] = "restore") /\ (busy # 0 => pc' = pc /\ busy' > 0)
      <4>1. CASE busy = 0
        BY <1>1, <1>3, <4>1 DEF WaitDone, Goto
      <4>2. CASE busy # 0
        <5>1. ~GivesUp
          BY <1>1, <2>1, <4>2, FlashAssumption DEF GivesUp
        <5>2. QED
          BY <1>1, <1>3, <2>3, <4>2, <5>1, FlashAssumption DEF WaitDone
      <4>3. QED
        BY <4>1, <4>2
    <3>2. ChunkDone(x)' = ChunkDone(x)
      BY <1>1, <2>1, <3>1, FlashAssumption DEF ChunkDone
    <3>3. Left(x)' = Left(x)
      BY <1>1, <3>2 DEF Left
    <3>4. Todo' = Todo /\ ctx # "off" /\ ctx' # "off"
      BY <1>1, <3>3, StepTodo DEF Todo
    <3>5. QED
      BY <3>1, <3>4, Stutters
  <2>4. QED
    BY <2>2, <2>3
<1>4. QED
  BY <1>2, <1>3

\* A loss of power tears the cells of the command under way and no others.
LEMMA PowerLossMapped == ASSUME RInv, PowerLoss PROVE Abstract!PowerLoss
<1>1. /\ ctx # "off" /\ ctx' = "off" /\ pc' = [x \in Contexts |-> "idle"]
      /\ call' = [x \in Contexts |-> Quiet] /\ nv \in NvType
  BY DEF PowerLoss, RInv, KInv, IInv, DataType
<1>2. Todo' = [x \in Contexts |-> NoChange]
  <2>1. \A x \in Contexts : Left(x)' = Quiet
    BY <1>1 DEF Left, ChunkDone
  <2>2. Job(Quiet) = NoChange
    BY OtherJob DEF Kind, Quiet
  <2>3. Todo' = [x \in Contexts |-> Job(Left(x)')]
    BY DEF Todo, Job
  <2>4. QED
    BY <2>1, <2>2, <2>3
<1>3. nv'.mem \in [Cells -> Abstract!Byte] /\ Protected(nv') \in SUBSET Cells
  <2>1. nv' \in NvType
    BY PowerLossData DEF RInv, KInv, DataType
  <2>2. QED
    BY <2>1, ProtectedCells DEF NvType, Byte, Abstract!Byte
<1>4. \A change : \A c \in Cells : Abstract!Between(nv.mem[c], nv.mem[c], Abstract!Changed(nv.mem[c], change))
  BY DEF Abstract!Between
<1>5. PICK x \in Contexts : \A c \in Cells :
         IF c \in DOMAIN Todo[x] \ Protected(nv)
           THEN Abstract!Between(nv'.mem[c], nv.mem[c], Abstract!Changed(nv.mem[c], Todo[x][c]))
           ELSE nv'.mem[c] = nv.mem[c]
  <2>1. CASE busy > 0
    <3> DEFINE k == call[ctx]
    <3>1. /\ ctx \in Contexts /\ pc[ctx] = "wait" /\ goal = Effect(k) /\ nv' \in Torn
          /\ Touched(k) \cap Protected(nv) = {} /\ Todo[ctx] = Job(k)
      BY <2>1, UnderWay DEF PowerLoss, RInv, Todo, Left
    <3>2. k \in CallType /\ k.cmds # <<>> /\ Cmd(ctx) \in Writes /\ RangeInv(ctx)
      BY <3>1 DEF RInv, KInv, IInv, DataType, CommandInv
    <3>3. \A c \in Cells : Between(nv'.mem[c], nv.mem[c], goal.mem[c])
      BY <3>1 DEF Torn
    <3>4. \A c \in Cells : c \notin Touched(k) => nv'.mem[c] = nv.mem[c]
      <4>1. SUFFICES ASSUME NEW c \in Cells, c \notin Touched(k) PROVE nv'.mem[c] = nv.mem[c]
        OBVIOUS
      <4>2. goal.mem[c] = nv.mem[c]
        BY <1>1, <3>1, <3>2, <4>1, Untouched DEF Cmd
      <4>3. QED
        BY <3>3, <4>2 DEF Between
    <3>5. ASSUME NEW c \in Cells, c \in Touched(k)
          PROVE  /\ c \in DOMAIN Todo[ctx] \ Protected(nv)
                 /\ Abstract!Between(nv'.mem[c], nv.mem[c], Abstract!Changed(nv.mem[c], Todo[ctx][c]))
      <4>1. Names(k)
        BY <3>1, <3>2, <3>5 DEF Touched, RangeInv, Names, Kind, Cmd
      <4>2. goal.mem[c] = Abstract!Changed(nv.mem[c], Todo[ctx][c])
        BY <1>1, <3>1, <3>2, <3>5, <4>1, EffectOfJob
      <4>3. QED
        BY <3>1, <3>2, <3>3, <3>5, <4>1, <4>2, JobType DEF Between, Abstract!Between
    <3>6. \A c \in Cells :
            IF c \in DOMAIN Todo[ctx] \ Protected(nv)
              THEN Abstract!Between(nv'.mem[c], nv.mem[c], Abstract!Changed(nv.mem[c], Todo[ctx][c]))
              ELSE nv'.mem[c] = nv.mem[c]
      BY <1>4, <3>4, <3>5
    <3>7. QED
      BY <3>1, <3>6
  <2>2. CASE ~(busy > 0)
    <3>1. nv' = nv
      BY <2>2 DEF PowerLoss
    <3>2. QED
      BY <1>4, <3>1
  <2>3. QED
    BY <2>1, <2>2
<1>6. QED
  BY <1>1, <1>2, <1>3, <1>5 DEF Abstract!PowerLoss, Todo, Job, Left, Protected, NoChange

LEMMA InitMapped == Init => Abstract!Init
<1>1. SUFFICES ASSUME Init PROVE Abstract!Init
  OBVIOUS
<1>2. nv \in NvType /\ ctx = "main"
  BY <1>1, InitData DEF DataType, Init
<1>3. Todo = [x \in Contexts |-> NoChange]
  <2>1. \A x \in Contexts : Left(x) = Quiet
    BY <1>1 DEF Init, Left, ChunkDone
  <2>2. Job(Quiet) = NoChange
    BY OtherJob DEF Kind, Quiet
  <2>3. QED
    BY <2>1, <2>2 DEF Todo
<1>4. nv.mem \in [Cells -> Abstract!Byte] /\ Protected(nv) \in SUBSET Cells
  BY <1>2, ProtectedCells DEF NvType, Byte, Abstract!Byte
<1>5. QED
  BY <1>2, <1>3, <1>4 DEF Abstract!Init, Todo, Job, Left, Protected, NoChange

LEMMA StepMapped == RInv /\ [Next]_vars => [Abstract!Next]_Abstract!vars
<1>1. SUFFICES ASSUME RInv, [Next]_vars PROVE [Abstract!Next]_Abstract!vars
  OBVIOUS
<1>2. ASSUME NEW x \in Contexts, Step(x) PROVE [Abstract!Next]_Abstract!vars
  <2>1. CASE Call(x)
    <3>1. Abstract!Start(x)
      BY <1>1, <2>1, CallMapped
    <3>2. QED
      BY <3>1 DEF Abstract!Next
  <2>2. CASE Command(x) \/ WaitDone(x)
    <3>1. CASE \E S \in SUBSET DOMAIN Todo[x] : Abstract!Piece(x, S)
      BY <3>1 DEF Abstract!Next, Todo, Job, Left
    <3>2. CASE Abstract!Protect
      BY <3>2 DEF Abstract!Next
    <3>3. QED
      BY <1>1, <2>2, <3>1, <3>2, CommandMapped
  <2>3. CASE Begin(x) \/ ReadRegister(x) \/ ReadByte(x) \/ WriteEnable(x) \/ Restore(x)
    BY <1>1, <2>3, QuietMapped
  <2>4. QED
    BY <1>2, <2>1, <2>2, <2>3 DEF Step
<1>3. CASE Interrupt \/ IsrReturn \/ SetIrq \/ UNCHANGED vars
  <2>1. nv' = nv /\ pc' = pc /\ call' = call /\ busy' = busy /\ ((ctx' # "off") <=> (ctx # "off"))
    BY <1>3 DEF Interrupt, IsrReturn, SetIrq, At, vars, chip, driver
  <2>2. Todo' = Todo
    BY <2>1 DEF Todo, Job, Left, ChunkDone
  <2>3. QED
    BY <2>1, <2>2, Stutters
<1>4. CASE PowerOn
  <2>1. nv' = nv /\ pc' = pc /\ call' = call /\ busy' = busy /\ ctx = "off" /\ ctx' = "main"
    BY <1>4 DEF PowerOn, chip, driver
  <2>2. Todo' = Todo /\ Protected(nv') = Protected(nv)
    BY <2>1 DEF Todo, Job, Left, ChunkDone
  <2>3. Abstract!PowerOn
    BY <2>1, <2>2 DEF Abstract!PowerOn, Todo, Job, Left, Protected
  <2>4. QED
    BY <2>3 DEF Abstract!Next
<1>5. CASE PowerLoss
  <2>1. Abstract!PowerLoss
    BY <1>1, <1>5, PowerLossMapped
  <2>2. QED
    BY <2>1 DEF Abstract!Next
<1>6. QED
  BY <1>1, <1>2, <1>3, <1>4, <1>5 DEF Next

\* The driver and the chip are the flash that FlashMemory describes: every byte
\* of a buffer, cut at the page ends, is programmed once and where it belongs, a
\* sector is erased as a whole, protected cells are refused, and a loss of power
\* tears only what was under way (flash.c:235-248, :338-351).
THEOREM ImplementsCorrect == Spec => Implements
  BY InitMapped, StepMapped, RInvHolds, PTL DEF Spec, Implements, Abstract!Spec
=============================================================================
