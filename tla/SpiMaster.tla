----------------------------- MODULE SpiMaster -----------------------------
(***************************************************************************)
(* The SPI master (drivers/spi.c, spi.h) and the transfer hardware.        *)
(*                                                                         *)
(* A call is a list of steps: it sets up a transfer, which starts at once, *)
(* then feeds the transmit FIFO and empties the receive FIFO while the     *)
(* hardware shifts, and waits for the transfer to end.  A call that uses   *)
(* DMA leaves the feeding and emptying to the hardware and returns.        *)
(* The slave answers with the bytes 1, 2, 3, ...                           *)
(***************************************************************************)
EXTENDS Integers, Sequences, SequencesExt

CONSTANTS
    FifoSize,       \* bytes each FIFO holds; also the chunk of a full duplex transfer: 8
    MaxLen,         \* the longest transfer modelled
    SpiCalls        \* the calls made

WritesByCpu == {"write", "write_read", "write_plus"}
ReadsByCpu == {"write_read", "read_plus"}
OnlyWrites == {"write", "write_plus", "write_dma", "write_dma_plus"}
OnlyReads == {"read_plus", "read_dma_plus"}
WithHeader == {"write_plus", "read_plus", "write_dma_plus", "read_dma_plus"}

\* The CPU's loops are not asked for transfers of no bytes, and an address is
\* never 0 (the code leaves the register as it was: spi.c:412).
ASSUME SpiAssumption ==
    /\ FifoSize \in Nat \ {0, 1} /\ MaxLen \in Nat
    /\ \A c \in SpiCalls :
         /\ c \in [f : WritesByCpu \cup ReadsByCpu \cup OnlyWrites \cup OnlyReads
                          \cup {"write_read_dma", "full_duplex"},
                   cmd : Nat, addr : Nat, data : Seq(Nat), n : 0 .. MaxLen]
         /\ c.f \in WritesByCpu => c.data # <<>>
         /\ c.f \in ReadsByCpu => c.n > 0
         /\ c.f \in OnlyWrites => c.n = 0
         /\ c.f \in OnlyReads => c.data = <<>>
         /\ (c.cmd # 0 <=> c.f \in WithHeader) /\ (c.f \in WithHeader => c.addr # 0)

VARIABLES
    spi_todo,       \* the steps of the call in progress not yet done
    spi,            \* the hardware
    wire,           \* what the slave got: header and bytes of this transfer
    rd_data,        \* the bytes stored for the caller, 0 where none
    spi_call        \* observer: the call

spiVars == <<spi_todo, spi, wire, rd_data, spi_call>>

----------------------------------------------------------------------------
(* Calls.                                                                  *)

Setup(mode, tx, rx, header) ==
    [do |-> "setup", mode |-> mode, tx |-> tx, rx |-> rx, header |-> header]
Write(bytes) == [do |-> "write", bytes |-> bytes]

\* Stores n bytes from place "at" on; a full duplex transfer then clears both
\* FIFOs.
Read(at, n, clears) == [do |-> "read", at |-> at, n |-> n, clears |-> clears]
Wait == [do |-> "wait"]
Dma(bytes, n) == [do |-> "dma", bytes |-> bytes, n |-> n]

spi_master_write(data) == <<Setup("turns", Len(data), 0, <<>>), Write(data), Wait>>

spi_master_write_read(wr, n) ==
    <<Setup("turns", Len(wr), n, <<>>), Write(wr), Read(0, n, FALSE), Wait>>

spi_master_write_plus(cmd, addr, data) ==
    <<Setup("turns", Len(data), 0, <<cmd, addr>>), Write(data), Wait>>

spi_master_read_plus(cmd, addr, n) ==
    <<Setup("turns", 0, n, <<cmd, addr>>), Read(0, n, FALSE), Wait>>

spi_master_write_dma(data) == <<Setup("turns", Len(data), 0, <<>>), Dma(data, 0)>>
spi_master_write_read_dma(tx, n) == <<Setup("turns", Len(tx), n, <<>>), Dma(tx, n)>>
spi_master_write_dma_plus(cmd, addr, data) ==
    <<Setup("turns", Len(data), 0, <<cmd, addr>>), Dma(data, 0)>>
spi_master_read_dma_plus(cmd, addr, n) ==
    <<Setup("turns", 0, n, <<cmd, addr>>), Dma(<<>>, n)>>

\* Mutant: the last chunk does not make up for the byte the first left.
ChunkReadEven(i, chunk, len) ==
    Read(IF i = 0 THEN 0 ELSE i - 1, IF i = 0 /\ len >= FifoSize THEN chunk - 1 ELSE chunk, TRUE)

\* What is read after the chunk written at i.
ChunkRead(i, chunk, len) ==
    IF len < FifoSize THEN Read(0, chunk, TRUE)
    ELSE IF i = 0 THEN Read(0, chunk - 1, TRUE)
    ELSE IF len - i > FifoSize THEN Read(i - 1, chunk, TRUE)
    ELSE Read(i - 1, chunk + 1, TRUE)

spi_master_write_read_full_duplex(data) ==
    LET len == Len(data)
        Chunk(j) == LET i == j * FifoSize
                        chunk == IF FifoSize > len - i THEN len - i ELSE FifoSize
                    IN  <<Write(SubSeq(data, i + 1, i + chunk)), ChunkRead(i, chunk, len)>>
    IN  <<Setup("both", len, len, <<>>)>>
          \o FlattenSeq([j \in 1 .. (len + FifoSize - 1) \div FifoSize |-> Chunk(j - 1)])
          \o <<Wait>>

Steps(c) ==
    CASE c.f = "write"        -> spi_master_write(c.data)
      [] c.f = "write_read"   -> spi_master_write_read(c.data, c.n)
      [] c.f = "write_plus"   -> spi_master_write_plus(c.cmd, c.addr, c.data)
      [] c.f = "read_plus"    -> spi_master_read_plus(c.cmd, c.addr, c.n)
      [] c.f = "write_dma"    -> spi_master_write_dma(c.data)
      [] c.f = "write_read_dma" -> spi_master_write_read_dma(c.data, c.n)
      [] c.f = "write_dma_plus" -> spi_master_write_dma_plus(c.cmd, c.addr, c.data)
      [] c.f = "read_dma_plus"  -> spi_master_read_dma_plus(c.cmd, c.addr, c.n)
      [] c.f = "full_duplex"  -> spi_master_write_read_full_duplex(c.data)

----------------------------------------------------------------------------

NoSpiCall == [f |-> "none", cmd |-> 0, addr |-> 0, data |-> <<>>, n |-> 0]
NoData == [k \in 0 .. MaxLen - 1 |-> 0]

\* FIFOs, bytes still to send and to receive, the byte being shifted, the
\* number of the slave's next byte, and the buffer and place of the DMA.
SpiOff == [mode |-> "turns", tx |-> <<>>, rx |-> <<>>, txcnt |-> 0, rxcnt |-> 0,
           shift |-> <<>>, next |-> 1, dma |-> <<>>, dmaAt |-> 0, dmaN |-> 0]

SpiInit ==
    /\ spi_todo = <<>> /\ spi = SpiOff /\ wire = <<>> /\ rd_data = NoData
    /\ spi_call = NoSpiCall

spi_is_busy == spi.txcnt + spi.rxcnt > 0 \/ spi.shift # <<>>

\* After a call with DMA the caller waits for the transfer to end.
Transferring == spi_is_busy \/ spi.dma # <<>> \/ spi.dmaN > 0

SpiCall ==
    /\ spi_todo = <<>> /\ ~Transferring
    /\ \E c \in SpiCalls : spi_call' = c /\ spi_todo' = Steps(c)
    /\ rd_data' = NoData
    /\ UNCHANGED <<spi, wire>>

At(step) == spi_todo # <<>> /\ Head(spi_todo).do = step

\* A call clears the FIFOs it uses and turns their DMA off, or sets it up;
\* spi_master_write_dma finds its FIFO empty.  A full duplex transfer is
\* started before it clears: with the CPU ahead, no byte is in them yet.
SpiSetup ==
    /\ At("setup")
    /\ LET s == Head(spi_todo)
       IN  /\ spi' = [SpiOff EXCEPT !.mode = s.mode, !.txcnt = s.tx, !.rxcnt = s.rx]
           /\ wire' = s.header
    /\ spi_todo' = Tail(spi_todo)
    /\ UNCHANGED <<rd_data, spi_call>>

SpiDma ==
    /\ At("dma")
    /\ spi' = [spi EXCEPT !.dma = Head(spi_todo).bytes, !.dmaN = Head(spi_todo).n]
    /\ spi_todo' = Tail(spi_todo)
    /\ UNCHANGED <<wire, rd_data, spi_call>>

\* One turn of the loop of spi_write.
SpiWriteByte ==
    /\ At("write") /\ Len(spi.tx) < FifoSize
    /\ LET bytes == Head(spi_todo).bytes
       IN  /\ spi' = [spi EXCEPT !.tx = Append(@, Head(bytes))]
           /\ spi_todo' = IF Len(bytes) > 1 THEN [spi_todo EXCEPT ![1].bytes = Tail(bytes)]
                          ELSE Tail(spi_todo)
    /\ UNCHANGED <<wire, rd_data, spi_call>>

\* One turn of the loop of spi_read.
SpiReadByte ==
    /\ At("read") /\ spi.rx # <<>>
    /\ LET s == Head(spi_todo)
       IN  /\ rd_data' = [rd_data EXCEPT ![s.at] = Head(spi.rx)]
           /\ spi' = IF s.clears /\ s.n = 1 THEN [spi EXCEPT !.tx = <<>>, !.rx = <<>>]
                     ELSE [spi EXCEPT !.rx = Tail(@)]
           /\ spi_todo' = IF s.n > 1 THEN [spi_todo EXCEPT ![1].at = s.at + 1, ![1].n = s.n - 1]
                          ELSE Tail(spi_todo)
    /\ UNCHANGED <<wire, spi_call>>

SpiWait ==
    /\ At("wait") /\ ~spi_is_busy
    /\ spi_todo' = Tail(spi_todo)
    /\ UNCHANGED <<spi, wire, rd_data, spi_call>>

----------------------------------------------------------------------------
(* The hardware.                                                           *)

\* The next byte goes into the shift register while the last one is stored,
\* so that the clock does not stop while there is something to send.
Loaded(s) ==
    IF s.txcnt > 0 /\ s.tx # <<>>
      THEN [s EXCEPT !.shift = <<Head(s.tx)>>, !.tx = Tail(@), !.txcnt = @ - 1]
      ELSE [s EXCEPT !.shift = <<>>]

Received(s) == [s EXCEPT !.rx = Append(@, s.next), !.next = @ + 1, !.rxcnt = @ - 1]

Load ==
    /\ spi.shift = <<>> /\ Loaded(spi) # spi
    /\ spi' = Loaded(spi)
    /\ UNCHANGED <<spi_todo, wire, rd_data, spi_call>>

\* The full duplex loop relies on the CPU being ahead of the bus: it has
\* written a chunk and stored every byte before the next byte is shifted.
CpuAhead == At("wait") \/ (At("read") /\ spi.rx = <<>>)

\* A byte has been sent; full duplex, another has come in meanwhile.
Shift ==
    /\ spi.shift # <<>>
    /\ spi.mode = "both" => CpuAhead
    /\ wire' = wire \o spi.shift
    /\ spi' = Loaded(IF spi.mode = "both" THEN Received(spi) ELSE spi)
    /\ UNCHANGED <<spi_todo, rd_data, spi_call>>

\* Once all is sent, the bytes to read come in one after the other.
ShiftIn ==
    /\ spi.mode = "turns" /\ spi.txcnt = 0 /\ spi.shift = <<>>
    /\ spi.rxcnt > 0 /\ Len(spi.rx) < FifoSize
    /\ spi' = Received(spi)
    /\ UNCHANGED <<spi_todo, wire, rd_data, spi_call>>

TxDma ==
    /\ spi.dma # <<>> /\ Len(spi.tx) < FifoSize
    /\ spi' = [spi EXCEPT !.tx = Append(@, Head(spi.dma)), !.dma = Tail(@)]
    /\ UNCHANGED <<spi_todo, wire, rd_data, spi_call>>

RxDma ==
    /\ spi.dmaN > 0 /\ spi.rx # <<>>
    /\ rd_data' = [rd_data EXCEPT ![spi.dmaAt] = Head(spi.rx)]
    /\ spi' = [spi EXCEPT !.rx = Tail(@), !.dmaAt = @ + 1, !.dmaN = @ - 1]
    /\ UNCHANGED <<spi_todo, wire, spi_call>>

SpiNext ==
    \/ SpiCall \/ SpiSetup \/ SpiDma \/ SpiWriteByte \/ SpiReadByte \/ SpiWait
    \/ Load \/ Shift \/ ShiftIn \/ TxDma \/ RxDma

----------------------------------------------------------------------------

\* When a transfer has ended the slave has had the command, the address and
\* the bytes of the call, each once and in order, and each place of the
\* caller's buffer holds the byte the slave sent for it: no byte is lost or
\* read twice where chunks meet, FIFOs fill or run dry (spi.c:638-670).
SpiExchanged ==
    spi_todo = <<>> /\ ~Transferring /\ spi_call.f # "none" =>
      /\ wire = (IF spi_call.cmd = 0 THEN <<>> ELSE <<spi_call.cmd, spi_call.addr>>) \o spi_call.data
      /\ \A k \in 0 .. MaxLen - 1 : rd_data[k] = IF k < spi_call.n THEN k + 1 ELSE 0
=============================================================================
