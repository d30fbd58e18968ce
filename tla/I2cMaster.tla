------------------------------ MODULE I2cMaster ------------------------------
(***************************************************************************)
(* The I2C master (drivers/i2c.c) and the slave device on its bus.  Each   *)
(* write of reg_i2c_ctrl makes the hardware run some phases, always in the *)
(* same order: start, the slave's id with the direction, up to three bytes *)
(* out of adr, do and di, or one byte in, stop.  A call waits for each to  *)
(* end before it goes on.                                                  *)
(***************************************************************************)
EXTENDS Integers, Sequences, FiniteSetsExt

CONSTANTS
    AddrLens,       \* the address lengths of the slaves: 0 .. 3
    SlaveSize,      \* bytes of the slave's memory
    I2cCalls        \* the calls made

ASSUME I2cAssumption ==
    /\ SlaveSize \in Nat \ {0} /\ AddrLens \subseteq 0 .. 3
    /\ \A c \in I2cCalls :
         /\ c \in [op : {"write", "read"}, addr : Nat, buf : Seq(0 .. 255), n : Nat]
         /\ IF c.op = "write" THEN c.n = 0 ELSE c.buf = <<>> /\ c.n > 0

VARIABLES
    id_read,        \* FLD_I2C_WRITE_READ_BIT of reg_i2c_id
    i2c_call,       \* the call
    i2c_given,      \* how many of its commands have been given
    i2c_buf,        \* the bytes it has read
    slave,          \* the slave: what it does, address bytes got, pointer and memory
    i2c_want        \* observer: the memory as the calls ask for

i2cVars == <<id_read, i2c_call, i2c_given, i2c_buf, slave, i2c_want>>

----------------------------------------------------------------------------
(* Calls.  A command: the phases, what it does to the direction bit first, *)
(* and the bytes in adr, do and di, in the order they are sent.            *)

Ctrl(phases, dir, out) == [phases |-> phases, dir |-> dir, out |-> out]

\* reg_i2c_adr, reg_i2c_do, reg_i2c_di: the high byte first.
AddrBytes(addr, len) ==
    LET low == addr % 256
        middle == (addr \div 256) % 256
    IN  CASE len = 0 -> <<>>
          [] len = 1 -> <<low>>
          [] len = 2 -> <<middle, low>>
          [] len = 3 -> <<((addr \div 256) \div 256) % 256, middle, low>>

\* Mutant: the direction bit is left as the last call set it.
AddressKeepsDir(addr, len) == Ctrl({"start", "id"}, "kept", AddrBytes(addr, len))

Address(addr, len) == Ctrl({"start", "id"}, "write", AddrBytes(addr, len))
ReadId == Ctrl({"start", "id"}, "read", <<>>)
Stop == Ctrl({"stop"}, "kept", <<>>)

i2c_write_series(addr, len, buf) ==
    [k \in 1 .. Len(buf) + 2 |->
       IF k = 1 THEN Address(addr, len)
       ELSE IF k = Len(buf) + 2 THEN Stop ELSE Ctrl({}, "kept", <<buf[k - 1]>>)]

i2c_write_byte(addr, len, byte) == i2c_write_series(addr, len, <<byte>>)

\* The last byte read is marked (FLD_I2C_CMD_ACK): the slave lets go of the bus.
i2c_read_series(addr, len, n) ==
    [k \in 1 .. n + 3 |->
       IF k = 1 THEN Address(addr, len) ELSE IF k = 2 THEN ReadId ELSE IF k = n + 3 THEN Stop
       ELSE Ctrl(IF k = n + 2 THEN {"in", "last"} ELSE {"in"}, "kept", <<>>)]

i2c_read_byte(addr, len) == i2c_read_series(addr, len, 1)

Commands(c, len) ==
    CASE c.op = "none"  -> <<>>
      [] c.op = "write" -> i2c_write_series(c.addr, len, c.buf)
      [] c.op = "read"  -> i2c_read_series(c.addr, len, c.n)

----------------------------------------------------------------------------
(* The slave: a memory with an address pointer that counts up.             *)

Following(at) == (at + 1) % SlaveSize

\* A byte from the master is part of the address until that is complete.
Receive(s, byte) ==
    IF s.does # "receive" THEN s
    ELSE IF s.got < s.len
      THEN [s EXCEPT !.got = @ + 1,
                     !.at = IF s.got + 1 = s.len THEN (256 * @ + byte) % SlaveSize ELSE 256 * @ + byte]
      ELSE [s EXCEPT !.mem[s.at] = byte, !.at = Following(@)]

\* A slave without addresses starts at the beginning of its buffer.
Addressed(s, read) ==
    IF s.does = "send" THEN s
    ELSE IF read THEN [s EXCEPT !.does = "send"]
    ELSE [s EXCEPT !.does = "receive", !.got = 0, !.at = 0]

Send(s, last) ==
    IF s.does # "send" THEN s
    ELSE [s EXCEPT !.at = Following(@), !.does = IF last THEN "done" ELSE "send"]

\* A stop is not seen while the slave drives the data line.
Stopped(s) == IF s.does = "send" THEN s ELSE [s EXCEPT !.does = "idle"]

AfterStart(s, c, read) == IF "id" \in c.phases THEN Addressed(s, read) ELSE s

\* Up to three bytes, from adr, do and di.
AfterOut(s, c) ==
    LET n == Len(c.out)
        first == Receive(s, c.out[1])
        second == Receive(first, c.out[2])
    IN  CASE n = 0 -> s [] n = 1 -> first [] n = 2 -> second [] n = 3 -> Receive(second, c.out[3])

AfterIn(s, c) == IF "in" \in c.phases THEN Send(s, "last" \in c.phases) ELSE s
AfterStop(s, c) == IF "stop" \in c.phases THEN Stopped(s) ELSE s

----------------------------------------------------------------------------

NoI2cCall == [op |-> "none", addr |-> 0, buf |-> <<>>, n |-> 0]

Device(len) ==
    [does |-> "idle", len |-> len, got |-> 0, at |-> 0, mem |-> [k \in 0 .. SlaveSize - 1 |-> 0]]

I2cInit ==
    /\ id_read = FALSE /\ i2c_given = 0 /\ i2c_buf = <<>> /\ i2c_call = NoI2cCall
    /\ slave = Device(0) /\ i2c_want = slave.mem

I2cDone == i2c_given = Len(Commands(i2c_call, slave.len))

\* The id of another slave, with either value of the direction bit.
i2c_master_init ==
    /\ I2cDone
    /\ id_read' \in BOOLEAN
    /\ \E len \in AddrLens : slave' = Device(len)
    /\ i2c_want' = slave'.mem /\ i2c_call' = NoI2cCall /\ i2c_given' = 0 /\ i2c_buf' = <<>>

\* Where a call's bytes go or come from, and the memory with those from the
\* one at "from" on: where a call goes round the memory its last byte stays.
Place(c, k) == (IF slave.len = 0 THEN k ELSE c.addr + k) % SlaveSize
Stored(m, c, from) ==
    [p \in 0 .. SlaveSize - 1 |->
       LET here == {k \in from .. Len(c.buf) : Place(c, k - 1) = p}
       IN  IF here = {} THEN m[p] ELSE c.buf[Max(here)]]

AddrLimit == CASE slave.len = 1 -> 256 [] slave.len = 2 -> 256 * 256 [] slave.len = 3 -> 256 * 256 * 256

I2cCall ==
    /\ I2cDone
    /\ \E c \in {d \in I2cCalls : slave.len = 0 \/ d.addr < AddrLimit} :
         i2c_call' = c /\ i2c_want' = Stored(i2c_want, c, 1)
    /\ i2c_given' = 0 /\ i2c_buf' = <<>>
    /\ UNCHANGED <<id_read, slave>>

\* One write of reg_i2c_ctrl, and the wait for FLD_I2C_CMD_BUSY to end.
I2cCommand ==
    /\ ~I2cDone
    /\ LET c == Commands(i2c_call, slave.len)[i2c_given + 1]
           s == AfterOut(AfterStart(slave, c, id_read'), c)
       IN  /\ id_read' = IF c.dir = "kept" THEN id_read ELSE c.dir = "read"
           /\ slave' = AfterStop(AfterIn(s, c), c)
           /\ i2c_buf' = IF "in" \in c.phases THEN Append(i2c_buf, s.mem[s.at]) ELSE i2c_buf
    /\ i2c_given' = i2c_given + 1
    /\ UNCHANGED <<i2c_call, i2c_want>>

I2cNext == i2c_master_init \/ I2cCall \/ I2cCommand

----------------------------------------------------------------------------

\* When a call has returned, the slave's memory holds what the calls wrote at
\* the addresses they named, a read has returned the bytes at the address it
\* named, and the slave has let go of the bus, so that the next call, which may
\* turn the direction round, finds it idle.
I2cTransferred ==
    I2cDone =>
      /\ slave.does = "idle" /\ slave.mem = i2c_want
      /\ i2c_call.op = "read" =>
           i2c_buf = [k \in 1 .. i2c_call.n |-> slave.mem[Place(i2c_call, k - 1)]]
=============================================================================
