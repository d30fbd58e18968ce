------------------------------ MODULE MCDrivers ------------------------------
EXTENDS Drivers
CONSTANTS ea, eb, ec, none

Call(f, t, mode) == [f |-> f, t |-> t, mode |-> mode]
MCMainCalls ==
    {Call("set_mode", t, m) : t \in {"tmr0", "tmr2"}, m \in SUBSET {"m0", "m1"}}
      \cup {Call(f, "tmr0", {}) : f \in {"start", "stop", "ack"}} \cup {Call("stop", "tmr2", {})}
      \cup {Call(f, "wd", {}) : f \in {"wd_start", "wd_stop"}}
      \cup {Call("interval", "wd", capt) : capt \in {{"c0"}, {"c1"}}}
MCIsrCalls == {Call("ack", "tmr0", {})}

\* For TickKept: two timers in use, and no handler.
MCTwoTimers == {Call("start", "tmr0", {}), Call("stop", "tmr0", {}), Call("start", "tmr1", {})}
MCNoCalls == {}

Bytes(n) == [k \in 1 .. n |-> 10 + k]
MCSpiCall(f, cmd, n, reads) ==
    [f |-> f, cmd |-> cmd, addr |-> IF cmd = 0 THEN 0 ELSE 9, data |-> Bytes(n), n |-> reads]
MCDuplex(lens) == {MCSpiCall("full_duplex", 0, n, n) : n \in lens}
MCSpiCalls ==
    MCDuplex({1, 3, 4, 5, 6, 7})
      \cup {MCSpiCall(f, 0, n, 0) : f \in {"write", "write_dma"}, n \in {1, 4}}
      \cup {MCSpiCall(f, 0, n, r) : f \in {"write_read", "write_read_dma"}, n \in {1, 3}, r \in {1, 4}}
      \cup {MCSpiCall(f, 8, n, 0) : f \in {"write_plus", "write_dma_plus"}, n \in {1, 4}}
      \cup {MCSpiCall(f, 8, 0, r) : f \in {"read_plus", "read_dma_plus"}, r \in {1, 4}}

\* For the finding: a transfer of exactly one chunk.
MCOneChunk == MCDuplex({2})

\* The bytes of an address count: 256 and 65536 are no multiples of the memory.
MCI2cCalls ==
    {[op |-> "write", addr |-> m, buf |-> Bytes(n), n |-> 0] : m \in {0, 3, 259, 65541}, n \in {1, 2}}
      \cup {[op |-> "read", addr |-> m, buf |-> <<>>, n |-> n] : m \in {0, 2, 261, 65538}, n \in {1, 3}}

\* From 200 clocks a bit, primes among them, and 115200 baud at 16, 24, 32 and
\* 48 MHz: with fewer than 124 the error may exceed 2 %.
MCBitClocks == {10 * n + d : n \in 200 .. 259, d \in {0, 6}} \cup {1389, 2083, 2778, 4167}

MCMatrices ==
    {[row |-> <<8, 26, 12, 3, 30, 21, 17, 24>>, col |-> <<31, 0>>],
     [row |-> <<16, 5>>, col |-> <<1, 0, 25>>],
     [row |-> <<4, 26, 6, 7, 9, 10, 11>>, col |-> <<2, 0>>]}

MCPin(f, g, pin, v) == [f |-> f, g |-> g, b |-> pin, v |-> v]
MCPinCalls ==
    {MCPin("set_func", 5, 1, 3), MCPin("set_func", 5, 1, AS_GPIO), MCPin("set_func", 0, 1, AS_GPIO),
     MCPin("write", 1, 3, TRUE), MCPin("OUTPUT", 1, 7, TRUE), MCPin("toggle", 1, 7, 0),
     MCPin("strength", 1, 3, FALSE), MCPin("strength", 2, 4, FALSE),
     MCPin("input", 0, 3, FALSE), MCPin("input", 2, 4, TRUE), MCPin("output", 0, 3, TRUE),
     MCPin("resistor", 3, 6, {0, 1}), MCPin("PULL", 5, 1, {1}), MCPin("resistor", 0, 3, {}),
     MCPin("PULL_TOGGLE", 0, 3, 0), MCPin("pullup", 1, 7, 0), MCPin("pullup", 2, 4, 0),
     MCPin("shutdown", 0, 3, 0), MCPin("shutdown", 1, 3, 0), MCPin("shutdown", 1, 7, 0), MCPin("shutdown", 2, 4, 0),
     MCPin("shutdown_all", 0, 0, 0), MCPin("pa_init", 1, 0, 0)}

MCAdcCodes == {0, 700, 730, 2 ^ 14 - 5}
==============================================================================
