--------------------------- MODULE DriversProofs ---------------------------
(***************************************************************************)
(* Proofs about the program that uses the queue or one of the drivers, in  *)
(* this order: the queue, timers and watchdog, firmware check, I2C master, *)
(* ADC, key scan, UART's divider, SPI master, pins.                        *)
(***************************************************************************)
EXTENDS Drivers, MyFifoProofs, FiniteSetTheorems, WellFoundedInduction

----------------------------------------------------------------------------
(* The queue, as a part of the program.                                    *)

\* A step of the program is one of the queue or leaves it alone.
LEMMA QueueInside == DriversSpec => Spec
  <1>1. DriversInit => Init
    BY DEF DriversInit
  <1>2. ASSUME [DriversNext]_driversVars PROVE [Next]_vars
    <2>1. CASE UNCHANGED driversVars
      BY <2>1 DEF driversVars
    <2>2. CASE DriversNext
      BY <2>2 DEF DriversNext
    <2> QED
      BY <1>2, <2>1, <2>2
  <1> QED
    BY <1>1, <1>2, PTL DEF DriversSpec, Spec

\* Whatever else is in the program, the queue keeps its types, the slot handed
\* out, and the promise of the bounded queue.
THEOREM QueueCorrect == DriversSpec => []TypeOK /\ HeldSlotKept /\ Implements
  BY QueueInside, TypeCorrect, SlotHeld, Refinement, PTL

----------------------------------------------------------------------------
(* The timers' control register.                                           *)

\* Folding over one element applies the operator once.
LEMMA OneWritten ==
    ASSUME NEW r, NEW w
    PROVE  FoldLeft(Undisturbed, r, <<w>>) = Undisturbed(r, w)
  <1> DEFINE S == DOMAIN <<w>>
             F(h, s) == IF s = {} THEN r
                        ELSE Undisturbed(h[s \ {Max(s)}], <<w>>[Max(s)])
             g == [s \in SUBSET S |-> IF s = {} THEN r ELSE Undisturbed(r, w)]
             iter == CHOOSE h : h = [s \in SUBSET S |-> F(h, s)]
  <1>1. S = {1}
    OBVIOUS
  <1>2. Max({1}) = 1
    BY DEF Max
  <1>3. \A s \in SUBSET S : s = {} \/ s = {1}
    BY <1>1
  <1>4. g = [s \in SUBSET S |-> F(g, s)]
    <2>1. ASSUME NEW s \in SUBSET S PROVE g[s] = F(g, s)
      <3>1. CASE s = {}
        BY <3>1
      <3>2. CASE s = {1}
        <4>1. s \ {Max(s)} = {} /\ <<w>>[Max(s)] = w
          BY <3>2, <1>2
        <4> QED
          BY <4>1, <3>2
      <3> QED
        BY <3>1, <3>2, <1>3
    <2> QED
      BY <2>1
  <1>5. iter = [s \in SUBSET S |-> F(iter, s)]
    BY <1>4
  <1>6. FoldLeft(Undisturbed, r, <<w>>) = iter[S]
    BY DEF FoldLeft, MapThenFoldSet
  <1> HIDE DEF iter, g
  <1>7. iter[{}] = r
    BY <1>5, Zenon
  <1>8. iter[{1}] = F(iter, {1})
    BY <1>5, <1>1
  <1>9. {1} \ {Max({1})} = {} /\ <<w>>[Max({1})] = w /\ {1} # {}
    BY <1>2
  <1> QED
    BY <1>1, <1>6, <1>7, <1>8, <1>9

\* What remains to be written, at most three accesses, makes of the bits.
Applied(ctrl, w) == IF w.rmw THEN (ctrl \ w.clear) \cup w.set ELSE ctrl
AppliedAt(ctrl, todo, k) == IF k <= Len(todo) THEN Applied(ctrl, todo[k]) ELSE ctrl
Finished(ctrl, todo) == AppliedAt(AppliedAt(AppliedAt(ctrl, todo, 1), todo, 2), todo, 3)

\* A call that is finished from here does what the calls made ask for, and
\* the value it holds is still that of the register: the handler changes
\* statuses only.
CallInv ==
    /\ tmr = [ctrl |-> tmr.ctrl, pend |-> tmr.pend]
    /\ (\E S : tmr_todo \in Seq(S)) /\ Len(tmr_todo) \in 0 .. 3
    /\ tmr_asked = Finished(tmr.ctrl, tmr_todo)
    /\ tmr_held # <<>> => tmr_held[1].ctrl = tmr.ctrl

LEMMA WrittenBits ==
    ASSUME NEW read, NEW now, NEW w, read.ctrl = now.ctrl, now = [ctrl |-> now.ctrl, pend |-> now.pend]
    PROVE  LET new == WriteBack(read, now, w)
           IN  new = [ctrl |-> Applied(now.ctrl, w), pend |-> new.pend]
  BY DEF WriteBack, Applied

LEMMA FinishedCases ==
    ASSUME NEW bits, NEW todo
    PROVE  /\ Len(todo) = 0 => Finished(bits, todo) = bits
           /\ Len(todo) = 1 => Finished(bits, todo) = Applied(bits, todo[1])
           /\ Len(todo) = 2 => Finished(bits, todo) = Applied(Applied(bits, todo[1]), todo[2])
           /\ Len(todo) = 3 =>
                Finished(bits, todo) = Applied(Applied(Applied(bits, todo[1]), todo[2]), todo[3])
  <1>1. PICK n : n = Len(todo)
    OBVIOUS
  <1>2. Finished(bits, todo) =
            LET Access(b, k) == IF k <= n THEN Applied(b, todo[k]) ELSE b
            IN  Access(Access(Access(bits, 1), 2), 3)
    BY <1>1 DEF Finished, AppliedAt
  <1>3. CASE n = 0
    BY <1>1, <1>2, <1>3
  <1>4. CASE n = 1
    BY <1>1, <1>2, <1>4
  <1>5. CASE n = 2
    BY <1>1, <1>2, <1>5
  <1>6. CASE n = 3
    BY <1>1, <1>2, <1>6
  <1> QED
    BY <1>1, <1>3, <1>4, <1>5, <1>6

\* The first access done, the others do the same.
LEMMA OneDone ==
    ASSUME NEW S, NEW todo \in Seq(S), todo # <<>>, Len(todo) \in 0 .. 3, NEW ctrl
    PROVE  /\ Tail(todo) \in Seq(S) /\ Len(Tail(todo)) \in 0 .. 3
           /\ Finished(Applied(ctrl, Head(todo)), Tail(todo)) = Finished(ctrl, todo)
  <1>1. PICK n : n = Len(todo)
    OBVIOUS
  <1>2. n \in 1 .. 3
    <2>1. n \in Nat \ {0} /\ n \in 0 .. 3
      BY <1>1, EmptySeq
    <2> QED
      BY <2>1
  <1>3. PICK t : t = Tail(todo)
    OBVIOUS
  <1>4. t \in Seq(S) /\ Len(t) = n - 1 /\ \A k \in 1 .. n - 1 : t[k] = todo[k + 1]
    BY <1>1, <1>3, HeadTailProperties
  <1>5. PICK b : b = Applied(ctrl, todo[1])
    OBVIOUS
  <1>6. Applied(ctrl, Head(todo)) = b
    BY <1>5
  <1>7. Finished(b, t) = Finished(ctrl, todo)
    <2>1. CASE n = 1
      <3>1. Len(t) = 0
        BY <1>4, <2>1
      <3> QED
        <4>1. Finished(b, t) = b
          BY <3>1, FinishedCases
        <4>2. Finished(ctrl, todo) = Applied(ctrl, todo[1])
          BY <1>1, <2>1, FinishedCases
        <4> QED
          BY <4>1, <4>2, <1>5
    <2>2. CASE n = 2
      <3>1. Len(t) = 1 /\ t[1] = todo[2]
        BY <1>4, <2>2
      <3> QED
        <4>1. Finished(b, t) = Applied(b, todo[2])
          BY <3>1, FinishedCases
        <4>2. Finished(ctrl, todo) = Applied(Applied(ctrl, todo[1]), todo[2])
          BY <1>1, <2>2, FinishedCases
        <4> QED
          BY <4>1, <4>2, <1>5
    <2>3. CASE n = 3
      <3>1. Len(t) = 2 /\ t[1] = todo[2] /\ t[2] = todo[3]
        BY <1>4, <2>3
      <3> QED
        <4>1. Finished(b, t) = Applied(Applied(b, todo[2]), todo[3])
          BY <3>1, FinishedCases
        <4>2. Finished(ctrl, todo) = Applied(Applied(Applied(ctrl, todo[1]), todo[2]), todo[3])
          BY <1>1, <2>3, FinishedCases
        <4> QED
          BY <4>1, <4>2, <1>5
    <2> QED
      BY <1>2, <2>1, <2>2, <2>3
  <1>8. Len(t) \in 0 .. 3
    BY <1>2, <1>4
  <1> QED
    BY <1>3, <1>4, <1>6, <1>7, <1>8

\* Each function, run to its end, does what it is for.
LEMMA CallDoes ==
    ASSUME NEW c \in MainTmrCalls, NEW bits
    PROVE  /\ (\E S : TmrWrites(c) \in Seq(S)) /\ Len(TmrWrites(c)) \in 0 .. 3
           /\ Asks(bits, c) = Finished(bits, TmrWrites(c))
  <1>0. c.f \in TmrFunctions
    BY TmrAssumption
  <1>1. CASE c.f = "set_mode"
    <2> DEFINE s == timer_set_mode(c.t, c.mode)
    <2>1. TmrWrites(c) = s
      BY <1>1 DEF TmrWrites
    <2>2. s \in Seq({s[1], s[2], s[3]}) /\ Len(s) = 3
      BY DEF timer_set_mode
    <2>3. s[1] = Ack(c.t) /\ s[2] = Rmw({c.t} \X {"m0", "m1"}, {}) /\ s[3] = Rmw({}, {c.t} \X c.mode)
      BY DEF timer_set_mode
    <2> HIDE DEF s
    <2>4. Finished(bits, s) = (bits \ ({c.t} \X {"m0", "m1"})) \cup ({c.t} \X c.mode)
      BY <2>2, <2>3 DEF Finished, AppliedAt, Applied, Ack, Rmw
    <2>5. Asks(bits, c) = (bits \ ({c.t} \X {"m0", "m1"})) \cup ({c.t} \X c.mode)
      BY <1>1 DEF Asks, SetTo
    <2> QED
      BY <2>1, <2>2, <2>4, <2>5
  <1>2. CASE c.f = "wd_start"
    <2> DEFINE s == wd_start
    <2>1. TmrWrites(c) = s
      BY <1>2 DEF TmrWrites
    <2>2. s \in Seq({s[1], s[2]}) /\ Len(s) = 2
      BY DEF wd_start
    <2>3. s[1] = Rmw({}, {<<"tmr2", "en">>}) /\ s[2] = Rmw({}, {<<"wd", "en">>})
      BY DEF wd_start
    <2> HIDE DEF s
    <2>4. Finished(bits, s) = bits \cup {<<"tmr2", "en">>, <<"wd", "en">>}
      BY <2>2, <2>3 DEF Finished, AppliedAt, Applied, Rmw
    <2>5. Asks(bits, c) = bits \cup {<<"tmr2", "en">>, <<"wd", "en">>}
      BY <1>2 DEF Asks
    <2> QED
      BY <2>1, <2>2, <2>4, <2>5
  <1>3. ASSUME NEW w, TmrWrites(c) = <<w>>, Asks(bits, c) = Applied(bits, w)
        PROVE  /\ (\E S : TmrWrites(c) \in Seq(S)) /\ Len(TmrWrites(c)) \in 0 .. 3
               /\ Asks(bits, c) = Finished(bits, TmrWrites(c))
    <2> DEFINE s == <<w>>
    <2>1. s \in Seq({w}) /\ Len(s) = 1 /\ s[1] = w
      OBVIOUS
    <2>2. TmrWrites(c) = s
      BY <1>3
    <2> HIDE DEF s
    <2>3. Finished(bits, s) = Applied(bits, w)
      BY <2>1 DEF Finished, AppliedAt
    <2> QED
      BY <1>3, <2>1, <2>2, <2>3
  <1>4. CASE c.f = "start"
    <2>1. TmrWrites(c) = <<Rmw({}, {<<c.t, "en">>})>>
      BY <1>4 DEF TmrWrites, timer_start
    <2>2. Asks(bits, c) = Applied(bits, Rmw({}, {<<c.t, "en">>}))
      BY <1>4 DEF Asks, SetTo, Applied, Rmw
    <2> QED
      BY <1>3, <2>1, <2>2
  <1>5. CASE c.f = "stop"
    <2>1. TmrWrites(c) = <<Rmw({<<c.t, "en">>}, {})>>
      BY <1>5 DEF TmrWrites, timer_stop
    <2>2. Asks(bits, c) = Applied(bits, Rmw({<<c.t, "en">>}, {}))
      BY <1>5 DEF Asks, SetTo, Applied, Rmw
    <2> QED
      BY <1>3, <2>1, <2>2
  <1>6. CASE c.f = "ack"
    <2>1. TmrWrites(c) = <<Ack(c.t)>>
      BY <1>6 DEF TmrWrites, timer_clear_interrupt_status
    <2>2. Asks(bits, c) = Applied(bits, Ack(c.t))
      BY <1>6 DEF Asks, Applied, Ack
    <2> QED
      BY <1>3, <2>1, <2>2
  <1>7. CASE c.f = "interval"
    <2>1. TmrWrites(c) = <<Rmw({"wd"} \X Capture, {"wd"} \X c.mode)>>
      BY <1>7 DEF TmrWrites, wd_set_interval_ms
    <2>2. Asks(bits, c) = Applied(bits, Rmw({"wd"} \X Capture, {"wd"} \X c.mode))
      BY <1>7 DEF Asks, SetTo, Applied, Rmw
    <2> QED
      BY <1>3, <2>1, <2>2
  <1>8. CASE c.f = "wd_stop"
    <2>1. TmrWrites(c) = <<Rmw({<<"wd", "en">>}, {})>>
      BY <1>8 DEF TmrWrites, wd_stop
    <2>2. Asks(bits, c) = Applied(bits, Rmw({<<"wd", "en">>}, {}))
      BY <1>8 DEF Asks, SetTo, Applied, Rmw
    <2> QED
      BY <1>3, <2>1, <2>2
  <1> QED
    BY <1>0, <1>1, <1>2, <1>4, <1>5, <1>6, <1>7, <1>8 DEF TmrFunctions

LEMMA CallInvInit == ASSUME TmrInit PROVE CallInv
  <1>1. <<>> \in Seq({}) /\ Len(<<>>) = 0 /\ 0 \in 0 .. 3
    OBVIOUS
  <1>2. Finished({}, <<>>) = {}
    BY <1>1, FinishedCases
  <1> QED
    BY <1>1, <1>2 DEF TmrInit, Nothing, CallInv

LEMMA TmrCallStep == ASSUME CallInv, TmrCall PROVE CallInv'
  <1>1. PICK c \in MainTmrCalls :
          tmr_todo = <<>> /\ tmr_todo' = TmrWrites(c) /\ tmr_asked' = Asks(tmr_asked, c)
    BY DEF TmrCall
  <1>2. tmr' = tmr /\ tmr_held' = tmr_held
    BY DEF TmrCall
  <1>3. tmr_asked = tmr.ctrl
    <2>1. Len(<<>>) = 0
      OBVIOUS
    <2> QED
      BY <1>1, <2>1, FinishedCases DEF CallInv
  <1> QED
    BY <1>1, <1>2, <1>3, CallDoes DEF CallInv

LEMMA TmrReadStep == ASSUME CallInv, TmrRead PROVE CallInv'
  <1>1. tmr_held' = <<tmr>> /\ UNCHANGED <<tmr, tmr_todo, tmr_asked>>
    BY DEF TmrRead
  <1>2. tmr_held'[1] = tmr
    BY <1>1
  <1> QED
    BY <1>1, <1>2 DEF CallInv

LEMMA TmrWriteStep == ASSUME CallInv, TmrWrite PROVE CallInv'
  <1> DEFINE w == Head(tmr_todo)
             read == IF w.rmw THEN tmr_held[1] ELSE tmr
  <1>1. /\ tmr_todo # <<>> /\ tmr_todo' = Tail(tmr_todo) /\ tmr_held' = <<>>
        /\ tmr_asked' = tmr_asked /\ tmr' = WriteBack(read, tmr, w)
    BY DEF TmrWrite
  <1>2. read.ctrl = tmr.ctrl
    BY DEF TmrWrite, CallInv
  <1> HIDE DEF read
  <1>3. tmr' = [ctrl |-> Applied(tmr.ctrl, w), pend |-> tmr'.pend]
    BY <1>1, <1>2, WrittenBits DEF CallInv
  <1>4. tmr' = [ctrl |-> tmr'.ctrl, pend |-> tmr'.pend] /\ tmr'.ctrl = Applied(tmr.ctrl, w)
    BY <1>3
  <1>5. PICK S : tmr_todo \in Seq(S)
    BY DEF CallInv
  <1>6. /\ Tail(tmr_todo) \in Seq(S) /\ Len(Tail(tmr_todo)) \in 0 .. 3
        /\ Finished(Applied(tmr.ctrl, w), Tail(tmr_todo)) = Finished(tmr.ctrl, tmr_todo)
    BY <1>1, <1>5, OneDone DEF CallInv
  <1> HIDE DEF w
  <1> QED
    BY <1>1, <1>4, <1>6 DEF CallInv

LEMMA TmrIsrStep == ASSUME HandlerOnlyAcks, CallInv, TmrIsr PROVE CallInv'
  <1>1. PICK c \in IsrTmrCalls :
          tmr' = FoldLeft(Undisturbed, tmr, TmrWrites(c)) /\ tmr_asked' = Asks(tmr_asked, c)
    BY DEF TmrIsr
  <1>2. c.f = "ack"
    BY DEF HandlerOnlyAcks
  <1>3. TmrWrites(c) = <<Ack(c.t)>> /\ Asks(tmr_asked, c) = tmr_asked
    BY <1>2 DEF TmrWrites, timer_clear_interrupt_status, Asks
  <1>4. tmr' = WriteBack(tmr, tmr, Ack(c.t))
    BY <1>1, <1>3, OneWritten DEF Undisturbed
  <1>5. tmr' = [ctrl |-> Applied(tmr.ctrl, Ack(c.t)), pend |-> tmr'.pend]
    BY <1>4, WrittenBits DEF CallInv
  <1>6. Applied(tmr.ctrl, Ack(c.t)) = tmr.ctrl
    BY DEF Applied, Ack
  <1>7. tmr' = [ctrl |-> tmr'.ctrl, pend |-> tmr'.pend] /\ tmr'.ctrl = tmr.ctrl
    BY <1>5, <1>6
  <1>8. UNCHANGED <<tmr_todo, tmr_held>> /\ tmr_asked' = tmr_asked
    BY <1>1, <1>3 DEF TmrIsr
  <1> QED
    BY <1>7, <1>8 DEF CallInv

LEMMA ExpireStep == ASSUME NEW t, CallInv, Expire(t) PROVE CallInv'
  <1>1. tmr' = [ctrl |-> tmr'.ctrl, pend |-> tmr'.pend] /\ tmr'.ctrl = tmr.ctrl
    BY DEF Expire, CallInv
  <1>2. UNCHANGED <<tmr_todo, tmr_held, tmr_asked>>
    BY DEF Expire
  <1> QED
    BY <1>1, <1>2 DEF CallInv

LEMMA CallInvStep == ASSUME HandlerOnlyAcks, CallInv, [TmrNext]_tmrVars PROVE CallInv'
  <1>1. CASE UNCHANGED tmrVars
    BY <1>1 DEF tmrVars, CallInv
  <1>2. CASE TmrNext
    BY <1>2, TmrCallStep, TmrReadStep, TmrWriteStep, TmrIsrStep, ExpireStep DEF TmrNext
  <1> QED
    BY <1>1, <1>2

\* Between two calls every enable, mode and capture field is what the calls
\* asked for, with any calls of the main program, interrupted at any access,
\* if the handler only acknowledges.
THEOREM SettingsCorrect ==
    ASSUME HandlerOnlyAcks
    PROVE  DriversSpec => []SettingsKept
  <1>1. DriversInit => CallInv
    BY CallInvInit DEF DriversInit
  <1>2. ASSUME [DriversNext]_driversVars PROVE [TmrNext]_tmrVars
    BY <1>2 DEF DriversNext, driversVars
  <1>3. CallInv /\ [DriversNext]_driversVars => CallInv'
    BY <1>2, CallInvStep
  <1>4. CallInv => SettingsKept
    <2>1. Len(<<>>) = 0
      OBVIOUS
    <2> QED
      BY <2>1, FinishedCases DEF CallInv, SettingsKept
  <1> QED
    BY <1>1, <1>3, <1>4, PTL DEF DriversSpec

----------------------------------------------------------------------------
(* The firmware check.                                                     *)

\* What the loop has left over: the CRC and whole blocks of sixteen.
LEMMA BlocksAndRest ==
    ASSUME NEW n \in FwSizes
    PROVE  /\ n \in Nat \ {0} /\ n \div FW_READ_SIZE \in Nat
           /\ n % FW_READ_SIZE \in 4 .. FW_READ_SIZE - 1
           /\ n = FW_READ_SIZE * (n \div FW_READ_SIZE) + (n % FW_READ_SIZE)
  <1> DEFINE q == n \div FW_READ_SIZE
             r == n % FW_READ_SIZE
  <1>1. FW_READ_SIZE \in Nat \ {0} /\ FW_READ_SIZE % 16 = 0 /\ n \in Nat /\ n % 16 = 4
    BY FwAssumption
  <1>2. q \in Nat /\ r \in 0 .. FW_READ_SIZE - 1 /\ n = FW_READ_SIZE * q + r
    BY <1>1, DivMod
  <1>3. PICK k \in Nat : FW_READ_SIZE = 16 * k
    BY <1>1, DivMod
  <1>4. PICK a \in Nat, b \in 0 .. 15 : r = 16 * a + b
    <2>1. PICK x \in Nat : x = r
      BY <1>1, <1>2
    <2>2. x \div 16 \in Nat /\ x % 16 \in 0 .. 15 /\ x = 16 * (x \div 16) + (x % 16)
      BY DivMod
    <2> HIDE DEF r
    <2> QED
      BY <2>1, <2>2
  <1> HIDE DEF q, r
  <1>5. n = 16 * (k * q + a) + b
    BY <1>1, <1>2, <1>3, <1>4
  <1>6. n % 16 = b
    <2>1. k * q + a \in Int
      BY <1>2, <1>3, <1>4
    <2> QED
      BY <1>1, <1>4, <1>5, <2>1, RemainderUnique
  <1>7. r >= 4 /\ n # 0
    BY <1>1, <1>4, <1>6
  <1> QED
    BY <1>1, <1>2, <1>7 DEF q, r

\* While a check is under way, every byte below the block it has come to has
\* been fed once, and nothing else.
ImageType ==
    /\ fw = [size |-> fw.size, damage |-> fw.damage]
    /\ fw.size \in FwSizes \cup {0} /\ fw.damage \in Int
    /\ fw.damage = None \/ fw.damage \in 0 .. fw.size - 1
    /\ fw_i = None \/ fw_i \in 0 .. fw_Block
StartsFrom == IF fw_given = "0" THEN "ffffffff" ELSE fw_given
CheckInv ==
    fw_i # None =>
      /\ fw.size # 0 /\ fw_result = "none" /\ fw_given \in {"0", "ffffffff", "other"}
      /\ fw_crc_init = [start |-> StartsFrom, upto |-> fw_i * FW_READ_SIZE,
                        intact |-> fw.damage \notin 0 .. fw_i * FW_READ_SIZE - 1]
FwInv == ImageType /\ CheckInv /\ ImageChecked

LEMMA FwInvInit == ASSUME FwInit PROVE FwInv
  <1>1. fw = [size |-> 0, damage |-> None] /\ fw_i = None /\ fw_result = "none"
    BY DEF FwInit
  <1> QED
    BY <1>1 DEF FwInv, ImageType, CheckInv, ImageChecked, None

LEMMA WriteImageStep == ASSUME FwInv, WriteImage PROVE FwInv'
  <1>1. PICK n \in FwSizes : \E d \in {None} \cup ((0 .. n - 1) \ (24 .. 27)) :
          fw' = [size |-> n, damage |-> d]
    BY DEF WriteImage
  <1>2. PICK d \in {None} \cup ((0 .. n - 1) \ (24 .. 27)) : fw' = [size |-> n, damage |-> d]
    BY <1>1
  <1>3. fw'.size = n /\ fw'.damage = d /\ fw_i' = None /\ fw_result' = "none"
    BY <1>2 DEF WriteImage
  <1>4. d \in Int /\ (d = None \/ d \in 0 .. n - 1)
    BY BlocksAndRest DEF None
  <1> QED
    BY <1>2, <1>3, <1>4 DEF FwInv, ImageType, CheckInv, ImageChecked

LEMMA CheckStartStep == ASSUME FwInv, flash_fw_check PROVE FwInv'
  <1>1. /\ fw' = fw /\ fw_given' \in {"0", "ffffffff", "other"}
        /\ fw_crc_init' = [start |-> StartsFrom', upto |-> 0, intact |-> TRUE]
    BY DEF flash_fw_check, StartCrc, StartsFrom, Fresh, SignedUpTo
  <1>2. CASE fw.size = 0
    <2>1. fw_i' = None /\ fw_result' = "fail"
      BY <1>2 DEF flash_fw_check
    <2> QED
      BY <1>1, <1>2, <2>1 DEF FwInv, ImageType, CheckInv, ImageChecked
  <1>3. CASE fw.size # 0
    <2>1. fw_i' = 0 /\ fw_result' = "none"
      BY <1>3 DEF flash_fw_check
    <2>2. fw_Block \in Nat /\ 0 * FW_READ_SIZE = 0
      BY <1>3, BlocksAndRest, FwAssumption DEF FwInv, ImageType, fw_Block
    <2>3. fw.damage \notin 0 .. 0 - 1
      OBVIOUS
    <2>4. ImageType'
      BY <1>1, <2>1, <2>2 DEF FwInv, ImageType, fw_Block
    <2>5. CheckInv'
      BY <1>1, <1>3, <2>1, <2>2, <2>3 DEF CheckInv
    <2> QED
      BY <2>1, <2>4, <2>5 DEF FwInv, ImageChecked
  <1> QED
    BY <1>2, <1>3

\* A piece of m bytes fed where the last ended.
LEMMA FeedNext ==
    ASSUME NEW at \in Nat, NEW m \in Nat, NEW crc, NEW start, fw.damage \in Int,
           crc = [start |-> start, upto |-> at, intact |-> fw.damage \notin 0 .. at - 1]
    PROVE  Feed(crc, at, m) = [start |-> start, upto |-> at + m,
                               intact |-> fw.damage \notin 0 .. at + m - 1]
  <1>1. (fw.damage \notin 0 .. at - 1 /\ fw.damage \notin at .. at + m - 1)
          = (fw.damage \notin 0 .. at + m - 1)
    <2>1. PICK d \in Int : d = fw.damage
      OBVIOUS
    <2>2. d \in 0 .. at + m - 1 <=> d \in 0 .. at - 1 \/ d \in at .. at + m - 1
      OBVIOUS
    <2> QED
      BY <2>1, <2>2
  <1>2. Feed(crc, at, m) = [start |-> start, upto |-> at + m,
          intact |-> fw.damage \notin 0 .. at - 1 /\ fw.damage \notin at .. at + m - 1]
    <2>1. PICK next : next = at + m
      OBVIOUS
    <2>2. PICK here : here = at .. at + m - 1
      OBVIOUS
    <2>3. PICK before : before = 0 .. at - 1
      OBVIOUS
    <2>4. crc = [start |-> start, upto |-> at, intact |-> fw.damage \notin before]
      BY <2>3
    <2>5. Feed(crc, at, m) =
            [start |-> crc.start, upto |-> IF at = crc.upto THEN next ELSE None,
             intact |-> crc.intact /\ fw.damage \notin here]
      BY <2>1, <2>2, Zenon DEF Feed
    <2>6. crc.start = start /\ crc.upto = at /\ crc.intact = (fw.damage \notin before)
      BY <2>4
    <2>7. (IF at = crc.upto THEN next ELSE None) = next
      BY <2>6
    <2>8. Feed(crc, at, m) = [start |-> start, upto |-> next,
            intact |-> fw.damage \notin before /\ fw.damage \notin here]
      BY <2>5, <2>6, <2>7, Zenon
    <2> QED
      BY <2>1, <2>2, <2>3, <2>8, Zenon
  <1> QED
    BY <1>1, <1>2

LEMMA FwBlockStep == ASSUME FwInv, FwBlock PROVE FwInv'
  <1> DEFINE at == fw_i * FW_READ_SIZE
  <1>1. /\ fw' = fw /\ fw_given' = fw_given /\ fw_result' = fw_result /\ fw_i' = fw_i + 1
        /\ fw_i \in 0 .. fw_Block - 1 /\ fw_crc_init' = Feed(fw_crc_init, at, FW_READ_SIZE)
    BY DEF FwBlock
  <1>2. fw_i # None /\ fw_i \in Nat
    BY <1>1 DEF None
  <1>3. FW_READ_SIZE \in Nat
    BY FwAssumption
  <1>4. at \in Nat /\ at + FW_READ_SIZE = (fw_i + 1) * FW_READ_SIZE
    BY <1>2, <1>3
  <1>5. /\ fw.size # 0 /\ fw_result = "none" /\ fw.damage \in Int
        /\ fw_given \in {"0", "ffffffff", "other"}
        /\ fw_crc_init = [start |-> StartsFrom, upto |-> at, intact |-> fw.damage \notin 0 .. at - 1]
    BY <1>2 DEF FwInv, ImageType, CheckInv
  <1>6. fw.size \in FwSizes /\ fw_Block \in Nat
    BY <1>5, BlocksAndRest DEF FwInv, ImageType, fw_Block
  <1> HIDE DEF at
  <1>7. fw_crc_init' = [start |-> StartsFrom, upto |-> at + FW_READ_SIZE,
                        intact |-> fw.damage \notin 0 .. at + FW_READ_SIZE - 1]
    BY <1>1, <1>3, <1>4, <1>5, FeedNext
  <1>8. fw_i + 1 \in 0 .. fw_Block
    BY <1>1, <1>6
  <1>9. ImageType'
    BY <1>1, <1>8 DEF FwInv, ImageType, fw_Block
  <1>10. CheckInv'
    <2>1. PICK next : next = at + FW_READ_SIZE
      OBVIOUS
    <2>2. next = fw_i' * FW_READ_SIZE
      BY <1>1, <1>4, <2>1
    <2>3. fw_crc_init' = [start |-> StartsFrom, upto |-> next, intact |-> fw'.damage \notin 0 .. next - 1]
      <3>1. fw'.damage = fw.damage
        BY <1>1
      <3>2. 0 .. next - 1 = 0 .. at + FW_READ_SIZE - 1
        BY <1>3, <1>4, <2>1
      <3>3. fw_crc_init' = [start |-> StartsFrom, upto |-> next,
                            intact |-> fw.damage \notin 0 .. next - 1]
        BY <1>7, <2>1, <3>2, Zenon
      <3> QED
        BY <3>1, <3>3, Zenon
    <2>4. StartsFrom' = StartsFrom
      BY <1>1 DEF StartsFrom
    <2> QED
      BY <1>1, <1>5, <2>2, <2>3, <2>4, Zenon DEF CheckInv
  <1> QED
    BY <1>1, <1>5, <1>9, <1>10 DEF FwInv, ImageChecked

LEMMA FwRestStep == ASSUME FwInv, FwRest PROVE FwInv'
  <1> DEFINE at == fw_i * FW_READ_SIZE
             rest == fw_remainSizeByte
             crc == fw_crc_init'
             signed == fw.damage \notin 0 .. fw.size - 5
             good == crc = SignedUpTo(fw.size - 4)
                       /\ fw.damage \notin fw.size - 4 .. fw.size - 1
  <1>1. /\ fw' = fw /\ fw_given' = fw_given /\ fw_i' = None /\ fw_i = fw_Block
        /\ fw_result' = IF good THEN "ok" ELSE "fail"
        /\ crc = IF rest # 4 THEN Feed(fw_crc_init, fw.size - rest, rest - 4) ELSE fw_crc_init
    BY DEF FwRest
  <1>2. fw.size \in FwSizes
    <2>1. CASE fw.size = 0
      <3>1. fw_Block = 0
        BY <2>1, FwAssumption DEF fw_Block
      <3> QED
        BY <1>1, <2>1, <3>1 DEF FwInv, CheckInv, None
    <2> QED
      BY <2>1 DEF FwInv, ImageType
  <1>3. /\ fw.size \in Nat \ {0} /\ fw_Block \in Nat /\ rest \in 4 .. FW_READ_SIZE - 1
        /\ fw.size = FW_READ_SIZE * fw_Block + rest /\ FW_READ_SIZE \in Nat
    BY <1>2, BlocksAndRest, FwAssumption DEF fw_Block, fw_remainSizeByte
  <1>4. at \in Nat /\ at = fw.size - rest
    <2> HIDE DEF rest
    <2> QED
      BY <1>1, <1>3
  <1>5. /\ fw.damage \in Int /\ (fw.damage = None \/ fw.damage \in 0 .. fw.size - 1)
        /\ fw_given \in {"0", "ffffffff", "other"}
        /\ fw_crc_init = [start |-> StartsFrom, upto |-> at, intact |-> fw.damage \notin 0 .. at - 1]
    BY <1>1, <1>3 DEF FwInv, ImageType, CheckInv, None
  <1> HIDE DEF at, rest, crc
  <1>6. crc = [start |-> StartsFrom, upto |-> fw.size - 4, intact |-> signed]
    <2>1. CASE rest # 4
      <3>1. rest - 4 \in Nat /\ at + (rest - 4) = fw.size - 4 /\ fw.size - 4 - 1 = fw.size - 5
        BY <1>3, <1>4
      <3>2. crc = Feed(fw_crc_init, at, rest - 4)
        BY <1>1, <1>4, <2>1
      <3>3. PICK m \in Nat : m = rest - 4
        BY <3>1
      <3>4. crc = [start |-> StartsFrom, upto |-> at + m, intact |-> fw.damage \notin 0 .. at + m - 1]
        <4>1. PICK start : start = StartsFrom
          OBVIOUS
        <4>2. fw_crc_init = [start |-> start, upto |-> at, intact |-> fw.damage \notin 0 .. at - 1]
          BY <1>5, <4>1
        <4>3. Feed(fw_crc_init, at, m) =
                [start |-> start, upto |-> at + m, intact |-> fw.damage \notin 0 .. at + m - 1]
          BY <1>4, <1>5, <3>3, <4>2, FeedNext
        <4> QED
          BY <3>2, <3>3, <4>1, <4>3, Zenon
      <3>5. at + m = fw.size - 4
        BY <3>1, <3>3
      <3>6. 0 .. at + m - 1 = 0 .. fw.size - 5
        <4>1. (at + m) - 1 = fw.size - 5
          BY <1>3, <1>4, <3>5
        <4> QED
          BY <1>4, <4>1
      <3> QED
        BY <3>4, <3>5, <3>6, Zenon
    <2>2. CASE rest = 4
      <3>1. at = fw.size - 4 /\ at - 1 = fw.size - 5
        BY <1>3, <1>4, <2>2
      <3> QED
        BY <1>1, <1>5, <2>2, <3>1
    <2> QED
      BY <2>1, <2>2
  <1>7. crc = SignedUpTo(fw.size - 4) <=> signed /\ fw_given # "other"
    <2>1. PICK end : end = fw.size - 4
      OBVIOUS
    <2>2. crc = [start |-> StartsFrom, upto |-> end, intact |-> signed]
      BY <1>6, <2>1
    <2>3. SignedUpTo(end) = [start |-> "ffffffff", upto |-> end, intact |-> TRUE]
      BY DEF SignedUpTo
    <2>4. StartsFrom = "ffffffff" <=> fw_given # "other"
      BY <1>5 DEF StartsFrom
    <2> HIDE DEF signed
    <2>5. CASE signed /\ fw_given # "other"
      BY <2>1, <2>2, <2>3, <2>4, <2>5
    <2>6. CASE ~signed
      <3>1. crc.intact # TRUE
        BY <2>2, <2>6
      <3>2. SignedUpTo(end).intact = TRUE
        BY <2>3
      <3> QED
        BY <2>1, <2>6, <3>1, <3>2, Zenon
    <2>7. CASE fw_given = "other"
      <3>1. crc.start # "ffffffff"
        BY <2>2, <2>4, <2>7
      <3>2. SignedUpTo(end).start = "ffffffff"
        BY <2>3
      <3> QED
        BY <2>1, <2>7, <3>1, <3>2, Zenon
    <2> QED
      BY <2>5, <2>6, <2>7
  <1>8. (signed /\ fw.damage \notin fw.size - 4 .. fw.size - 1) <=> fw.damage = None
    <2>1. PICK d \in Int : d = fw.damage
      BY <1>5
    <2>2. PICK n \in Nat : n = fw.size
      BY <1>3
    <2>3. n >= 4
      <3> HIDE DEF rest
      <3>1. PICK y \in Nat : y = FW_READ_SIZE * fw_Block
        BY <1>3
      <3> QED
        BY <1>3, <2>2, <3>1
    <2>4. d = None \/ d \in 0 .. n - 1
      BY <1>5, <2>1, <2>2
    <2>5. (d \notin 0 .. n - 5 /\ d \notin n - 4 .. n - 1) <=> d = None
      BY <2>3, <2>4 DEF None
    <2> QED
      BY <2>1, <2>2, <2>5
  <1>9. good <=> fw.damage = None /\ fw_given # "other"
    BY <1>7, <1>8
  <1> HIDE DEF good
  <1>10. (fw_result' = "ok") = (fw.damage = None /\ fw_given # "other")
    BY <1>1, <1>9
  <1>11. ImageChecked'
    BY <1>1, <1>3, <1>10 DEF ImageChecked
  <1>12. ImageType' /\ CheckInv'
    BY <1>1 DEF FwInv, ImageType, CheckInv
  <1> QED
    BY <1>11, <1>12 DEF FwInv

LEMMA FwInvStep == ASSUME FwInv, [FwNext]_fwVars PROVE FwInv'
  <1>1. CASE UNCHANGED fwVars
    BY <1>1 DEF fwVars, FwInv, ImageType, CheckInv, StartsFrom, ImageChecked, fw_Block
  <1>2. CASE FwNext
    BY <1>2, WriteImageStep, CheckStartStep, FwBlockStep, FwRestStep DEF FwNext
  <1> QED
    BY <1>1, <1>2

\* An image passes exactly when it is there, no byte of it but those of its size
\* differs from what was signed, and the check starts from the value it was
\* signed from, for any image of 4 bytes more than a multiple of 16, as the tool
\* that signs makes it.
THEOREM ImageCorrect == DriversSpec => []ImageChecked
  <1>1. DriversInit => FwInv
    BY FwInvInit DEF DriversInit
  <1>2. ASSUME [DriversNext]_driversVars PROVE [FwNext]_fwVars
    BY <1>2 DEF DriversNext, driversVars
  <1>3. FwInv /\ [DriversNext]_driversVars => FwInv'
    BY <1>2, FwInvStep
  <1>4. FwInv => ImageChecked
    BY DEF FwInv
  <1> QED
    BY <1>1, <1>3, <1>4, PTL DEF DriversSpec

----------------------------------------------------------------------------
(* The I2C bus: after so many commands of a call, where the slave is and    *)
(* what is left to be stored.                                              *)

Bytes == 0 .. SlaveSize - 1
SlaveType ==
    [does : {"idle", "receive", "send", "done"}, len : 0 .. 3, got : Nat, at : Nat, mem : [Bytes -> 0 .. 255]]

BusType ==
    /\ i2c_call \in I2cCalls \cup {NoI2cCall}
    /\ i2c_given \in Nat
    /\ slave \in SlaveType
    /\ i2c_call.op # "none" => slave.len = 0 \/ i2c_call.addr < AddrLimit

\* What the slave does after so many commands of a write, and what is left to
\* be stored.
Writing ==
    LET n == Len(i2c_call.buf)
    IN  /\ i2c_given <= n + 2
        /\ i2c_want = Stored(slave.mem, i2c_call, IF i2c_given = 0 THEN 1 ELSE i2c_given)
        /\ IF i2c_given \in {0, n + 2} THEN slave.does = "idle"
           ELSE slave.does = "receive" /\ slave.got = slave.len /\ slave.at = Place(i2c_call, i2c_given - 1)

\* The same of a read, and the bytes read.
Reading ==
    LET n == i2c_call.n
        got == IF i2c_given < 2 THEN 0 ELSE IF i2c_given = n + 3 THEN n ELSE i2c_given - 2
    IN  /\ i2c_given <= n + 3
        /\ i2c_want = slave.mem
        /\ i2c_buf = [k \in 1 .. got |-> slave.mem[Place(i2c_call, k - 1)]]
        /\ i2c_given \in {0, n + 3} => slave.does = "idle"
        /\ i2c_given = 1 => slave.does = "receive" /\ slave.at = Place(i2c_call, 0)
        /\ i2c_given \in 2 .. n + 1 => slave.does = "send" /\ slave.at = Place(i2c_call, i2c_given - 2)
        /\ i2c_given = n + 2 => slave.does = "done"

I2cInv ==
    /\ BusType
    /\ i2c_call.op = "none" => i2c_given = 0 /\ slave.does = "idle" /\ i2c_want = slave.mem
    /\ i2c_call.op = "write" => Writing
    /\ i2c_call.op = "read" => Reading

LEMMA CallType ==
    ASSUME NEW c \in I2cCalls
    PROVE  /\ c.op \in {"write", "read"} /\ c.addr \in Nat /\ c.buf \in Seq(0 .. 255) /\ c.n \in Nat
           /\ Len(c.buf) \in Nat
           /\ c.op = "write" => c.n = 0
           /\ c.op = "read" => c.buf = <<>> /\ c.n > 0
  BY I2cAssumption

LEMMA Around ==
    ASSUME NEW s \in Nat \ {0}, NEW x \in Nat
    PROVE  ((x % s) + 1) % s = (x + 1) % s
  <1>1. PICK q \in Nat, r \in 0 .. s - 1 : x = s * q + r /\ r = x % s
    BY DivMod
  <1>2. CASE r + 1 < s
    <2>1. PICK u \in 0 .. s - 1, y \in Nat : u = r + 1 /\ y = x + 1 /\ y = s * q + u
      BY <1>1, <1>2
    <2>2. y % s = u
      <3>1. q \in Int /\ y = s * q + u
        BY <2>1
      <3> QED
        BY <3>1, RemainderUnique
    <2>3. u % s = u
      BY <2>1, SmallRemainder
    <2> QED
      BY <1>1, <2>1, <2>2, <2>3
  <1>3. CASE r + 1 = s
    <2>1. PICK z \in Int, y \in Nat : z = q + 1 /\ y = x + 1 /\ y = s * z + 0
      BY <1>1, <1>3
    <2>2. y % s = 0
      <3>1. z \in Int /\ y \in Nat /\ y = s * z
        BY <2>1
      <3> QED
        BY <3>1, Multiple
    <2>3. s % s = 0
      <3>1. 1 \in Int /\ s \in Nat /\ s = s * 1
        OBVIOUS
      <3> QED
        BY <3>1, Multiple
    <2> QED
      BY <1>1, <1>3, <2>1, <2>2, <2>3
  <1> QED
    BY <1>1, <1>2, <1>3

LEMMA PlaceNext ==
    ASSUME NEW c, c.addr \in Nat, NEW k \in Nat
    PROVE  Place(c, k) \in Bytes /\ Following(Place(c, k)) = Place(c, k + 1)
  <1>1. PICK x \in Nat : /\ x = (IF slave.len = 0 THEN k ELSE c.addr + k)
                         /\ x + 1 = (IF slave.len = 0 THEN k + 1 ELSE c.addr + (k + 1))
    OBVIOUS
  <1>2. Place(c, k) = x % SlaveSize /\ Place(c, k + 1) = (x + 1) % SlaveSize
    BY <1>1 DEF Place
  <1>3. x % SlaveSize \in Bytes /\ ((x % SlaveSize) + 1) % SlaveSize = (x + 1) % SlaveSize
    BY DivMod, Around, I2cAssumption DEF Bytes
  <1> QED
    BY <1>2, <1>3 DEF Following

\* Storing a byte of a call leaves what the rest of it will make of the memory.
LEMMA StoredNext ==
    ASSUME NEW c, c.addr \in Nat, c.buf \in Seq(0 .. 255), NEW b \in 1 .. Len(c.buf),
           NEW m \in [Bytes -> 0 .. 255]
    PROVE  Stored([m EXCEPT ![Place(c, b - 1)] = c.buf[b]], c, b + 1) = Stored(m, c, b)
  <1> DEFINE Here(z, b0) == {k \in b0 .. Len(c.buf) : Place(c, k - 1) = z}
             after == [m EXCEPT ![Place(c, b - 1)] = c.buf[b]]
  <1>1. b - 1 \in Nat /\ Len(c.buf) \in Nat /\ b \in Nat
    OBVIOUS
  <1>2. Place(c, b - 1) \in Bytes
    BY <1>1, PlaceNext
  <1>3. ASSUME NEW z \in Bytes
        PROVE  (IF Here(z, b + 1) = {} THEN after[z] ELSE c.buf[Max(Here(z, b + 1))])
                 = (IF Here(z, b) = {} THEN m[z] ELSE c.buf[Max(Here(z, b))])
    <2>1. CASE Place(c, b - 1) # z
      <3>1. Here(z, b) = Here(z, b + 1)
        BY <1>1, <2>1
      <3>2. after[z] = m[z]
        BY <1>2, <2>1
      <3> QED
        BY <3>1, <3>2
    <2>2. CASE Place(c, b - 1) = z
      <3>1. Here(z, b) = Here(z, b + 1) \cup {b}
        BY <1>1, <2>2
      <3>2. after[z] = c.buf[b]
        BY <1>2, <2>2
      <3>3. CASE Here(z, b + 1) = {}
        <4>1. Max({b}) = b
          BY <1>1 DEF Max
        <4>2. Here(z, b) = {b}
          BY <3>1, <3>3
        <4> HIDE DEF Here
        <4>3. Max(Here(z, b)) = b /\ Here(z, b) # {}
          BY <4>1, <4>2
        <4> QED
          BY <3>2, <3>3, <4>3
      <3>4. CASE Here(z, b + 1) # {}
        <4>1. \A h \in Here(z, b + 1) : h > b /\ h \in Nat
          BY <1>1
        <4> HIDE DEF Here
        <4>2. b \in Nat /\ \E h \in Here(z, b + 1) : TRUE
          BY <1>1, <3>4
        <4>3. \A x : (x \in Here(z, b) /\ \A h \in Here(z, b) : x >= h)
                       <=> (x \in Here(z, b + 1) /\ \A h \in Here(z, b + 1) : x >= h)
          BY <3>1, <4>1, <4>2
        <4>4. Max(Here(z, b)) = Max(Here(z, b + 1))
          BY <4>3 DEF Max
        <4> QED
          BY <3>1, <3>4, <4>4
      <3> QED
        BY <3>3, <3>4
    <2> QED
      BY <2>1, <2>2
  <1> QED
    BY <1>3 DEF Stored, Bytes

LEMMA StoredEnd ==
    ASSUME NEW c, NEW m \in [Bytes -> 0 .. 255], NEW b \in Int, b > Len(c.buf), Len(c.buf) \in Nat
    PROVE  Stored(m, c, b) = m
  <1>1. \A z : {k \in b .. Len(c.buf) : Place(c, k - 1) = z} = {}
    OBVIOUS
  <1> QED
    BY <1>1 DEF Stored, Bytes

----------------------------------------------------------------------------

\* Two slaves are the same if their parts are.
Like(s, does, got, at, mem, r) ==
    /\ r \in SlaveType /\ r.does = does /\ r.len = s.len /\ r.got = got /\ r.at = at /\ r.mem = mem

LEMMA AddressByte ==
    ASSUME NEW s \in SlaveType, s.does = "receive", NEW byte \in 0 .. 255
    PROVE  /\ s.got + 1 < s.len =>
                Like(s, "receive", s.got + 1, 256 * s.at + byte, s.mem, Receive(s, byte))
           /\ s.got + 1 = s.len =>
                Like(s, "receive", s.len, (256 * s.at + byte) % SlaveSize, s.mem, Receive(s, byte))
  <1>1. s.got \in Nat /\ s.at \in Nat /\ s.len \in Nat
    BY DEF SlaveType
  <1>2. 256 * s.at + byte \in Nat /\ s.got + 1 \in Nat
    BY <1>1
  <1>3. (256 * s.at + byte) % SlaveSize \in Nat
    <2>1. PICK n \in Nat \ {0}, x \in Nat : n = SlaveSize /\ x = 256 * s.at + byte
      BY <1>2, I2cAssumption
    <2>2. x % n \in Nat
      BY DivMod
    <2> QED
      BY <2>1, <2>2
  <1>4. \A g, a \in Nat : \A r : r = [s EXCEPT !.got = g, !.at = a] => Like(s, "receive", g, a, s.mem, r)
    BY DEF Like, SlaveType
  <1>5. ASSUME s.got + 1 < s.len
        PROVE  Like(s, "receive", s.got + 1, 256 * s.at + byte, s.mem, Receive(s, byte))
    <2>1. s.got < s.len /\ s.got + 1 # s.len
      BY <1>1, <1>5
    <2>2. Receive(s, byte) = [s EXCEPT !.got = s.got + 1, !.at = 256 * s.at + byte]
      BY <2>1, Zenon DEF Receive
    <2> QED
      BY <1>2, <1>4, <2>2, Zenon
  <1>6. ASSUME s.got + 1 = s.len
        PROVE  Like(s, "receive", s.len, (256 * s.at + byte) % SlaveSize, s.mem, Receive(s, byte))
    <2>1. s.got < s.len
      BY <1>1, <1>6
    <2>2. Receive(s, byte) = [s EXCEPT !.got = s.len, !.at = (256 * s.at + byte) % SlaveSize]
      BY <1>6, <2>1, Zenon DEF Receive
    <2> QED
      BY <1>1, <1>3, <1>4, <2>2, Zenon
  <1> QED
    BY <1>5, <1>6

LEMMA LastByte ==
    ASSUME NEW s \in SlaveType, s.does = "receive", NEW byte \in 0 .. 255, s.got + 1 = s.len,
           NEW addr, addr = 256 * s.at + byte
    PROVE  Like(s, "receive", s.len, addr % SlaveSize, s.mem, Receive(s, byte))
  <1>1. Like(s, "receive", s.len, (256 * s.at + byte) % SlaveSize, s.mem, Receive(s, byte))
    BY AddressByte
  <1> QED
    BY <1>1, Zenon

LEMMA TwoBytes ==
    ASSUME NEW s \in SlaveType, s.does = "receive", s.got + 2 = s.len,
           NEW high \in 0 .. 255, NEW low \in 0 .. 255, NEW addr, addr = 256 * (256 * s.at + high) + low
    PROVE  Like(s, "receive", s.len, addr % SlaveSize, s.mem, Receive(Receive(s, high), low))
  <1>1. s.got \in Nat /\ s.len \in Nat
    BY DEF SlaveType
  <1>2. s.got + 1 < s.len /\ (s.got + 1) + 1 = s.len
    BY <1>1
  <1>3. Like(s, "receive", s.got + 1, 256 * s.at + high, s.mem, Receive(s, high))
    BY <1>2, AddressByte
  <1>4. PICK r \in SlaveType : /\ r = Receive(s, high) /\ r.does = "receive" /\ r.len = s.len
                               /\ r.got = s.got + 1 /\ r.at = 256 * s.at + high /\ r.mem = s.mem
    BY <1>3, Zenon DEF Like
  <1>5. r.got + 1 = r.len /\ addr = 256 * r.at + low
    BY <1>2, <1>4
  <1>6. Like(r, "receive", r.len, addr % SlaveSize, r.mem, Receive(r, low))
    BY <1>4, <1>5, LastByte
  <1> QED
    BY <1>4, <1>6, Zenon DEF Like

LEMMA ThreeBytes ==
    ASSUME NEW s \in SlaveType, s.does = "receive", s.got + 3 = s.len, NEW high \in 0 .. 255,
           NEW middle \in 0 .. 255, NEW low \in 0 .. 255,
           NEW addr, addr = 256 * (256 * (256 * s.at + high) + middle) + low
    PROVE  Like(s, "receive", s.len, addr % SlaveSize, s.mem,
                Receive(Receive(Receive(s, high), middle), low))
  <1>1. s.got \in Nat /\ s.len \in Nat
    BY DEF SlaveType
  <1>2. s.got + 1 < s.len /\ (s.got + 1) + 2 = s.len
    BY <1>1
  <1>3. Like(s, "receive", s.got + 1, 256 * s.at + high, s.mem, Receive(s, high))
    BY <1>2, AddressByte
  <1>4. PICK r \in SlaveType : /\ r = Receive(s, high) /\ r.does = "receive" /\ r.len = s.len
                               /\ r.got = s.got + 1 /\ r.at = 256 * s.at + high /\ r.mem = s.mem
    BY <1>3, Zenon DEF Like
  <1>5. r.got + 2 = r.len /\ addr = 256 * (256 * r.at + middle) + low
    BY <1>2, <1>4
  <1>6. Like(r, "receive", r.len, addr % SlaveSize, r.mem, Receive(Receive(r, middle), low))
    BY <1>4, <1>5, TwoBytes
  <1> QED
    BY <1>4, <1>6, Zenon DEF Like

LEMMA Digits ==
    ASSUME NEW addr \in Nat
    PROVE  /\ addr % 256 \in 0 .. 255 /\ (addr \div 256) % 256 \in 0 .. 255
           /\ ((addr \div 256) \div 256) % 256 \in 0 .. 255
           /\ addr < 256 => addr = addr % 256
           /\ addr < 256 * 256 => addr = 256 * ((addr \div 256) % 256) + (addr % 256)
           /\ addr < 256 * 256 * 256 =>
                addr = 256 * (256 * (((addr \div 256) \div 256) % 256) + ((addr \div 256) % 256)) + (addr % 256)
  OBVIOUS

LEMMA OneByteAddress ==
    ASSUME NEW s \in SlaveType, s.does = "receive", s.len = 1, s.got = 0, s.at = 0,
           NEW addr \in Nat, addr < 256
    PROVE  Like(s, "receive", s.len, addr % SlaveSize, s.mem, AfterOut(s, Address(addr, s.len)))
  <1>0. PICK high \in 0 .. 255 : high = ((addr \div 256) \div 256) % 256
    BY Digits
  <1>1. PICK middle \in 0 .. 255 : middle = (addr \div 256) % 256
    BY Digits
  <1>2. PICK low \in 0 .. 255 : low = addr % 256
    BY Digits
  <1>3. PICK out \in {Address(addr, s.len).out} : out = Address(addr, s.len).out
    OBVIOUS
  <1>4. out = <<low>>
    BY <1>0, <1>1, <1>2, <1>3 DEF Address, Ctrl, AddrBytes
  <1>5. Len(out) = 1 /\ out[1] = low
    BY <1>4
  <1>6. AfterOut(s, Address(addr, s.len)) = Receive(s, low)
    BY <1>3, <1>5 DEF AfterOut
  <1>7. addr = 256 * s.at + low /\ s.got + 1 = s.len
    BY <1>0, <1>1, <1>2, Digits
  <1>8. Like(s, "receive", s.len, addr % SlaveSize, s.mem, Receive(s, low))
    BY <1>7, LastByte
  <1> QED
    BY <1>6, <1>8

LEMMA TwoByteAddress ==
    ASSUME NEW s \in SlaveType, s.does = "receive", s.len = 2, s.got = 0, s.at = 0,
           NEW addr \in Nat, addr < 256 * 256
    PROVE  Like(s, "receive", s.len, addr % SlaveSize, s.mem, AfterOut(s, Address(addr, s.len)))
  <1>0. PICK high \in 0 .. 255 : high = ((addr \div 256) \div 256) % 256
    BY Digits
  <1>1. PICK middle \in 0 .. 255 : middle = (addr \div 256) % 256
    BY Digits
  <1>2. PICK low \in 0 .. 255 : low = addr % 256
    BY Digits
  <1>3. PICK out \in {Address(addr, s.len).out} : out = Address(addr, s.len).out
    OBVIOUS
  <1>4. out = <<middle, low>>
    BY <1>0, <1>1, <1>2, <1>3 DEF Address, Ctrl, AddrBytes
  <1>5. Len(out) = 2 /\ out[1] = middle /\ out[2] = low
    BY <1>4
  <1>6. AfterOut(s, Address(addr, s.len)) = Receive(Receive(s, middle), low)
    BY <1>3, <1>5 DEF AfterOut
  <1>7. addr = 256 * (256 * s.at + middle) + low /\ s.got + 2 = s.len
    BY <1>0, <1>1, <1>2, Digits
  <1>8. Like(s, "receive", s.len, addr % SlaveSize, s.mem, Receive(Receive(s, middle), low))
    <2>1. s.got + 2 = s.len
      BY <1>7
    <2>2. \A a : a = 256 * (256 * s.at + middle) + low =>
            Like(s, "receive", s.len, a % SlaveSize, s.mem, Receive(Receive(s, middle), low))
      BY <2>1, TwoBytes
    <2> QED
      BY <1>7, <2>2
  <1> QED
    BY <1>6, <1>8

LEMMA ThreeByteAddress ==
    ASSUME NEW s \in SlaveType, s.does = "receive", s.len = 3, s.got = 0, s.at = 0,
           NEW addr \in Nat, addr < 256 * 256 * 256
    PROVE  Like(s, "receive", s.len, addr % SlaveSize, s.mem, AfterOut(s, Address(addr, s.len)))
  <1>0. PICK high \in 0 .. 255 : high = ((addr \div 256) \div 256) % 256
    BY Digits
  <1>1. PICK middle \in 0 .. 255 : middle = (addr \div 256) % 256
    BY Digits
  <1>2. PICK low \in 0 .. 255 : low = addr % 256
    BY Digits
  <1>3. PICK out \in {Address(addr, s.len).out} : out = Address(addr, s.len).out
    OBVIOUS
  <1>4. out = <<high, middle, low>>
    BY <1>0, <1>1, <1>2, <1>3 DEF Address, Ctrl, AddrBytes
  <1>5. Len(out) = 3 /\ out[1] = high /\ out[2] = middle /\ out[3] = low
    BY <1>4
  <1>6. AfterOut(s, Address(addr, s.len)) = Receive(Receive(Receive(s, high), middle), low)
    BY <1>3, <1>5 DEF AfterOut
  <1>7. addr = 256 * (256 * (256 * s.at + high) + middle) + low /\ s.got + 3 = s.len
    BY <1>0, <1>1, <1>2, Digits
  <1>8. Like(s, "receive", s.len, addr % SlaveSize, s.mem, Receive(Receive(Receive(s, high), middle), low))
    <2>1. s.got + 3 = s.len
      BY <1>7
    <2>2. \A a : a = 256 * (256 * (256 * s.at + high) + middle) + low =>
            Like(s, "receive", s.len, a % SlaveSize, s.mem, Receive(Receive(Receive(s, high), middle), low))
      BY <2>1, ThreeBytes
    <2> QED
      BY <1>7, <2>2
  <1> QED
    BY <1>6, <1>8

LEMMA AddressTaken ==
    ASSUME NEW s \in SlaveType, s.does = "receive", s.got = 0, s.at = 0, NEW addr \in Nat,
           s.len = 1 => addr < 256, s.len = 2 => addr < 256 * 256, s.len = 3 => addr < 256 * 256 * 256
    PROVE  Like(s, "receive", s.len, IF s.len = 0 THEN 0 ELSE addr % SlaveSize, s.mem,
                AfterOut(s, Address(addr, s.len)))
  <1>1. CASE s.len = 0
    <2>1. AfterOut(s, Address(addr, s.len)) = s
      BY <1>1, SMT DEF AfterOut, AddrBytes, Address, Ctrl
    <2> QED
      BY <1>1, <2>1 DEF Like
  <1>2. CASE s.len # 0
    <2>1. Like(s, "receive", s.len, addr % SlaveSize, s.mem, AfterOut(s, Address(addr, s.len)))
      BY <1>2, OneByteAddress, TwoByteAddress, ThreeByteAddress DEF SlaveType
    <2> QED
      BY <1>2, <2>1
  <1> QED
    BY <1>1, <1>2

\* What each command of a call does to an addressed slave.
LEMMA AddressDone ==
    ASSUME I2cInv, I2cCommand, i2c_call \in I2cCalls, i2c_given = 0, ~I2cDone
    PROVE  /\ Like(slave, "receive", slave.len, Place(i2c_call, 0), slave.mem, slave')
           /\ i2c_buf' = i2c_buf
  <1> DEFINE cmd == Address(i2c_call.addr, slave.len)
             heard == [slave EXCEPT !.does = "receive", !.got = 0, !.at = 0]
  <1>1. /\ i2c_call.op \in {"write", "read"} /\ i2c_call.addr \in Nat /\ slave \in SlaveType
        /\ slave.does = "idle" /\ (slave.len = 0 \/ i2c_call.addr < AddrLimit)
        /\ Len(i2c_call.buf) \in Nat /\ i2c_call.n \in Nat
    BY CallType DEF I2cInv, BusType, Writing, Reading
  <1>2. Commands(i2c_call, slave.len)[i2c_given + 1] = cmd
    BY <1>1 DEF Commands, i2c_write_series, i2c_read_series
  <1>3. cmd.phases = {"start", "id"} /\ cmd.dir = "write"
    BY DEF Address, Ctrl
  <1>4. id_read' = FALSE
    BY <1>2, <1>3 DEF I2cCommand
  <1>5. AfterStart(slave, cmd, FALSE) = heard
    BY <1>1, <1>3 DEF AfterStart, Addressed
  <1>6. /\ Like(slave, "receive", 0, 0, slave.mem, heard)
        /\ slave.len \in 0 .. 3
    BY <1>1 DEF SlaveType, Like
  <1>7. /\ slave.len = 1 => i2c_call.addr < 256
        /\ slave.len = 2 => i2c_call.addr < 256 * 256
        /\ slave.len = 3 => i2c_call.addr < 256 * 256 * 256
    BY <1>1, <1>6 DEF AddrLimit
  <1>8. Like(slave, "receive", slave.len, IF slave.len = 0 THEN 0 ELSE i2c_call.addr % SlaveSize,
             slave.mem, AfterOut(heard, cmd))
    <2> HIDE DEF heard
    <2>1. /\ heard \in SlaveType /\ heard.does = "receive" /\ heard.got = 0 /\ heard.at = 0
          /\ heard.len = slave.len /\ heard.mem = slave.mem
      BY <1>6 DEF Like
    <2>2. Like(heard, "receive", heard.len, IF heard.len = 0 THEN 0 ELSE i2c_call.addr % SlaveSize,
               heard.mem, AfterOut(heard, Address(i2c_call.addr, heard.len)))
      BY <1>1, <1>7, <2>1, AddressTaken
    <2> QED
      BY <2>1, <2>2 DEF Like
  <1>9. Place(i2c_call, 0) = IF slave.len = 0 THEN 0 ELSE i2c_call.addr % SlaveSize
    BY <1>1, SmallRemainder, I2cAssumption DEF Place
  <1>10. Like(slave, "receive", slave.len, Place(i2c_call, 0), slave.mem, AfterOut(heard, cmd))
    BY <1>8, <1>9
  <1>11. \A s : AfterStop(AfterIn(s, cmd), cmd) = s
    BY <1>3 DEF AfterStop, AfterIn
  <1>12. /\ slave' = AfterStop(AfterIn(AfterOut(AfterStart(slave, cmd, id_read'), cmd), cmd), cmd)
         /\ i2c_buf' = i2c_buf
    BY <1>2, <1>3 DEF I2cCommand
  <1> QED
    BY <1>4, <1>5, <1>10, <1>11, <1>12

LEMMA Turned ==
    ASSUME NEW s \in SlaveType, NEW d \in {"idle", "receive", "send", "done"},
           NEW r, r = [s EXCEPT !.does = d]
    PROVE  Like(s, d, s.got, s.at, s.mem, r)
  BY DEF Like, SlaveType

LEMMA Moved ==
    ASSUME NEW s \in SlaveType, NEW d \in {"idle", "receive", "send", "done"}, NEW a \in Nat,
           NEW r, r = [s EXCEPT !.at = a, !.does = d]
    PROVE  Like(s, d, s.got, a, s.mem, r)
  BY DEF Like, SlaveType

LEMMA Overwritten ==
    ASSUME NEW s \in SlaveType, NEW a \in Nat, NEW b \in 0 .. 255,
           NEW r, r = [s EXCEPT !.mem[s.at] = b, !.at = a]
    PROVE  Like(s, s.does, s.got, a, [s.mem EXCEPT ![s.at] = b], r)
  <1>1. PICK m \in [Bytes -> 0 .. 255] : m = [s.mem EXCEPT ![s.at] = b]
    BY DEF SlaveType
  <1>2. /\ r.mem = m /\ r.does = s.does /\ r.got = s.got /\ r.len = s.len /\ r.at = a
    BY <1>1 DEF SlaveType
  <1>3. r \in SlaveType
    BY <1>1 DEF SlaveType
  <1> QED
    BY <1>1, <1>2, <1>3, Zenon DEF Like

LEMMA FollowingType ==
    ASSUME NEW s \in SlaveType
    PROVE  Following(s.at) \in Nat
  <1>1. s.at \in Nat
    BY DEF SlaveType
  <1>2. PICK n \in Nat \ {0}, x \in Nat : n = SlaveSize /\ x = s.at + 1
    BY <1>1, I2cAssumption
  <1>3. x % n \in Nat
    BY DivMod
  <1> QED
    BY <1>2, <1>3 DEF Following

\* The second command of a read turns the slave round, where it is.
LEMMA ReadIdDone ==
    ASSUME I2cInv, I2cCommand, i2c_call.op = "read", i2c_given = 1
    PROVE  /\ Like(slave, "send", slave.got, slave.at, slave.mem, slave')
           /\ i2c_buf' = i2c_buf
  <1>1. slave \in SlaveType /\ slave.does = "receive" /\ i2c_call.n \in Nat
    <2>1. i2c_call \in I2cCalls
      BY DEF I2cInv, BusType, NoI2cCall
    <2> QED
      BY <2>1, CallType DEF I2cInv, BusType, Reading
  <1>2. Commands(i2c_call, slave.len)[i2c_given + 1] = ReadId
    BY <1>1 DEF Commands, i2c_read_series
  <1>3. ReadId.phases = {"start", "id"} /\ ReadId.dir = "read" /\ ReadId.out = <<>>
    BY DEF ReadId, Ctrl
  <1>4. id_read' = TRUE
    BY <1>2, <1>3 DEF I2cCommand
  <1>5. AfterStart(slave, ReadId, TRUE) = [slave EXCEPT !.does = "send"]
    BY <1>1, <1>3 DEF AfterStart, Addressed
  <1>6. \A s : AfterOut(s, ReadId) = s /\ AfterStop(AfterIn(s, ReadId), ReadId) = s
    BY <1>3 DEF AfterStop, AfterIn, AfterOut
  <1>7. /\ slave' = AfterStop(AfterIn(AfterOut(AfterStart(slave, ReadId, id_read'), ReadId), ReadId), ReadId)
        /\ i2c_buf' = i2c_buf
    BY <1>2, <1>3 DEF I2cCommand
  <1>8. slave' = [slave EXCEPT !.does = "send"]
    BY <1>4, <1>5, <1>6, <1>7
  <1> QED
    BY <1>1, <1>7, <1>8, Turned

LEMMA WriteByteDone ==
    ASSUME I2cInv, I2cCommand, i2c_call.op = "write", i2c_given \in 1 .. Len(i2c_call.buf)
    PROVE  /\ Like(slave, "receive", slave.got, Following(slave.at),
                   [slave.mem EXCEPT ![slave.at] = i2c_call.buf[i2c_given]], slave')
           /\ i2c_buf' = i2c_buf
  <1> DEFINE cmd == Ctrl({}, "kept", <<i2c_call.buf[i2c_given]>>)
  <1>1. i2c_call \in I2cCalls
    BY DEF I2cInv, BusType, NoI2cCall
  <1>2. /\ Len(i2c_call.buf) \in Nat /\ i2c_call.buf \in Seq(0 .. 255) /\ i2c_given \in Nat
        /\ i2c_call.buf[i2c_given] \in 0 .. 255
    <2>1. Len(i2c_call.buf) \in Nat /\ i2c_call.buf \in Seq(0 .. 255)
      BY <1>1, CallType
    <2>2. i2c_call.buf[i2c_given] \in 0 .. 255
      BY <2>1, ElementOfSeq
    <2> QED
      BY <2>1, <2>2
  <1>3. slave \in SlaveType /\ slave.does = "receive" /\ slave.got = slave.len
    BY <1>2 DEF I2cInv, BusType, Writing
  <1>4. Commands(i2c_call, slave.len)[i2c_given + 1] = cmd
    BY <1>2 DEF Commands, i2c_write_series
  <1>5. cmd.phases = {} /\ cmd.dir = "kept" /\ Len(cmd.out) = 1 /\ cmd.out[1] = i2c_call.buf[i2c_given]
    BY DEF Ctrl
  <1> HIDE DEF cmd
  <1>6. \A s, b : AfterStart(s, cmd, b) = s /\ AfterStop(AfterIn(s, cmd), cmd) = s
    BY <1>5 DEF AfterStop, AfterIn, AfterStart
  <1>7. AfterOut(slave, cmd) = Receive(slave, i2c_call.buf[i2c_given])
    BY <1>5 DEF AfterOut
  <1>8. /\ slave' = AfterStop(AfterIn(AfterOut(AfterStart(slave, cmd, id_read'), cmd), cmd), cmd)
        /\ i2c_buf' = i2c_buf
    BY <1>4, <1>5 DEF I2cCommand
  <1>9. slave' = Receive(slave, i2c_call.buf[i2c_given])
    BY <1>6, <1>7, <1>8
  <1>10. ~(slave.got < slave.len)
    BY <1>3 DEF SlaveType
  <1>11. slave' = [slave EXCEPT !.mem[slave.at] = i2c_call.buf[i2c_given], !.at = Following(slave.at)]
    BY <1>3, <1>9, <1>10 DEF Receive
  <1>12. Following(slave.at) \in Nat
    BY <1>3, FollowingType
  <1>13. Like(slave, slave.does, slave.got, Following(slave.at),
              [slave.mem EXCEPT ![slave.at] = i2c_call.buf[i2c_given]], slave')
    BY <1>2, <1>3, <1>11, <1>12, Overwritten, Zenon
  <1> QED
    BY <1>3, <1>8, <1>13

LEMMA ReadByteDone ==
    ASSUME I2cInv, I2cCommand, i2c_call.op = "read", i2c_given \in 2 .. i2c_call.n + 1
    PROVE  /\ Like(slave, IF i2c_given = i2c_call.n + 1 THEN "done" ELSE "send", slave.got,
                   Following(slave.at), slave.mem, slave')
           /\ i2c_buf' = Append(i2c_buf, slave.mem[slave.at])
  <1> DEFINE final == i2c_given = i2c_call.n + 1
             cmd == Ctrl(IF final THEN {"in", "last"} ELSE {"in"}, "kept", <<>>)
  <1>1. i2c_call \in I2cCalls
    BY DEF I2cInv, BusType, NoI2cCall
  <1>2. i2c_call.n \in Nat /\ i2c_given \in Nat
    BY <1>1, CallType
  <1>3. slave \in SlaveType /\ slave.does = "send"
    BY <1>2 DEF I2cInv, BusType, Reading
  <1>4. Commands(i2c_call, slave.len)[i2c_given + 1] = cmd
    BY <1>2 DEF Commands, i2c_read_series
  <1>5. /\ cmd.phases = (IF final THEN {"in", "last"} ELSE {"in"}) /\ cmd.dir = "kept" /\ Len(cmd.out) = 0
        /\ "in" \in cmd.phases /\ "id" \notin cmd.phases /\ "stop" \notin cmd.phases
        /\ ("last" \in cmd.phases <=> final)
    BY DEF Ctrl
  <1> HIDE DEF cmd
  <1>6. \A s, b : /\ AfterStart(s, cmd, b) = s /\ AfterOut(s, cmd) = s /\ AfterStop(s, cmd) = s
                  /\ AfterIn(s, cmd) = Send(s, "last" \in cmd.phases)
    BY <1>5 DEF AfterStop, AfterIn, AfterStart, AfterOut
  <1>7. /\ slave' = AfterStop(AfterIn(AfterOut(AfterStart(slave, cmd, id_read'), cmd), cmd), cmd)
        /\ i2c_buf' = Append(i2c_buf, AfterOut(AfterStart(slave, cmd, id_read'), cmd).mem[
                                        AfterOut(AfterStart(slave, cmd, id_read'), cmd).at])
    BY <1>4, <1>5 DEF I2cCommand
  <1>8. slave' = Send(slave, "last" \in cmd.phases) /\ i2c_buf' = Append(i2c_buf, slave.mem[slave.at])
    BY <1>6, <1>7
  <1>9. Following(slave.at) \in Nat
    BY <1>3, FollowingType
  <1>10. CASE final
    <2>1. slave' = [slave EXCEPT !.at = Following(slave.at), !.does = "done"]
      BY <1>3, <1>5, <1>8, <1>10 DEF Send
    <2> QED
      BY <1>3, <1>8, <1>9, <1>10, <2>1, Moved
  <1>11. CASE ~final
    <2>1. slave' = [slave EXCEPT !.at = Following(slave.at), !.does = "send"]
      BY <1>3, <1>5, <1>8, <1>11 DEF Send
    <2> QED
      BY <1>3, <1>8, <1>9, <1>11, <2>1, Moved
  <1> QED
    BY <1>10, <1>11

LEMMA StopDone ==
    ASSUME I2cInv, I2cCommand, i2c_call \in I2cCalls,
           i2c_given = IF i2c_call.op = "write" THEN Len(i2c_call.buf) + 1 ELSE i2c_call.n + 2
    PROVE  Like(slave, "idle", slave.got, slave.at, slave.mem, slave') /\ i2c_buf' = i2c_buf
  <1>1. /\ i2c_call.op \in {"write", "read"} /\ Len(i2c_call.buf) \in Nat /\ i2c_call.n \in Nat
        /\ i2c_call.op = "read" => i2c_call.n > 0
    BY CallType
  <1>2. slave \in SlaveType /\ slave.does # "send"
    BY <1>1 DEF I2cInv, BusType, Writing, Reading
  <1>3. Commands(i2c_call, slave.len)[i2c_given + 1] = Stop
    <2>1. CASE i2c_call.op = "write"
      BY <1>1, <2>1 DEF Commands, i2c_write_series
    <2>2. CASE i2c_call.op = "read"
      BY <1>1, <2>2 DEF Commands, i2c_read_series
    <2> QED
      BY <1>1, <2>1, <2>2
  <1>4. Stop.phases = {"stop"} /\ Stop.dir = "kept" /\ Len(Stop.out) = 0
    BY DEF Stop, Ctrl
  <1>5. \A s, b : /\ AfterStart(s, Stop, b) = s /\ AfterOut(s, Stop) = s /\ AfterIn(s, Stop) = s
                  /\ AfterStop(s, Stop) = Stopped(s)
    BY <1>4 DEF AfterStop, AfterIn, AfterStart, AfterOut
  <1>6. /\ slave' = AfterStop(AfterIn(AfterOut(AfterStart(slave, Stop, id_read'), Stop), Stop), Stop)
        /\ i2c_buf' = i2c_buf
    BY <1>3, <1>4 DEF I2cCommand
  <1>7. slave' = [slave EXCEPT !.does = "idle"]
    BY <1>2, <1>5, <1>6 DEF Stopped
  <1> QED
    BY <1>2, <1>6, <1>7, Turned

----------------------------------------------------------------------------

LEMMA Lengths ==
    ASSUME I2cInv
    PROVE  /\ i2c_call.op = "none" => Len(Commands(i2c_call, slave.len)) = 0
           /\ i2c_call.op = "write" => Len(Commands(i2c_call, slave.len)) = Len(i2c_call.buf) + 2
           /\ i2c_call.op = "read" => Len(Commands(i2c_call, slave.len)) = i2c_call.n + 3
           /\ i2c_call.op # "none" => i2c_call \in I2cCalls
           /\ i2c_call.op \in {"none", "write", "read"}
  <1>1. /\ i2c_call.op # "none" => i2c_call \in I2cCalls
        /\ i2c_call.op \in {"none", "write", "read"}
    BY CallType DEF I2cInv, BusType, NoI2cCall
  <1>2. CASE i2c_call.op = "none"
    BY <1>1, <1>2 DEF Commands
  <1>3. CASE i2c_call.op = "write"
    <2>1. Len(i2c_call.buf) \in Nat
      BY <1>1, <1>3, CallType
    <2> QED
      BY <1>1, <1>3, <2>1 DEF Commands, i2c_write_series
  <1>4. CASE i2c_call.op = "read"
    <2>1. i2c_call.n \in Nat
      BY <1>1, <1>4, CallType
    <2> QED
      BY <1>1, <1>4, <2>1 DEF Commands, i2c_read_series
  <1> QED
    BY <1>1, <1>2, <1>3, <1>4

\* Between the calls the slave has let go of the bus.
LEMMA Returned ==
    ASSUME I2cInv, I2cDone
    PROVE  slave.does = "idle" /\ slave.mem = i2c_want
  <1>1. CASE i2c_call.op = "none"
    BY <1>1 DEF I2cInv
  <1>2. CASE i2c_call.op = "write"
    <2>1. i2c_given = Len(i2c_call.buf) + 2 /\ Len(i2c_call.buf) \in Nat /\ Writing
      BY <1>2, Lengths, CallType DEF I2cInv, I2cDone
    <2>2. slave.mem \in [Bytes -> 0 .. 255]
      BY DEF I2cInv, BusType, SlaveType
    <2>3. Stored(slave.mem, i2c_call, i2c_given) = slave.mem
      <3>1. i2c_given \in Int /\ i2c_given > Len(i2c_call.buf) /\ Len(i2c_call.buf) \in Nat
        BY <2>1
      <3> QED
        BY <2>2, <3>1, StoredEnd
    <2> QED
      BY <2>1, <2>3 DEF Writing
  <1>3. CASE i2c_call.op = "read"
    <2>1. i2c_given = i2c_call.n + 3 /\ i2c_call.n \in Nat /\ Reading
      BY <1>3, Lengths, CallType DEF I2cInv, I2cDone
    <2> QED
      BY <2>1 DEF Reading
  <1> QED
    BY <1>1, <1>2, <1>3, Lengths

LEMMA I2cInvTransferred ==
    ASSUME I2cInv
    PROVE  I2cTransferred
  <1> SUFFICES ASSUME I2cDone, i2c_call.op = "read"
               PROVE  i2c_buf = [k \in 1 .. i2c_call.n |-> slave.mem[Place(i2c_call, k - 1)]]
    BY Returned DEF I2cTransferred
  <1>1. i2c_given = i2c_call.n + 3 /\ i2c_call.n \in Nat /\ Reading
    BY Lengths, CallType DEF I2cInv, I2cDone
  <1> QED
    BY <1>1 DEF Reading

LEMMA DeviceType ==
    ASSUME NEW len \in 0 .. 3
    PROVE  Device(len) \in SlaveType /\ Device(len).does = "idle"
  BY DEF Device, SlaveType, Bytes

LEMMA I2cInitInv ==
    ASSUME I2cInit
    PROVE  I2cInv
  BY DeviceType DEF I2cInit, I2cInv, BusType, NoI2cCall

LEMMA I2cMasterInitInv ==
    ASSUME I2cInv, i2c_master_init
    PROVE  I2cInv'
  <1>1. PICK len \in 0 .. 3 : slave' = Device(len)
    BY I2cAssumption DEF i2c_master_init
  <1>2. i2c_call' = NoI2cCall /\ i2c_given' = 0 /\ i2c_want' = slave'.mem
    BY DEF i2c_master_init
  <1> QED
    BY <1>1, <1>2, DeviceType DEF I2cInv, BusType, NoI2cCall

LEMMA I2cCallInv ==
    ASSUME I2cInv, I2cCall
    PROVE  I2cInv'
  <1>1. PICK c \in I2cCalls : /\ slave.len = 0 \/ c.addr < AddrLimit
                              /\ i2c_call' = c /\ i2c_want' = Stored(i2c_want, c, 1)
    BY DEF I2cCall
  <1>2. i2c_given' = 0 /\ i2c_buf' = <<>> /\ slave' = slave /\ I2cDone
    BY DEF I2cCall
  <1>3. /\ c.op \in {"write", "read"} /\ Len(c.buf) \in Nat /\ c.n \in Nat
        /\ c.op = "read" => Len(c.buf) = 0
    BY CallType
  <1>4. slave.does = "idle" /\ slave.mem = i2c_want /\ slave \in SlaveType
    BY <1>2, Returned DEF I2cInv, BusType
  <1>5. AddrLimit' = AddrLimit /\ Stored(slave.mem, c, 1) = Stored(slave.mem, c, 1)'
    BY <1>2 DEF AddrLimit, Stored, Place
  <1>6. BusType'
    BY <1>1, <1>2, <1>4, <1>5 DEF BusType
  <1>7. CASE c.op = "write"
    BY <1>1, <1>2, <1>3, <1>4, <1>5, <1>6, <1>7 DEF I2cInv, Writing
  <1>8. CASE c.op = "read"
    <2>1. Stored(slave.mem, c, 1) = slave.mem
      <3>1. slave.mem \in [Bytes -> 0 .. 255]
        BY <1>4 DEF SlaveType
      <3>2. 1 \in Int /\ 1 > Len(c.buf) /\ Len(c.buf) \in Nat
        BY <1>3, <1>8
      <3> QED
        BY <3>1, <3>2, StoredEnd
    <2>2. i2c_buf' = [k \in 1 .. 0 |-> slave'.mem[Place(i2c_call, k - 1)']]
      BY <1>2
    <2> QED
      BY <1>1, <1>2, <1>3, <1>4, <1>6, <1>8, <2>1, <2>2 DEF I2cInv, Reading
  <1> QED
    BY <1>3, <1>7, <1>8

\* What a command leaves alone.
LEMMA CommandKeeps ==
    ASSUME I2cInv, I2cCommand, slave' \in SlaveType, slave'.len = slave.len
    PROVE  /\ i2c_call' = i2c_call /\ i2c_want' = i2c_want /\ i2c_given' = i2c_given + 1 /\ BusType'
           /\ \A k : Place(i2c_call, k)' = Place(i2c_call, k)
           /\ \A m, k : Stored(m, i2c_call, k)' = Stored(m, i2c_call, k)
  <1>1. i2c_call' = i2c_call /\ i2c_want' = i2c_want /\ i2c_given' = i2c_given + 1
    BY DEF I2cCommand
  <1>2. \A k : Place(i2c_call, k)' = Place(i2c_call, k)
    BY <1>1 DEF Place
  <1>3. \A m, k : Stored(m, i2c_call, k)' = Stored(m, i2c_call, k)
    BY <1>1, <1>2 DEF Stored
  <1>4. AddrLimit' = AddrLimit
    BY DEF AddrLimit
  <1>5. BusType'
    BY <1>1, <1>4 DEF BusType, I2cInv
  <1> QED
    BY <1>1, <1>2, <1>3, <1>5

LEMMA WriteCommandInv ==
    ASSUME I2cInv, I2cCommand, i2c_call.op = "write"
    PROVE  I2cInv'
  <1> DEFINE n == Len(i2c_call.buf)
  <1>1. /\ i2c_call \in I2cCalls /\ n \in Nat /\ i2c_given \in 0 .. n + 1 /\ ~I2cDone
        /\ i2c_call.addr \in Nat /\ i2c_call.buf \in Seq(0 .. 255)
        /\ slave \in SlaveType
    BY Lengths, CallType DEF I2cInv, BusType, Writing, I2cDone, I2cCommand
  <1>2. slave.mem \in [Bytes -> 0 .. 255]
    BY <1>1 DEF SlaveType
  <1>3. CASE i2c_given = 0
    <2>1. Like(slave, "receive", slave.len, Place(i2c_call, 0), slave.mem, slave')
      BY <1>1, <1>3, AddressDone
    <2>2. /\ slave' \in SlaveType /\ slave'.does = "receive" /\ slave'.len = slave.len
          /\ slave'.got = slave.len /\ slave'.at = Place(i2c_call, 0) /\ slave'.mem = slave.mem
      BY <2>1 DEF Like
    <2>3. i2c_want = Stored(slave.mem, i2c_call, 1)
      BY <1>3 DEF I2cInv, Writing
    <2> QED
      BY <1>1, <1>3, <2>2, <2>3, CommandKeeps DEF I2cInv, Writing
  <1>4. CASE i2c_given \in 1 .. n
    <2>1. Like(slave, "receive", slave.got, Following(slave.at),
               [slave.mem EXCEPT ![slave.at] = i2c_call.buf[i2c_given]], slave')
      BY <1>4, WriteByteDone
    <2>2. /\ slave' \in SlaveType /\ slave'.does = "receive" /\ slave'.len = slave.len
          /\ slave'.got = slave.got /\ slave'.at = Following(slave.at)
          /\ slave'.mem = [slave.mem EXCEPT ![slave.at] = i2c_call.buf[i2c_given]]
      BY <2>1 DEF Like
    <2>3. /\ slave.got = slave.len /\ slave.at = Place(i2c_call, i2c_given - 1)
          /\ i2c_want = Stored(slave.mem, i2c_call, i2c_given)
      BY <1>1, <1>4 DEF I2cInv, Writing
    <2>4. PICK g \in 1 .. n : g = i2c_given /\ g - 1 \in Nat /\ (g - 1) + 1 = g
      BY <1>1, <1>4
    <2>5. Following(Place(i2c_call, g - 1)) = Place(i2c_call, g)
      BY <1>1, <2>4, PlaceNext
    <2>6. Stored([slave.mem EXCEPT ![Place(i2c_call, g - 1)] = i2c_call.buf[g]], i2c_call, g + 1)
            = Stored(slave.mem, i2c_call, g)
      BY <1>1, <1>2, StoredNext
    <2>7. PICK m \in {slave'.mem} : m = slave'.mem
      OBVIOUS
    <2>8. Stored(m, i2c_call, g + 1) = i2c_want
      BY <2>2, <2>3, <2>4, <2>6, <2>7, Zenon
    <2>9. /\ i2c_call' = i2c_call /\ i2c_want' = i2c_want /\ i2c_given' = g + 1 /\ BusType'
          /\ slave'.at = Place(i2c_call, g)' /\ Stored(m, i2c_call, g + 1)' = i2c_want
      <3>1. /\ i2c_call' = i2c_call /\ i2c_want' = i2c_want /\ i2c_given' = i2c_given + 1 /\ BusType'
            /\ Place(i2c_call, g)' = Place(i2c_call, g)
            /\ Stored(m, i2c_call, g + 1)' = Stored(m, i2c_call, g + 1)
        BY <2>2, CommandKeeps
      <3> QED
        BY <2>2, <2>3, <2>4, <2>5, <2>8, <3>1, Zenon
    <2>10. (g + 1) - 1 = g /\ g + 1 # 0 /\ g + 1 # n + 2 /\ g + 1 <= n + 2
      BY <1>1
    <2>11. Writing'
      BY <2>2, <2>3, <2>7, <2>9, <2>10 DEF Writing
    <2> QED
      BY <2>9, <2>11 DEF I2cInv
  <1>5. CASE i2c_given = n + 1
    <2>1. Like(slave, "idle", slave.got, slave.at, slave.mem, slave')
      BY <1>1, <1>5, StopDone
    <2>2. slave' \in SlaveType /\ slave'.does = "idle" /\ slave'.len = slave.len /\ slave'.mem = slave.mem
      BY <2>1 DEF Like
    <2>3. i2c_want = slave.mem /\ Stored(slave.mem, i2c_call, n + 2) = slave.mem
      <3>1. n + 1 \in Int /\ n + 1 > n /\ n + 2 \in Int /\ n + 2 > n /\ n + 1 # 0
        BY <1>1
      <3>2. Stored(slave.mem, i2c_call, n + 1) = slave.mem /\ Stored(slave.mem, i2c_call, n + 2) = slave.mem
        BY <1>1, <1>2, <3>1, StoredEnd
      <3> QED
        BY <1>1, <1>5, <3>1, <3>2 DEF I2cInv, Writing
    <2> QED
      BY <1>1, <1>5, <2>2, <2>3, CommandKeeps DEF I2cInv, Writing
  <1> QED
    BY <1>1, <1>3, <1>4, <1>5

LEMMA ReadCommandInv ==
    ASSUME I2cInv, I2cCommand, i2c_call.op = "read"
    PROVE  I2cInv'
  <1> DEFINE n == i2c_call.n
  <1>1. /\ i2c_call \in I2cCalls /\ n \in Nat \ {0} /\ i2c_given \in 0 .. n + 2 /\ ~I2cDone
        /\ i2c_call.addr \in Nat /\ slave \in SlaveType /\ i2c_want = slave.mem
    BY Lengths, CallType DEF I2cInv, BusType, Reading, I2cDone, I2cCommand
  <1>2. CASE i2c_given = 0
    <2>1. Like(slave, "receive", slave.len, Place(i2c_call, 0), slave.mem, slave') /\ i2c_buf' = i2c_buf
      BY <1>1, <1>2, AddressDone
    <2>2. /\ slave' \in SlaveType /\ slave'.does = "receive" /\ slave'.len = slave.len
          /\ slave'.at = Place(i2c_call, 0) /\ slave'.mem = slave.mem
      BY <2>1 DEF Like
    <2>3. i2c_buf' = [k \in 1 .. 0 |-> slave.mem[Place(i2c_call, k - 1)]]
      BY <1>2, <2>1 DEF I2cInv, Reading
    <2>4. [k \in 1 .. 0 |-> slave.mem[Place(i2c_call, k - 1)]]
            = [k \in 1 .. 0 |-> slave'.mem[Place(i2c_call, k - 1)']]
      OBVIOUS
    <2> QED
      BY <1>1, <1>2, <2>2, <2>3, <2>4, CommandKeeps DEF I2cInv, Reading
  <1>3. CASE i2c_given = 1
    <2>1. Like(slave, "send", slave.got, slave.at, slave.mem, slave') /\ i2c_buf' = i2c_buf
      BY <1>1, <1>3, ReadIdDone
    <2>2. /\ slave' \in SlaveType /\ slave'.does = "send" /\ slave'.len = slave.len
          /\ slave'.at = Place(i2c_call, 0) /\ slave'.mem = slave.mem
      BY <1>3, <2>1 DEF Like, I2cInv, Reading
    <2>3. i2c_buf' = [k \in 1 .. 0 |-> slave.mem[Place(i2c_call, k - 1)]]
      BY <1>3, <2>1 DEF I2cInv, Reading
    <2>4. [k \in 1 .. 0 |-> slave.mem[Place(i2c_call, k - 1)]]
            = [k \in 1 .. 0 |-> slave'.mem[Place(i2c_call, k - 1)']]
      OBVIOUS
    <2> QED
      BY <1>1, <1>3, <2>2, <2>3, <2>4, CommandKeeps DEF I2cInv, Reading
  <1>4. CASE i2c_given \in 2 .. n + 1
    <2>1. /\ Like(slave, IF i2c_given = n + 1 THEN "done" ELSE "send", slave.got,
                  Following(slave.at), slave.mem, slave')
          /\ i2c_buf' = Append(i2c_buf, slave.mem[slave.at])
      BY <1>4, ReadByteDone
    <2>2. /\ slave' \in SlaveType /\ slave'.len = slave.len /\ slave'.at = Following(slave.at)
          /\ slave'.mem = slave.mem /\ slave'.does = IF i2c_given = n + 1 THEN "done" ELSE "send"
      BY <2>1 DEF Like
    <2>3. PICK j \in Nat : j = i2c_given - 2 /\ j + 1 = i2c_given - 1 /\ j < n
      BY <1>1, <1>4
    <2>4. slave.at = Place(i2c_call, j) /\ i2c_buf = [k \in 1 .. j |-> slave.mem[Place(i2c_call, k - 1)]]
      BY <1>1, <1>4, <2>3 DEF I2cInv, Reading
    <2>5. Following(slave.at) = Place(i2c_call, j + 1)
      BY <1>1, <2>4, PlaceNext
    <2>6. i2c_buf' = [k \in 1 .. j + 1 |-> slave.mem[Place(i2c_call, k - 1)]]
      <3>1. \A f : Append([k \in 1 .. j |-> f[k]], f[j + 1]) = [k \in 1 .. j + 1 |-> f[k]]
        OBVIOUS
      <3> DEFINE f == [k \in 1 .. j + 1 |-> slave.mem[Place(i2c_call, k - 1)]]
      <3>2. i2c_buf = [k \in 1 .. j |-> f[k]] /\ f[j + 1] = slave.mem[slave.at]
        BY <2>4
      <3>3. f = [k \in 1 .. j + 1 |-> f[k]]
        OBVIOUS
      <3> HIDE DEF f
      <3>4. i2c_buf' = f
        BY <2>1, <3>1, <3>2, <3>3
      <3> QED
        BY <3>4 DEF f
    <2>7. /\ i2c_call' = i2c_call /\ i2c_want' = i2c_want /\ i2c_given' = i2c_given + 1 /\ BusType'
          /\ \A k : Place(i2c_call, k)' = Place(i2c_call, k)
      BY <2>2, CommandKeeps
    <2>8. /\ i2c_buf' = [k \in 1 .. j + 1 |-> slave'.mem[Place(i2c_call, k - 1)']]
          /\ slave'.at = Place(i2c_call, j + 1)'
      BY <2>2, <2>5, <2>6, <2>7
    <2>9. i2c_given' - 2 = j + 1 /\ i2c_given' \in 3 .. n + 2
      BY <1>1, <1>4, <2>3, <2>7
    <2>10. Reading'
      BY <1>1, <2>2, <2>3, <2>7, <2>8, <2>9 DEF Reading
    <2> QED
      BY <1>1, <2>7, <2>10 DEF I2cInv
  <1>5. CASE i2c_given = n + 2
    <2>1. Like(slave, "idle", slave.got, slave.at, slave.mem, slave') /\ i2c_buf' = i2c_buf
      BY <1>1, <1>5, StopDone
    <2>2. slave' \in SlaveType /\ slave'.does = "idle" /\ slave'.len = slave.len /\ slave'.mem = slave.mem
      BY <2>1 DEF Like
    <2>3. i2c_buf = [k \in 1 .. n |-> slave.mem[Place(i2c_call, k - 1)]]
      BY <1>1, <1>5 DEF I2cInv, Reading
    <2>4. /\ i2c_call' = i2c_call /\ i2c_want' = i2c_want /\ i2c_given' = i2c_given + 1 /\ BusType'
          /\ \A k : Place(i2c_call, k)' = Place(i2c_call, k)
      BY <2>2, CommandKeeps
    <2>5. i2c_buf' = [k \in 1 .. n |-> slave'.mem[Place(i2c_call, k - 1)']]
      BY <2>1, <2>2, <2>3, <2>4
    <2>6. i2c_given' = n + 3
      BY <1>1, <1>5, <2>4
    <2> QED
      BY <1>1, <2>2, <2>4, <2>5, <2>6 DEF I2cInv, Reading
  <1> QED
    BY <1>1, <1>2, <1>3, <1>4, <1>5

\* Between two commands the slave is where the call needs it next, and a stored
\* byte is one the rest of the call will not undo.
LEMMA I2cNextInv ==
    ASSUME I2cInv, I2cNext \/ UNCHANGED i2cVars
    PROVE  I2cInv'
  <1>1. CASE I2cCommand
    <2>1. i2c_call.op # "none"
      BY <1>1, Lengths DEF I2cCommand, I2cDone, I2cInv
    <2> QED
      BY <1>1, <2>1, Lengths, WriteCommandInv, ReadCommandInv
  <1>2. CASE UNCHANGED i2cVars
    <2>1. /\ i2c_call' = i2c_call /\ i2c_given' = i2c_given /\ i2c_buf' = i2c_buf /\ slave' = slave
          /\ i2c_want' = i2c_want
      BY <1>2 DEF i2cVars
    <2>2. \A k : Place(i2c_call, k)' = Place(i2c_call, k)
      BY <2>1 DEF Place
    <2>3. PICK m \in {slave.mem} : m = slave.mem
      OBVIOUS
    <2>4. \A k : Stored(m, i2c_call, k)' = Stored(m, i2c_call, k)
      BY <2>1, <2>2 DEF Stored
    <2>5. AddrLimit' = AddrLimit
      BY <2>1 DEF AddrLimit
    <2>6. BusType'
      BY <2>1, <2>5 DEF BusType, I2cInv
    <2>7. Writing => Writing'
      BY <2>1, <2>2, <2>3, <2>4 DEF Writing
    <2>8. Reading => Reading'
      BY <2>1, <2>2 DEF Reading
    <2> QED
      BY <2>1, <2>6, <2>7, <2>8 DEF I2cInv
  <1> QED
    BY <1>1, <1>2, I2cMasterInitInv, I2cCallInv DEF I2cNext

\* However the calls follow each other, whatever addresses and lengths they
\* name within the slave's address bytes, every byte is stored or read where
\* the call says, and the slave has let go of the bus when it returns.
THEOREM BusCorrect == DriversSpec => []I2cTransferred
  <1>1. DriversInit => I2cInv
    BY I2cInitInv DEF DriversInit
  <1>2. ASSUME [DriversNext]_driversVars PROVE I2cNext \/ UNCHANGED i2cVars
    BY <1>2 DEF DriversNext, driversVars
  <1>3. I2cInv /\ [DriversNext]_driversVars => I2cInv'
    BY <1>2, I2cNextInv
  <1>4. I2cInv => I2cTransferred
    BY I2cInvTransferred
  <1> QED
    BY <1>1, <1>3, <1>4, PTL DEF DriversSpec

----------------------------------------------------------------------------
(* The ADC's samples: the values sorted are, one by one, the values taken.  *)

Code == 0 .. Bit13 - 1

Sorted(s) ==
    /\ s \in Seq(Code) /\ Len(s) <= 8
    /\ \A i, j \in 1 .. Len(s) : i <= j => s[i] <= s[j]

\* The values taken, told apart by their numbers, are those sorted.
Matched(s, taken) ==
    /\ taken \subseteq Code \X Nat
    /\ \A x \in taken : x[2] < Cardinality({y \in taken : y[1] = x[1]})
    /\ \E f \in Bijection(1 .. Len(s), taken) : \A i \in 1 .. Len(s) : f[i][1] = s[i]

\* All but so many of the values taken are those the ADC had measured.
Measured(taken, true, torn) ==
    /\ true \subseteq Nat /\ torn \in Nat
    /\ \E t \in SUBSET taken : Cardinality(t) <= torn /\ \A x \in taken \ t : x[1] \in true

Sampled(s, taken, true, torn) == Sorted(s) /\ Matched(s, taken) /\ Measured(taken, true, torn)

AdcInv ==
    /\ adc_torn <= TornReads
    /\ adc_sample = <<>> \/ Sampled(adc_sample, adc_taken, adc_true, adc_torn)
    /\ MiddleAverage

LEMMA Bit13Type == Bit13 \in Nat \ {0}
  BY DEF Bit13

LEMMA TakenType ==
    ASSUME NEW first \in AdcCodes, NEW second \in AdcCodes
    PROVE  /\ TakenFrom(first, second) \in Code /\ Magnitude(first) \in Nat /\ Magnitude(second) \in Nat
           /\ first = second => TakenFrom(first, second) = Magnitude(first)
  <1>1. first \in Nat /\ second \in Nat
    BY Bit13Type, AdcAssumption
  <1>2. second % Bit13 \in Code
    BY <1>1, Bit13Type, DivMod DEF Code
  <1>3. 0 \in Code
    BY Bit13Type DEF Code
  <1>4. second < Bit13 => second % Bit13 = second
    BY <1>1, Bit13Type, SmallRemainder
  <1> QED
    BY <1>1, <1>2, <1>3, <1>4, Bit13Type DEF TakenFrom, Magnitude

----------------------------------------------------------------------------

LEMMA Least ==
    ASSUME NEW T \in SUBSET Nat, T # {}
    PROVE  \E x \in T : \A y \in T : x <= y
  <1> DEFINE Less == {x \in Nat \X Nat : x[1] < x[2]}
  <1>1. Less = OpToRel(<, Nat)
    BY DEF OpToRel
  <1>2. IsWellFoundedOn(Less, Nat)
    BY <1>1, NatLessThanWellFounded
  <1> HIDE DEF Less
  <1>3. PICK x \in T : \A y \in T : ~ (<<y, x>> \in Less)
    BY <1>2, WFMin
  <1>4. ASSUME NEW y \in T PROVE x <= y
    <2>1. <<y, x>> \in Nat \X Nat /\ <<y, x>> \notin Less
      BY <1>3
    <2>2. ~(y < x)
      BY <2>1 DEF Less
    <2> QED
      BY <2>2
  <1> QED
    BY <1>4

LEMMA Largest ==
    ASSUME NEW n \in Nat, NEW S \in SUBSET (0 .. n), S # {}
    PROVE  Max(S) \in S /\ \A z \in S : z <= Max(S)
  <1> DEFINE T == {n - z : z \in S}
  <1>1. T \in SUBSET Nat /\ T # {}
    <2>1. \A z \in S : n - z \in Nat
      OBVIOUS
    <2>2. PICK z \in S : TRUE
      OBVIOUS
    <2> QED
      BY <2>1, <2>2, Zenon
  <1>2. PICK x \in S : \A y \in T : n - x <= y
    BY <1>1, Least
  <1>3. \A z \in S : x >= z
    <2> SUFFICES ASSUME NEW z \in S PROVE x >= z
      OBVIOUS
    <2>1. n - x <= n - z
      BY <1>2
    <2> QED
      BY <2>1
  <1>4. Max(S) \in S /\ \A z \in S : Max(S) >= z
    BY <1>3 DEF Max
  <1> QED
    BY <1>4

\* A value sorted in: those up to the n-th stay, the others move up.
LEMMA PutIn ==
    ASSUME NEW s, Sorted(s), Len(s) < 8, NEW v \in Code
    PROVE  \E n \in 0 .. Len(s), r \in Seq(Code) :
             /\ r = SortIn(s, v) /\ Len(r) = Len(s) + 1
             /\ \A i \in 1 .. n : r[i] = s[i] /\ s[i] <= v
             /\ r[n + 1] = v
             /\ \A i \in n + 1 .. Len(s) : r[i + 1] = s[i] /\ v < s[i]
  <1> DEFINE S == {0} \cup {k \in DOMAIN s : s[k] <= v}
             n == Max(S)
             low == SubSeq(s, 1, n)
             high == SubSeq(s, n + 1, Len(s))
  <1>1. s \in Seq(Code) /\ Len(s) \in Nat /\ DOMAIN s = 1 .. Len(s) /\ Code \subseteq Int
    BY Bit13Type DEF Sorted, Code
  <1>2. n \in S /\ \A z \in S : z <= n
    <2>1. 8 \in Nat /\ S \in SUBSET (0 .. 8) /\ S # {}
      BY <1>1
    <2> QED
      BY <2>1, Largest
  <1>3. n \in 0 .. Len(s)
    BY <1>1, <1>2
  <1>4. \A i \in 1 .. Len(s) : s[i] \in Code /\ s[i] \in Int
    BY <1>1, ElementOfSeq
  <1>5. \A i \in 1 .. n : s[i] <= v
    <2> SUFFICES ASSUME NEW i \in 1 .. n PROVE s[i] <= v
      OBVIOUS
    <2>1. n \in 1 .. Len(s) /\ i \in 1 .. Len(s) /\ i <= n
      BY <1>1, <1>3
    <2>2. s[n] <= v
      BY <1>2, <2>1
    <2>3. s[i] <= s[n] /\ s[i] \in Int /\ s[n] \in Int /\ v \in Int
      BY <1>1, <1>4, <2>1 DEF Sorted
    <2> QED
      BY <2>2, <2>3
  <1>6. \A i \in n + 1 .. Len(s) : v < s[i]
    <2> SUFFICES ASSUME NEW i \in n + 1 .. Len(s) PROVE v < s[i]
      OBVIOUS
    <2>1. i \in 1 .. Len(s) /\ i > n
      BY <1>1, <1>3
    <2>2. ~(s[i] <= v)
      BY <1>1, <1>2, <1>3, <2>1
    <2>3. s[i] \in Int /\ v \in Int
      BY <1>1, <1>4, <2>1
    <2> QED
      BY <2>2, <2>3
  <1> HIDE DEF n, S
  <1>7. /\ low \in Seq(Code) /\ Len(low) = n /\ \A i \in 1 .. n : low[i] = s[i]
    BY <1>1, <1>3
  <1>8. /\ high \in Seq(Code) /\ Len(high) = Len(s) - n
        /\ \A i \in 1 .. Len(s) - n : high[i] = s[n + i]
    <2>1. \A i \in n + 1 .. Len(s) : s[i] \in Code
      BY <1>1, <1>3, <1>4
    <2>2. n + 1 \in Int /\ Len(s) \in Int
      BY <1>1, <1>3
    <2>3. /\ high \in Seq(Code) /\ Len(high) = IF n + 1 <= Len(s) THEN Len(s) - (n + 1) + 1 ELSE 0
          /\ \A i \in 1 .. Len(s) - (n + 1) + 1 : high[i] = s[n + 1 + i - 1]
      BY <2>1, <2>2, SubSeqProperties
    <2>4. Len(s) - (n + 1) + 1 = Len(s) - n /\ \A i \in Int : n + 1 + i - 1 = n + i
      BY <1>1, <1>3
    <2>5. \A i \in 1 .. Len(s) - n : high[i] = s[n + i]
      <3> SUFFICES ASSUME NEW i \in 1 .. Len(s) - n PROVE high[i] = s[n + i]
        OBVIOUS
      <3>1. high[i] = s[n + 1 + i - 1] /\ n + 1 + i - 1 = n + i
        BY <1>1, <1>3, <2>3, <2>4
      <3> QED
        BY <3>1
    <2>6. Len(high) = Len(s) - n
      <3>1. Len(high) = IF n + 1 <= Len(s) THEN Len(s) - (n + 1) + 1 ELSE 0
        BY <2>3
      <3>2. \A k \in Nat : \A a \in 0 .. k : (IF a + 1 <= k THEN k - (a + 1) + 1 ELSE 0) = k - a
        OBVIOUS
      <3> QED
        BY <1>1, <1>3, <3>1, <3>2, Zenon
    <2> QED
      BY <2>3, <2>5, <2>6
  <1> HIDE DEF low, high
  <1>9. SortIn(s, v) = low \o <<v>> \o high
    BY DEF SortIn, low, high, n, S
  <1>10. PICK m \in Seq(Code) : /\ m = low \o <<v>> /\ Len(m) = n + 1 /\ m[n + 1] = v
                                /\ \A i \in 1 .. n : m[i] = s[i]
    <2>1. <<v>> \in Seq(Code) /\ Len(<<v>>) = 1 /\ <<v>>[1] = v
      OBVIOUS
    <2>2. /\ low \o <<v>> \in Seq(Code) /\ Len(low \o <<v>>) = n + 1
          /\ \A i \in 1 .. n + 1 : (low \o <<v>>)[i] = IF i <= n THEN low[i] ELSE <<v>>[i - n]
      BY <1>7, <2>1, ConcatProperties
    <2>3. (low \o <<v>>)[n + 1] = v /\ \A i \in 1 .. n : (low \o <<v>>)[i] = s[i]
      BY <1>1, <1>3, <1>7, <2>1, <2>2
    <2> QED
      BY <2>2, <2>3
  <1>11. PICK r \in Seq(Code) : /\ r = m \o high /\ Len(r) = n + 1 + Len(high)
                                /\ \A i \in 1 .. n + 1 + Len(high) :
                                     r[i] = IF i <= n + 1 THEN m[i] ELSE high[i - (n + 1)]
    <2>1. /\ m \o high \in Seq(Code) /\ Len(m \o high) = Len(m) + Len(high)
          /\ \A i \in 1 .. Len(m) + Len(high) :
               (m \o high)[i] = IF i <= Len(m) THEN m[i] ELSE high[i - Len(m)]
      BY <1>8, ConcatProperties
    <2>2. \A k : k = Len(m) =>
            /\ Len(m \o high) = k + Len(high)
            /\ \A i \in 1 .. k + Len(high) : (m \o high)[i] = IF i <= k THEN m[i] ELSE high[i - k]
      BY <2>1, Zenon
    <2>3. /\ Len(m \o high) = n + 1 + Len(high)
          /\ \A i \in 1 .. n + 1 + Len(high) : (m \o high)[i] = IF i <= n + 1 THEN m[i] ELSE high[i - (n + 1)]
      BY <1>10, <2>2, Zenon
    <2> QED
      BY <2>1, <2>3, Zenon
  <1>12. Len(r) = Len(s) + 1
    BY <1>1, <1>3, <1>8, <1>10, <1>11
  <1>13. \A i \in 1 .. n + 1 : r[i] = m[i]
    BY <1>1, <1>3, <1>8, <1>10, <1>11
  <1>14. \A i \in n + 1 .. Len(s) : r[i + 1] = s[i]
    <2> SUFFICES ASSUME NEW i \in n + 1 .. Len(s) PROVE r[i + 1] = s[i]
      OBVIOUS
    <2>1. PICK j \in 1 .. Len(s) - n : j = i - n /\ (n + 1) + j = i + 1 /\ n + j = i
      BY <1>1, <1>3
    <2>2. r[i + 1] = high[j]
      BY <1>1, <1>3, <1>8, <1>11, <2>1
    <2> QED
      BY <1>8, <2>1, <2>2
  <1>15. r = SortIn(s, v)
    BY <1>9, <1>10, <1>11
  <1>16. \A i \in 1 .. n : r[i] = s[i] /\ s[i] <= v
    BY <1>1, <1>3, <1>5, <1>10, <1>13
  <1>17. r[n + 1] = v
    BY <1>1, <1>3, <1>10, <1>13
  <1>18. \A i \in n + 1 .. Len(s) : r[i + 1] = s[i] /\ v < s[i]
    BY <1>6, <1>14
  <1> QED
    BY <1>3, <1>12, <1>15, <1>16, <1>17, <1>18

LEMMA SortedStep ==
    ASSUME NEW s, Sorted(s), Len(s) < 8, NEW v \in Code
    PROVE  Sorted(SortIn(s, v))
  <1>1. PICK n \in 0 .. Len(s), r \in Seq(Code) :
           /\ r = SortIn(s, v) /\ Len(r) = Len(s) + 1
           /\ \A i \in 1 .. n : r[i] = s[i] /\ s[i] <= v
           /\ r[n + 1] = v
           /\ \A i \in n + 1 .. Len(s) : r[i + 1] = s[i] /\ v < s[i]
    BY PutIn
  <1>2. /\ Len(s) \in Nat /\ \A i \in 1 .. Len(s) : s[i] \in Nat
        /\ \A i, j \in 1 .. Len(s) : i <= j => s[i] <= s[j]
    <2>1. s \in Seq(Code) /\ Code \subseteq Nat
      BY Bit13Type DEF Sorted, Code
    <2> QED
      BY <2>1, ElementOfSeq, LenProperties DEF Sorted
  <1>3. v \in Nat
    BY Bit13Type DEF Code
  <1>4. \A i, j \in 1 .. Len(r) : i <= j => r[i] <= r[j]
    <2> SUFFICES ASSUME NEW i \in 1 .. Len(r), NEW j \in 1 .. Len(r), i <= j PROVE r[i] <= r[j]
      OBVIOUS
    <2>1. /\ i \in 1 .. n \/ i = n + 1 \/ (i - 1 \in n + 1 .. Len(s) /\ (i - 1) + 1 = i)
          /\ j \in 1 .. n \/ j = n + 1 \/ (j - 1 \in n + 1 .. Len(s) /\ (j - 1) + 1 = j)
      BY <1>1, <1>2
    <2>2. CASE i \in 1 .. n
      <3>1. r[i] = s[i] /\ s[i] <= v /\ i \in 1 .. Len(s)
        BY <1>1, <1>2, <2>2
      <3>2. CASE j \in 1 .. n
        BY <1>1, <1>2, <3>1, <3>2
      <3>3. CASE j = n + 1
        BY <1>1, <3>1, <3>3
      <3>4. CASE j - 1 \in n + 1 .. Len(s) /\ (j - 1) + 1 = j
        <4>1. r[j] = s[j - 1] /\ v < s[j - 1] /\ j - 1 \in 1 .. Len(s)
          BY <1>1, <1>2, <3>4
        <4> QED
          BY <1>2, <1>3, <3>1, <4>1
      <3> QED
        BY <2>1, <3>2, <3>3, <3>4
    <2>3. CASE i = n + 1
      <3>1. CASE j = n + 1
        BY <1>1, <1>3, <2>3, <3>1
      <3>2. CASE j - 1 \in n + 1 .. Len(s) /\ (j - 1) + 1 = j
        <4>1. r[j] = s[j - 1] /\ v < s[j - 1] /\ j - 1 \in 1 .. Len(s)
          BY <1>1, <1>2, <3>2
        <4> QED
          BY <1>1, <1>2, <1>3, <2>3, <4>1
      <3> QED
        BY <1>2, <2>1, <2>3, <3>1, <3>2
    <2>4. CASE i - 1 \in n + 1 .. Len(s) /\ (i - 1) + 1 = i
      <3>1. j - 1 \in n + 1 .. Len(s) /\ (j - 1) + 1 = j /\ i - 1 <= j - 1
        BY <1>1, <1>2, <2>4
      <3>2. \A a \in n + 1 .. Len(s) : r[a + 1] = s[a] /\ a \in 1 .. Len(s)
        BY <1>1, <1>2
      <3>3. r[i] = s[i - 1] /\ i - 1 \in 1 .. Len(s)
        BY <2>4, <3>2
      <3>4. r[j] = s[j - 1] /\ j - 1 \in 1 .. Len(s)
        BY <3>1, <3>2
      <3> QED
        BY <1>2, <3>1, <3>3, <3>4
    <2> QED
      BY <2>1, <2>2, <2>3, <2>4
  <1>5. Len(r) <= 8
    BY <1>1, <1>2
  <1> QED
    BY <1>1, <1>4, <1>5 DEF Sorted

LEMMA MatchedFinite ==
    ASSUME NEW s, Sorted(s), NEW taken, Matched(s, taken)
    PROVE  IsFiniteSet(taken)
  <1>1. Len(s) \in Int
    BY LenProperties DEF Sorted
  <1>2. IsFiniteSet(1 .. Len(s)) /\ ExistsBijection(1 .. Len(s), taken)
    BY <1>1, FS_Interval DEF Matched, ExistsBijection
  <1> QED
    BY <1>2, FS_Bijection

\* The number a value taken gets is one no equal value has.
LEMMA MatchedStep ==
    ASSUME NEW s, Sorted(s), Len(s) < 8, NEW taken, Matched(s, taken), NEW v \in Code
    PROVE  Matched(SortIn(s, v), OneMore(taken, v))
  <1> DEFINE Same(S, b) == {y \in S : y[1] = b}
             c == Cardinality(Same(taken, v))
             w == <<v, c>>
             after == taken \cup {w}
  <1>1. IsFiniteSet(taken) /\ after = OneMore(taken, v) /\ taken \subseteq Code \X Nat
    BY MatchedFinite DEF OneMore, Matched
  <1>2. \A b : IsFiniteSet(Same(taken, b))
    <2> SUFFICES ASSUME NEW b PROVE IsFiniteSet(Same(taken, b))
      OBVIOUS
    <2>1. Same(taken, b) \in SUBSET taken
      OBVIOUS
    <2> QED
      BY <1>1, <2>1, FS_Subset
  <1>3. c \in Nat
    BY <1>2, FS_CardinalityType
  <1>4. w \notin taken
    <2>1. ASSUME w \in taken PROVE FALSE
      <3>1. w[2] < Cardinality({y \in taken : y[1] = w[1]})
        BY <2>1, Zenon DEF Matched
      <3>2. w[1] = v /\ w[2] = c
        OBVIOUS
      <3>3. c < c
        BY <3>1, <3>2, Zenon
      <3> QED
        BY <1>3, <3>3
    <2> QED
      BY <2>1
  <1>5. after \subseteq Code \X Nat
    BY <1>1, <1>3
  <1>6. \A x \in after : x[2] < Cardinality(Same(after, x[1]))
    <2> SUFFICES ASSUME NEW x \in after PROVE x[2] < Cardinality(Same(after, x[1]))
      OBVIOUS
    <2>1. CASE x[1] = v
      <3>1. Same(after, v) = Same(taken, v) \cup {w} /\ w \notin Same(taken, v)
        BY <1>4
      <3>2. Cardinality(Same(after, v)) = c + 1
        <4> HIDE DEF w, after, Same
        <4> QED
          BY <1>2, <3>1, FS_AddElement DEF c
      <3>3. x[2] <= c
        <4>1. CASE x = w
          BY <1>3, <4>1
        <4>2. CASE x \in taken
          <5>1. x[2] < Cardinality({y \in taken : y[1] = x[1]}) /\ x[2] \in Nat
            BY <1>1, <4>2 DEF Matched
          <5>2. x[2] < c
            BY <2>1, <5>1
          <5> QED
            BY <1>3, <5>1, <5>2
        <4> QED
          BY <4>1, <4>2
      <3>4. x[2] \in Nat
        BY <1>5
      <3> HIDE DEF c, Same, after
      <3> QED
        BY <1>3, <2>1, <3>2, <3>3, <3>4
    <2>2. CASE x[1] # v
      <3>1. x \in taken
        BY <2>2
      <3>2. Same(after, x[1]) = {y \in taken : y[1] = x[1]}
        BY <2>2
      <3> QED
        BY <3>1, <3>2 DEF Matched
    <2> QED
      BY <2>1, <2>2
  <1>7. PICK n \in 0 .. Len(s), r \in Seq(Code) :
           /\ r = SortIn(s, v) /\ Len(r) = Len(s) + 1
           /\ \A i \in 1 .. n : r[i] = s[i] /\ s[i] <= v
           /\ r[n + 1] = v
           /\ \A i \in n + 1 .. Len(s) : r[i + 1] = s[i] /\ v < s[i]
    BY PutIn
  <1>8. PICK f \in Bijection(1 .. Len(s), taken) : \A i \in 1 .. Len(s) : f[i][1] = s[i]
    BY DEF Matched
  <1>9. /\ f \in [1 .. Len(s) -> taken] /\ \A i, j \in 1 .. Len(s) : f[i] = f[j] => i = j
        /\ \A x \in taken : \E i \in 1 .. Len(s) : f[i] = x
    BY <1>8 DEF Bijection, Injection, Surjection, IsInjective
  <1>10. Len(s) \in Nat
    BY LenProperties DEF Sorted
  <1> DEFINE g == [i \in 1 .. Len(r) |-> IF i <= n THEN f[i] ELSE IF i = n + 1 THEN w ELSE f[i - 1]]
  <1>11. \A i \in 1 .. Len(r) :
           /\ i <= n => i \in 1 .. Len(s) /\ g[i] = f[i]
           /\ i = n + 1 => g[i] = w
           /\ i > n + 1 => i - 1 \in 1 .. Len(s) /\ g[i] = f[i - 1]
    BY <1>7, <1>10
  <1> HIDE DEF w, c
  <1>12. g \in [1 .. Len(r) -> after]
    <2>1. ASSUME NEW i \in 1 .. Len(r) PROVE g[i] \in after
      <3>1. i \in Int /\ n \in Int /\ (i <= n \/ i = n + 1 \/ i > n + 1)
        BY <1>7, <1>10
      <3>2. g[i] = w \/ \E k \in 1 .. Len(s) : g[i] = f[k]
        BY <1>11, <3>1
      <3> QED
        BY <1>9, <3>2
    <2> QED
      BY <2>1 DEF g
  <1> HIDE DEF g, after
  <1>13. \A i, j \in 1 .. Len(r) : g[i] = g[j] => i = j
    <2> SUFFICES ASSUME NEW i \in 1 .. Len(r), NEW j \in 1 .. Len(r), g[i] = g[j] PROVE i = j
      OBVIOUS
    <2>1. i \in Int /\ j \in Int /\ n \in Int
      BY <1>7, <1>10
    <2>2. CASE i = n + 1 \/ j = n + 1
      <3>1. \A k \in 1 .. Len(s) : f[k] # w
        BY <1>4, <1>9
      <3>2. \A k \in 1 .. Len(r) : k \in Int /\ (k # n + 1 => \E l \in 1 .. Len(s) : g[k] = f[l])
        BY <1>7, <1>10, <1>11
      <3> QED
        BY <1>11, <2>2, <3>1, <3>2
    <2>3. CASE i # n + 1 /\ j # n + 1
      BY <1>9, <1>11, <2>1, <2>3
    <2> QED
      BY <2>2, <2>3
  <1>14. \A x \in after : \E i \in 1 .. Len(r) : g[i] = x
    <2> SUFFICES ASSUME NEW x \in after PROVE \E i \in 1 .. Len(r) : g[i] = x
      OBVIOUS
    <2>1. CASE x = w
      BY <1>7, <1>10, <1>11, <2>1
    <2>2. CASE x \in taken
      <3>1. PICK k \in 1 .. Len(s) : f[k] = x
        BY <1>9, <2>2
      <3>2. CASE k <= n
        BY <1>7, <1>10, <1>11, <3>1, <3>2
      <3>3. CASE k > n
        <4>1. k + 1 \in 1 .. Len(r) /\ k + 1 > n + 1 /\ (k + 1) - 1 = k
          BY <1>7, <1>10, <3>3
        <4> QED
          BY <1>11, <3>1, <4>1
      <3> QED
        BY <1>7, <1>10, <3>2, <3>3
    <2> QED
      BY <2>1, <2>2 DEF after
  <1>15. g \in Bijection(1 .. Len(r), after)
    BY <1>12, <1>13, <1>14 DEF Bijection, Injection, Surjection, IsInjective
  <1>16. \A i \in 1 .. Len(r) : g[i][1] = r[i]
    <2> SUFFICES ASSUME NEW i \in 1 .. Len(r) PROVE g[i][1] = r[i]
      OBVIOUS
    <2>1. CASE i <= n
      BY <1>7, <1>8, <1>10, <1>11, <2>1
    <2>2. CASE i = n + 1
      BY <1>7, <1>11, <2>2 DEF w
    <2>3. CASE i > n + 1
      <3>1. i - 1 \in n + 1 .. Len(s) /\ (i - 1) + 1 = i /\ i - 1 \in 1 .. Len(s)
        BY <1>7, <1>10, <2>3
      <3>2. r[i] = s[i - 1] /\ f[i - 1][1] = s[i - 1]
        BY <1>7, <1>8, <3>1
      <3> QED
        BY <1>11, <2>3, <3>2
    <2> QED
      BY <1>7, <1>10, <2>1, <2>2, <2>3
  <1> QED
    BY <1>1, <1>5, <1>6, <1>7, <1>15, <1>16 DEF Matched

LEMMA MeasuredStep ==
    ASSUME NEW taken, IsFiniteSet(taken), NEW true, NEW torn, Measured(taken, true, torn),
           NEW first \in AdcCodes, NEW second \in AdcCodes
    PROVE  Measured(OneMore(taken, TakenFrom(first, second)),
                    true \cup {Magnitude(first), Magnitude(second)},
                    torn + (IF first = second THEN 0 ELSE 1))
  <1> DEFINE v == TakenFrom(first, second)
             w == <<v, Cardinality({x \in taken : x[1] = v})>>
             now == true \cup {Magnitude(first), Magnitude(second)}
  <1>1. PICK t \in SUBSET taken : Cardinality(t) <= torn /\ \A x \in taken \ t : x[1] \in true
    BY DEF Measured
  <1>2. torn \in Nat /\ IsFiniteSet(t) /\ Cardinality(t) \in Nat
    BY FS_Subset, FS_CardinalityType DEF Measured
  <1>3. now \subseteq Nat
    BY TakenType DEF Measured
  <1>4. CASE first = second
    <2>1. w[1] \in now
      BY <1>4, TakenType
    <2>2. t \in SUBSET (taken \cup {w}) /\ Cardinality(t) <= torn + 0 /\ torn + 0 \in Nat
      BY <1>1, <1>2
    <2>3. \A x \in (taken \cup {w}) \ t : x[1] \in now
      BY <1>1, <2>1
    <2> QED
      BY <1>3, <1>4, <2>2, <2>3 DEF Measured, OneMore
  <1>5. CASE first # second
    <2> HIDE DEF w
    <2>1. Cardinality(t \cup {w}) <= torn + 1 /\ torn + 1 \in Nat
      <3>1. Cardinality(t \cup {w}) = IF w \in t THEN Cardinality(t) ELSE Cardinality(t) + 1
        BY <1>2, FS_AddElement
      <3> QED
        BY <1>1, <1>2, <3>1
    <2>2. t \cup {w} \in SUBSET (taken \cup {w})
      OBVIOUS
    <2>3. \A x \in (taken \cup {w}) \ (t \cup {w}) : x[1] \in now
      BY <1>1
    <2> QED
      BY <1>3, <1>5, <2>1, <2>2, <2>3 DEF Measured, OneMore, w
  <1> QED
    BY <1>4, <1>5

LEMMA Preimage ==
    ASSUME NEW n \in Nat, NEW S, NEW f \in Bijection(1 .. n, S), NEW X \in SUBSET S
    PROVE  /\ IsFiniteSet({i \in 1 .. n : f[i] \in X}) /\ IsFiniteSet(X)
           /\ Cardinality({i \in 1 .. n : f[i] \in X}) = Cardinality(X)
  <1> DEFINE A == {i \in 1 .. n : f[i] \in X}
             g == [i \in A |-> f[i]]
  <1>1. /\ f \in [1 .. n -> S] /\ \A i, j \in 1 .. n : f[i] = f[j] => i = j
        /\ \A x \in S : \E i \in 1 .. n : f[i] = x
    BY DEF Bijection, Injection, Surjection, IsInjective
  <1>2. g \in [A -> X] /\ \A i, j \in A : g[i] = g[j] => i = j
    BY <1>1
  <1>3. \A x \in X : \E i \in A : g[i] = x
    BY <1>1
  <1>4. g \in Bijection(A, X)
    BY <1>2, <1>3 DEF Bijection, Injection, Surjection, IsInjective
  <1>5. IsFiniteSet(1 .. n) /\ A \in SUBSET (1 .. n)
    BY FS_Interval
  <1>6. IsFiniteSet(A)
    BY <1>5, FS_Subset
  <1>7. ExistsBijection(A, X)
    BY <1>4 DEF ExistsBijection
  <1> HIDE DEF A
  <1>8. IsFiniteSet(X) /\ Cardinality(X) = Cardinality(A)
    BY <1>6, <1>7, FS_Bijection
  <1> QED
    BY <1>6, <1>8 DEF A

\* How many of the values taken are below, or up to, the k-th sorted.
LEMMA NthCounts ==
    ASSUME NEW s, Sorted(s), NEW taken, Matched(s, taken), NEW k \in 1 .. Len(s)
    PROVE  /\ Cardinality({x \in taken : x[1] < s[k]}) < k
           /\ Cardinality({x \in taken : x[1] <= s[k]}) >= k
           /\ s[k] \in {x[1] : x \in taken}
  <1>1. /\ Len(s) \in Nat /\ k \in Nat /\ \A i \in 1 .. Len(s) : s[i] \in Nat
        /\ \A i, j \in 1 .. Len(s) : i <= j => s[i] <= s[j]
    <2>1. s \in Seq(Code) /\ Code \subseteq Nat
      BY Bit13Type DEF Sorted, Code
    <2>2. Len(s) \in Nat
      BY <2>1, LenProperties
    <2>3. \A i \in 1 .. Len(s) : s[i] \in Nat
      BY <2>1, ElementOfSeq
    <2> QED
      BY <2>2, <2>3 DEF Sorted
  <1>2. PICK f \in Bijection(1 .. Len(s), taken) : \A i \in 1 .. Len(s) : f[i][1] = s[i]
    BY DEF Matched
  <1>3. f \in [1 .. Len(s) -> taken]
    BY DEF Bijection, Injection
  <1> DEFINE Below == {x \in taken : x[1] < s[k]}
             UpTo == {x \in taken : x[1] <= s[k]}
  <1>4. Cardinality(Below) < k
    <2>1. /\ IsFiniteSet({i \in 1 .. Len(s) : f[i] \in Below})
          /\ Cardinality({i \in 1 .. Len(s) : f[i] \in Below}) = Cardinality(Below)
      <3>1. Below \in SUBSET taken
        OBVIOUS
      <3> HIDE DEF Below
      <3>2. Len(s) \in Nat
        BY <1>1
      <3> QED
        BY <1>2, <3>1, <3>2, Preimage
    <2>2. {i \in 1 .. Len(s) : f[i] \in Below} \in SUBSET (1 .. k - 1)
      <3> SUFFICES ASSUME NEW i \in 1 .. Len(s), f[i] \in Below PROVE i \in 1 .. k - 1
        OBVIOUS
      <3>1. s[i] < s[k] /\ s[i] \in Nat /\ s[k] \in Nat
        BY <1>1, <1>2
      <3>2. ~(k <= i)
        BY <1>1, <3>1
      <3> QED
        BY <1>1, <3>2
    <2>3. IsFiniteSet(1 .. k - 1) /\ Cardinality(1 .. k - 1) = k - 1
      <3>1. PICK m \in Int : m = k - 1 /\ m >= 0
        BY <1>1
      <3>2. IsFiniteSet(1 .. m) /\ Cardinality(1 .. m) = IF 1 > m THEN 0 ELSE m - 1 + 1
        BY FS_Interval
      <3>3. (IF 1 > m THEN 0 ELSE m - 1 + 1) = m
        BY <3>1
      <3> QED
        BY <3>1, <3>2, <3>3
    <2>4. Cardinality({i \in 1 .. Len(s) : f[i] \in Below}) <= k - 1
      BY <2>2, <2>3, FS_Subset
    <2>5. Cardinality({i \in 1 .. Len(s) : f[i] \in Below}) \in Nat
      BY <2>1, FS_CardinalityType
    <2> HIDE DEF Below
    <2> QED
      BY <1>1, <2>1, <2>4, <2>5
  <1>5. Cardinality(UpTo) >= k
    <2>1. /\ IsFiniteSet({i \in 1 .. Len(s) : f[i] \in UpTo})
          /\ Cardinality({i \in 1 .. Len(s) : f[i] \in UpTo}) = Cardinality(UpTo)
      <3>1. UpTo \in SUBSET taken
        OBVIOUS
      <3> HIDE DEF UpTo
      <3>2. Len(s) \in Nat
        BY <1>1
      <3> QED
        BY <1>2, <3>1, <3>2, Preimage
    <2>2. 1 .. k \in SUBSET {i \in 1 .. Len(s) : f[i] \in UpTo}
      <3> SUFFICES ASSUME NEW i \in 1 .. k PROVE i \in 1 .. Len(s) /\ f[i] \in UpTo
        OBVIOUS
      <3>1. i \in 1 .. Len(s) /\ i <= k
        BY <1>1
      <3> QED
        BY <1>1, <1>2, <1>3, <3>1
    <2>3. Cardinality(1 .. k) = k
      BY <1>1, FS_Interval
    <2>4. k <= Cardinality({i \in 1 .. Len(s) : f[i] \in UpTo})
      BY <2>1, <2>2, <2>3, FS_Subset
    <2>5. Cardinality({i \in 1 .. Len(s) : f[i] \in UpTo}) \in Nat
      BY <2>1, FS_CardinalityType
    <2> HIDE DEF UpTo
    <2> QED
      BY <1>1, <2>1, <2>4, <2>5
  <1>6. s[k] \in {x[1] : x \in taken}
    BY <1>2, <1>3
  <1> QED
    BY <1>4, <1>5, <1>6

LEMMA NthIs ==
    ASSUME NEW s, Sorted(s), NEW taken, Matched(s, taken), NEW k \in 1 .. Len(s)
    PROVE  s[k] = CHOOSE v \in {x[1] : x \in taken} :
                    /\ Cardinality({x \in taken : x[1] < v}) < k
                    /\ Cardinality({x \in taken : x[1] <= v}) >= k
  <1> DEFINE Is(v) == /\ Cardinality({x \in taken : x[1] < v}) < k
                      /\ Cardinality({x \in taken : x[1] <= v}) >= k
             V == {x[1] : x \in taken}
  <1>1. s[k] \in V /\ Is(s[k])
    BY NthCounts
  <1>2. IsFiniteSet(taken) /\ V \subseteq Nat /\ k \in Nat /\ \A x \in taken : x[1] \in Nat
    <2>1. taken \subseteq Code \X Nat /\ Code \subseteq Nat
      BY Bit13Type DEF Matched, Code
    <2>2. \A x \in taken : x[1] \in Nat
      BY <2>1
    <2>3. Len(s) \in Nat
      BY LenProperties DEF Sorted
    <2> QED
      BY <2>2, <2>3, MatchedFinite
  <1>3. ASSUME NEW v \in Nat, NEW u \in Nat, Is(v), Is(u), v < u PROVE FALSE
    <2>1. {x \in taken : x[1] <= v} \in SUBSET {x \in taken : x[1] < u}
      BY <1>2, <1>3
    <2>2. {x \in taken : x[1] < u} \in SUBSET taken /\ {x \in taken : x[1] <= v} \in SUBSET taken
      OBVIOUS
    <2>3. IsFiniteSet({x \in taken : x[1] < u}) /\ IsFiniteSet({x \in taken : x[1] <= v})
      BY <1>2, <2>2, FS_Subset
    <2>4. Cardinality({x \in taken : x[1] <= v}) <= Cardinality({x \in taken : x[1] < u})
      BY <2>1, <2>3, FS_Subset
    <2>5. PICK a \in Nat, b \in Nat : /\ a = Cardinality({x \in taken : x[1] <= v})
                                      /\ b = Cardinality({x \in taken : x[1] < u})
      BY <2>3, FS_CardinalityType
    <2>6. a <= b /\ b < k /\ a >= k
      BY <1>3, <2>4, <2>5
    <2> QED
      BY <1>2, <2>6
  <1> HIDE DEF Is, V
  <1>4. \A v \in V : Is(v) => v = s[k]
    <2> SUFFICES ASSUME NEW v \in V, Is(v) PROVE v = s[k]
      OBVIOUS
    <2>1. v \in Nat /\ s[k] \in Nat
      BY <1>1, <1>2
    <2>2. ~(v < s[k]) /\ ~(s[k] < v)
      BY <1>1, <1>3, <2>1
    <2> QED
      BY <2>1, <2>2
  <1>5. s[k] = CHOOSE v \in V : Is(v)
    BY <1>1, <1>4
  <1> QED
    BY <1>5 DEF Is, V

LEMMA ThreeElements ==
    ASSUME NEW x, NEW y, NEW z, x # y, x # z, y # z
    PROVE  Cardinality({x, y, z}) = 3
  <1>1. IsFiniteSet({x}) /\ Cardinality({x}) = 1
    BY FS_Singleton
  <1>2. IsFiniteSet({x} \cup {y}) /\ Cardinality({x} \cup {y}) = 2
    <2>1. y \notin {x}
      OBVIOUS
    <2> QED
      BY <1>1, <2>1, FS_AddElement
  <1>3. Cardinality(({x} \cup {y}) \cup {z}) = 3
    <2>1. z \notin {x} \cup {y}
      OBVIOUS
    <2> QED
      BY <1>2, <2>1, FS_AddElement
  <1>4. ({x} \cup {y}) \cup {z} = {x, y, z}
    OBVIOUS
  <1> QED
    BY <1>3, <1>4

\* Two of the values may be torn: three on either side are more than that.
LEMMA MiddleMeasured ==
    ASSUME NEW s, NEW taken, NEW true, NEW torn, Sampled(s, taken, true, torn), Len(s) = 8, torn <= 2,
           NEW a \in 1 .. 6
    PROVE  \E j \in a .. a + 2 : s[j] \in true
  <1>1. PICK t \in SUBSET taken : Cardinality(t) <= torn /\ \A x \in taken \ t : x[1] \in true
    BY DEF Sampled, Measured
  <1>2. PICK f \in Bijection(1 .. Len(s), taken) : \A i \in 1 .. Len(s) : f[i][1] = s[i]
    BY DEF Sampled, Matched
  <1>3. f \in [1 .. 8 -> taken] /\ \A i, j \in 1 .. 8 : f[i] = f[j] => i = j
    BY DEF Bijection, Injection, IsInjective, Sampled
  <1>4. IsFiniteSet(t) /\ Cardinality(t) \in Nat /\ torn \in Nat
    <2>1. IsFiniteSet(taken)
      BY MatchedFinite DEF Sampled
    <2> QED
      BY <2>1, FS_Subset, FS_CardinalityType DEF Sampled, Measured
  <1>5. a \in 1 .. 8 /\ a + 1 \in 1 .. 8 /\ a + 2 \in 1 .. 8 /\ a # a + 1 /\ a # a + 2 /\ a + 1 # a + 2
    OBVIOUS
  <1>6. f[a] # f[a + 1] /\ f[a] # f[a + 2] /\ f[a + 1] # f[a + 2]
    BY <1>3, <1>5
  <1>7. Cardinality({f[a], f[a + 1], f[a + 2]}) = 3
    <2> DEFINE x == f[a]
               y == f[a + 1]
               z == f[a + 2]
    <2>1. x # y /\ x # z /\ y # z
      BY <1>6
    <2> HIDE DEF x, y, z
    <2>2. Cardinality({x, y, z}) = 3
      BY <2>1, ThreeElements, Zenon
    <2> QED
      BY <2>2 DEF x, y, z
  <1>8. ~({f[a], f[a + 1], f[a + 2]} \subseteq t)
    <2>1. ASSUME {f[a], f[a + 1], f[a + 2]} \in SUBSET t PROVE FALSE
      <3>1. Cardinality({f[a], f[a + 1], f[a + 2]}) <= Cardinality(t)
        BY <1>4, <2>1, FS_Subset
      <3>2. 3 <= Cardinality(t) /\ Cardinality(t) <= torn /\ torn <= 2
        BY <1>1, <1>7, <3>1
      <3> QED
        BY <1>4, <3>2
    <2> QED
      BY <2>1
  <1>9. PICK j \in {a, a + 1, a + 2} : f[j] \notin t
    BY <1>8
  <1>10. j \in 1 .. 8 /\ j \in a .. a + 2
    BY <1>5, <1>9
  <1>11. f[j][1] \in true /\ f[j][1] = s[j]
    BY <1>1, <1>2, <1>3, <1>9, <1>10
  <1> QED
    BY <1>10, <1>11

LEMMA SampledMiddle ==
    ASSUME NEW s, NEW taken, NEW true, NEW torn, Sampled(s, taken, true, torn), Len(s) = 8, torn <= 2
    PROVE  LET Nth(k) == CHOOSE v \in {x[1] : x \in taken} :
                           /\ Cardinality({x \in taken : x[1] < v}) < k
                           /\ Cardinality({x \in taken : x[1] <= v}) >= k
           IN  /\ Average(s) = (Nth(3) + Nth(4) + Nth(5) + Nth(6)) \div 4
               /\ \E lo, hi \in true : lo <= Average(s) /\ Average(s) <= hi
  <1> DEFINE Nth(k) == CHOOSE v \in {x[1] : x \in taken} :
                         /\ Cardinality({x \in taken : x[1] < v}) < k
                         /\ Cardinality({x \in taken : x[1] <= v}) >= k
  <1>1. \A k \in 1 .. 8 : Nth(k) = s[k]
    <2> SUFFICES ASSUME NEW k \in 1 .. 8 PROVE Nth(k) = s[k]
      OBVIOUS
    <2>1. k \in 1 .. Len(s)
      OBVIOUS
    <2> QED
      BY <2>1, NthIs DEF Sampled
  <1> HIDE DEF Nth
  <1>2. Nth(3) = s[3] /\ Nth(4) = s[4] /\ Nth(5) = s[5] /\ Nth(6) = s[6]
    BY <1>1
  <1>3. \A i \in 1 .. 8 : s[i] \in Nat
    <2>1. s \in Seq(Code) /\ Code \subseteq Nat
      BY Bit13Type DEF Sampled, Sorted, Code
    <2> QED
      BY <2>1, ElementOfSeq
  <1>4. \A i, j \in 1 .. 8 : i <= j => s[i] <= s[j]
    BY DEF Sampled, Sorted
  <1>5. PICK i \in 1 .. 3 : s[i] \in true
    <2>1. \E j \in 1 .. 1 + 2 : s[j] \in true
      BY MiddleMeasured
    <2> QED
      BY <2>1
  <1>6. PICK j \in 6 .. 8 : s[j] \in true
    <2>1. \E k \in 6 .. 6 + 2 : s[k] \in true
      BY MiddleMeasured
    <2> QED
      BY <2>1
  <1>7. s[i] <= s[3] /\ s[3] <= s[4] /\ s[4] <= s[5] /\ s[5] <= s[6] /\ s[6] <= s[j]
    BY <1>4
  <1>8. s[i] <= Average(s) /\ Average(s) <= s[j]
    <2>1. \A a, b, c, d, e, f \in Nat : a <= b /\ b <= c /\ c <= d /\ d <= e /\ e <= f =>
            a <= (b + c + d + e) \div 4 /\ (b + c + d + e) \div 4 <= f
      OBVIOUS
    <2>2. s[i] \in Nat /\ s[3] \in Nat /\ s[4] \in Nat /\ s[5] \in Nat /\ s[6] \in Nat /\ s[j] \in Nat
      BY <1>3
    <2> QED
      BY <1>7, <2>1, <2>2 DEF Average
  <1>9. Average(s) = (Nth(3) + Nth(4) + Nth(5) + Nth(6)) \div 4
    BY <1>2 DEF Average
  <1> QED
    BY <1>5, <1>6, <1>8, <1>9 DEF Nth

----------------------------------------------------------------------------

LEMMA AdcInitInv == ASSUME AdcInit PROVE AdcInv
  BY AdcAssumption DEF AdcInit, AdcInv, MiddleAverage

\* A new sampling starts with nothing taken.
LEMMA NothingSampled == Sampled(<<>>, {}, {}, 0)
  <1>1. Sorted(<<>>)
    BY DEF Sorted
  <1>2. Matched(<<>>, {})
    <2>1. <<>> \in Bijection(1 .. 0, {})
      BY DEF Bijection, Injection, Surjection, IsInjective
    <2> QED
      BY <2>1 DEF Matched
  <1>3. Measured({}, {}, 0)
    BY FS_EmptySet DEF Measured
  <1> QED
    BY <1>1, <1>2, <1>3 DEF Sampled

LEMMA TakeSampleInv == ASSUME AdcInv, TakeSample PROVE AdcInv'
  <1> DEFINE Go(old, new) == IF adc_sample = <<>> THEN new ELSE old
  <1>1. PICK first \in AdcCodes, second \in AdcCodes :
           /\ adc_torn' = Go(adc_torn, 0) + (IF first = second THEN 0 ELSE 1)
           /\ adc_torn' <= TornReads
           /\ adc_taken' = OneMore(Go(adc_taken, {}), TakenFrom(first, second))
           /\ adc_true' = Go(adc_true, {}) \cup {Magnitude(first), Magnitude(second)}
           /\ adc_sample' = SortIn(adc_sample, TakenFrom(first, second))
    BY DEF TakeSample
  <1>2. PICK taken, true, torn : /\ taken = Go(adc_taken, {}) /\ true = Go(adc_true, {})
                                 /\ torn = Go(adc_torn, 0)
    OBVIOUS
  <1>3. Sampled(adc_sample, taken, true, torn) /\ Len(adc_sample) < 8
    BY <1>2, NothingSampled DEF AdcInv, TakeSample, ADC_SAMPLE_NUM
  <1>4. Sampled(adc_sample', adc_taken', adc_true', adc_torn')
    <2>1. TakenFrom(first, second) \in Code
      BY TakenType
    <2>2. Sorted(adc_sample')
      BY <1>1, <1>3, <2>1, SortedStep DEF Sampled
    <2>3. Matched(adc_sample', adc_taken')
      BY <1>1, <1>2, <1>3, <2>1, MatchedStep DEF Sampled
    <2>4. IsFiniteSet(taken)
      BY <1>3, MatchedFinite DEF Sampled
    <2>5. Measured(adc_taken', adc_true', adc_torn')
      BY <1>1, <1>2, <1>3, <2>4, MeasuredStep DEF Sampled
    <2> QED
      BY <2>2, <2>3, <2>5 DEF Sampled
  <1>5. adc_sample' # <<>>
    <2>1. PICK n \in 0 .. Len(adc_sample), r \in Seq(Code) :
            r = SortIn(adc_sample, TakenFrom(first, second)) /\ Len(r) = Len(adc_sample) + 1
      BY <1>3, TakenType, PutIn DEF Sampled
    <2>2. Len(adc_sample) \in Nat
      BY <1>3, LenProperties DEF Sampled, Sorted
    <2> QED
      BY <1>1, <2>1, <2>2
  <1> QED
    BY <1>1, <1>4, <1>5 DEF AdcInv, MiddleAverage

LEMMA AdcResultInv == ASSUME AdcInv, AdcResult PROVE AdcInv'
  <1>1. /\ Len(adc_sample) = 8 /\ adc_code' = Average(adc_sample) /\ adc_sample' = <<>>
        /\ adc_taken' = adc_taken /\ adc_true' = adc_true /\ adc_torn' = adc_torn
    BY DEF AdcResult, ADC_SAMPLE_NUM
  <1>2. Sampled(adc_sample, adc_taken, adc_true, adc_torn) /\ adc_torn <= 2
    <2>1. adc_sample # <<>>
      BY <1>1
    <2>2. Sampled(adc_sample, adc_taken, adc_true, adc_torn)
      BY <2>1 DEF AdcInv
    <2>3. adc_torn \in Nat
      BY <2>2 DEF Sampled, Measured
    <2> QED
      BY <2>2, <2>3, AdcAssumption DEF AdcInv
  <1>3. MiddleAverage'
    <2> DEFINE Nth(k) == CHOOSE v \in {x[1] : x \in adc_taken} :
                           /\ Cardinality({x \in adc_taken : x[1] < v}) < k
                           /\ Cardinality({x \in adc_taken : x[1] <= v}) >= k
    <2>1. /\ Average(adc_sample) = (Nth(3) + Nth(4) + Nth(5) + Nth(6)) \div 4
          /\ \E lo, hi \in adc_true : lo <= Average(adc_sample) /\ Average(adc_sample) <= hi
      BY <1>1, <1>2, SampledMiddle
    <2> QED
      BY <1>1, <2>1 DEF MiddleAverage
  <1> QED
    BY <1>1, <1>3 DEF AdcInv

LEMMA AdcNextInv == ASSUME AdcInv, AdcNext \/ UNCHANGED adcVars PROVE AdcInv'
  <1>1. CASE UNCHANGED adcVars
    BY <1>1 DEF adcVars, AdcInv, MiddleAverage
  <1> QED
    BY <1>1, TakeSampleInv, AdcResultInv DEF AdcNext

\* Whatever the ADC measures, the result is the average of the third to the
\* sixth of the eight values taken, and two torn ones do not move it out of the
\* range of what was measured.
THEOREM AverageCorrect == DriversSpec => []MiddleAverage
  <1>1. DriversInit => AdcInv
    BY AdcInitInv DEF DriversInit
  <1>2. ASSUME [DriversNext]_driversVars PROVE AdcNext \/ UNCHANGED adcVars
    BY <1>2 DEF DriversNext, driversVars
  <1>3. AdcInv /\ [DriversNext]_driversVars => AdcInv'
    BY <1>2, AdcNextInv
  <1>4. AdcInv => MiddleAverage
    BY DEF AdcInv
  <1> QED
    BY <1>1, <1>3, <1>4, PTL DEF DriversSpec

----------------------------------------------------------------------------
(* The key scan: the scanner stores the keys that are down, each once, and  *)
(* decoding gives each its number back.                                     *)

ScanPins == 0 .. 31 \ {NoPin}

LEMMA MatrixType ==
    ASSUME NEW m \in KsMatrices
    PROVE  /\ m.row \in Seq(ScanPins) /\ m.col \in Seq(ScanPins)
           /\ Len(m.row) \in 0 .. 8 /\ Len(m.col) \in Nat
           /\ \A i \in 1 .. Len(m.row) : m.row[i] \in ScanPins
           /\ \A i \in 1 .. Len(m.col) : m.col[i] \in ScanPins
  <1>1. m \in [row : Seq(ScanPins), col : Seq(ScanPins)] /\ Len(m.row) <= 8
    BY KsAssumption DEF ScanPins
  <1>2. m.row \in Seq(ScanPins) /\ m.col \in Seq(ScanPins)
    BY <1>1
  <1>3. Len(m.row) \in Nat /\ Len(m.col) \in Nat
    BY <1>2, LenProperties
  <1>4. /\ \A i \in 1 .. Len(m.row) : m.row[i] \in ScanPins
        /\ \A i \in 1 .. Len(m.col) : m.col[i] \in ScanPins
    BY <1>2, ElementOfSeq
  <1>5. Len(m.row) <= 8
    BY <1>1, Zenon
  <1>6. Len(m.row) \in 0 .. 8
    <2>1. \A n \in Nat : n <= 8 => n \in 0 .. 8
      OBVIOUS
    <2> QED
      BY <1>3, <1>5, <2>1, Zenon
  <1> QED
    BY <1>2, <1>3, <1>4, <1>6

LEMMA JoinedDiffer ==
    ASSUME NEW S, NEW s \in Seq(S), NEW t \in Seq(S), NEW a \in Nat, NEW b \in Nat,
           a = Len(s), b = Len(t), IsInjective(s \o t)
    PROVE  /\ \A i, j \in 1 .. a : s[i] = s[j] => i = j
           /\ \A i, j \in 1 .. b : t[i] = t[j] => i = j
           /\ \A i \in 1 .. a : \A j \in 1 .. b : s[i] # t[j]
           /\ IsFiniteSet(S) => a + b <= Cardinality(S)
  <1> DEFINE both == s \o t
  <1>1. /\ both \in Seq(S) /\ Len(both) = a + b
        /\ \A i \in 1 .. a + b : both[i] = IF i <= a THEN s[i] ELSE t[i - a]
    BY ConcatProperties
  <1>2. DOMAIN both = 1 .. a + b /\ both \in [1 .. a + b -> S]
    BY <1>1, LenProperties
  <1>3. \A i, j \in 1 .. a + b : both[i] = both[j] => i = j
    BY <1>2 DEF IsInjective
  <1> HIDE DEF both
  <1>4. ASSUME NEW i \in 1 .. a PROVE i \in 1 .. a + b /\ both[i] = s[i]
    BY <1>1
  <1>5. ASSUME NEW i \in 1 .. b PROVE a + i \in 1 .. a + b /\ both[a + i] = t[i]
    <2>1. a + i \in 1 .. a + b /\ ~(a + i <= a) /\ (a + i) - a = i
      OBVIOUS
    <2> QED
      BY <1>1, <2>1
  <1>6. ASSUME IsFiniteSet(S) PROVE a + b <= Cardinality(S)
    <2>1. both \in Injection(1 .. a + b, S)
      BY <1>2, <1>3 DEF Injection, IsInjective
    <2>2. Cardinality(1 .. a + b) <= Cardinality(S)
      BY <1>6, <2>1, FS_Injection
    <2>3. ASSUME NEW n \in Nat PROVE Cardinality(1 .. n) = n
      <3>1. 1 \in Int /\ n \in Int
        OBVIOUS
      <3>2. Cardinality(1 .. n) = IF 1 > n THEN 0 ELSE n - 1 + 1
        BY <3>1, FS_Interval
      <3> QED
        BY <3>2
    <2>4. a + b \in Nat
      OBVIOUS
    <2>5. Cardinality(1 .. a + b) = a + b
      BY <2>3, <2>4, Zenon
    <2> QED
      BY <2>2, <2>5
  <1>7. \A i, j \in 1 .. a : s[i] = s[j] => i = j
    BY <1>3, <1>4
  <1>8. \A i, j \in 1 .. b : t[i] = t[j] => i = j
    <2> SUFFICES ASSUME NEW i \in 1 .. b, NEW j \in 1 .. b, t[i] = t[j] PROVE i = j
      OBVIOUS
    <2>1. /\ a + i \in 1 .. a + b /\ both[a + i] = t[i]
          /\ a + j \in 1 .. a + b /\ both[a + j] = t[j]
      BY <1>5
    <2>2. a + i = a + j
      BY <1>3, <2>1, Zenon
    <2> QED
      BY <2>2
  <1>9. \A i \in 1 .. a : \A j \in 1 .. b : s[i] # t[j]
    <2> SUFFICES ASSUME NEW i \in 1 .. a, NEW j \in 1 .. b, s[i] = t[j] PROVE FALSE
      OBVIOUS
    <2>1. i = a + j
      BY <1>3, <1>4, <1>5
    <2> QED
      BY <2>1
  <1> QED
    BY <1>6, <1>7, <1>8, <1>9

LEMMA PinsDiffer ==
    ASSUME NEW m \in KsMatrices
    PROVE  /\ \A i, j \in 1 .. Len(m.row) : m.row[i] = m.row[j] => i = j
           /\ \A i, j \in 1 .. Len(m.col) : m.col[i] = m.col[j] => i = j
           /\ \A i \in 1 .. Len(m.row) : \A j \in 1 .. Len(m.col) : m.row[i] # m.col[j]
           /\ Len(m.row) + Len(m.col) <= 32
  <1>1. /\ m.row \in Seq(ScanPins) /\ m.col \in Seq(ScanPins)
        /\ Len(m.row) \in Nat /\ Len(m.col) \in Nat
    BY MatrixType
  <1>2. IsInjective(m.row \o m.col)
    BY KsAssumption
  <1>3. IsFiniteSet(ScanPins) /\ Cardinality(ScanPins) <= 32
    <2>1. ScanPins \in SUBSET Nat /\ 31 \in Nat /\ \A pin \in ScanPins : pin <= 31
      BY DEF ScanPins
    <2>2. IsFiniteSet(ScanPins) /\ Cardinality(ScanPins) <= 31 + 1
      BY <2>1, FS_BoundedSetOfNaturals
    <2> QED
      BY <2>2
  <1>4. /\ \A i, j \in 1 .. Len(m.row) : m.row[i] = m.row[j] => i = j
        /\ \A i, j \in 1 .. Len(m.col) : m.col[i] = m.col[j] => i = j
        /\ \A i \in 1 .. Len(m.row) : \A j \in 1 .. Len(m.col) : m.row[i] # m.col[j]
        /\ Len(m.row) + Len(m.col) <= Cardinality(ScanPins)
    <2> DEFINE a == Len(m.row)
               b == Len(m.col)
    <2>1. a \in Nat /\ b \in Nat /\ a = Len(m.row) /\ b = Len(m.col)
      BY <1>1
    <2> HIDE DEF a, b
    <2>2. /\ \A i, j \in 1 .. a : m.row[i] = m.row[j] => i = j
          /\ \A i, j \in 1 .. b : m.col[i] = m.col[j] => i = j
          /\ \A i \in 1 .. a : \A j \in 1 .. b : m.row[i] # m.col[j]
          /\ IsFiniteSet(ScanPins) => a + b <= Cardinality(ScanPins)
      <3> DEFINE row == m.row
                 col == m.col
      <3>1. /\ row \in Seq(ScanPins) /\ col \in Seq(ScanPins) /\ a = Len(row) /\ b = Len(col)
            /\ IsInjective(row \o col)
        BY <1>1, <1>2, <2>1, Zenon
      <3> HIDE DEF row, col
      <3>2. /\ \A i, j \in 1 .. a : row[i] = row[j] => i = j
            /\ \A i, j \in 1 .. b : col[i] = col[j] => i = j
            /\ \A i \in 1 .. a : \A j \in 1 .. b : row[i] # col[j]
            /\ IsFiniteSet(ScanPins) => a + b <= Cardinality(ScanPins)
        BY <2>1, <3>1, JoinedDiffer
      <3> QED
        BY <3>2, Zenon DEF row, col
    <2> QED
      BY <1>3, <2>1, <2>2, Zenon
  <1>5. Cardinality(ScanPins) \in Nat
    BY <1>3, FS_CardinalityType
  <1>6. Len(m.row) + Len(m.col) <= 32
    <2> DEFINE a == Len(m.row)
               b == Len(m.col)
    <2>1. /\ a \in Nat /\ b \in Nat /\ a + b <= Cardinality(ScanPins)
          /\ Cardinality(ScanPins) \in Nat /\ Cardinality(ScanPins) <= 32
      BY <1>1, <1>3, <1>4, <1>5, Zenon
    <2> HIDE DEF a, b
    <2>2. a + b <= 32
      BY <2>1
    <2> QED
      BY <2>2 DEF a, b
  <1> QED
    BY <1>4, <1>6, Zenon

----------------------------------------------------------------------------

\* The pin a row field is given: the used ones in order, then no pin.
RowOf(row, i) == IF i < Len(row) THEN row[i + 1] ELSE NoPin

LEMMA RowBitsAre ==
    ASSUME NEW i \in 0 .. 7, NEW pin, NEW x
    PROVE  x \in RowBits(i, pin) <=> \E b \in Bits(pin) : x = RowBit(5 * i + b)
  <1>1. \A b \in Bits(pin) : b \in 0 .. 4
    BY DEF Bits
  <1>2. CASE i < 6
    <2>1. RowBits(i, pin) = {<<0, b + 5 * i>> : b \in Bits(pin)}
      BY <1>2 DEF RowBits
    <2>2. \A b \in Bits(pin) : RowBit(5 * i + b) = <<0, b + 5 * i>>
      BY <1>1, <1>2 DEF RowBit
    <2> QED
      BY <2>1, <2>2
  <1>3. CASE i = 6
    <2>1. RowBits(i, pin) = {<<0, b + 30>> : b \in Bits(pin) \cap {0, 1}}
                              \cup {<<4, b - 2>> : b \in Bits(pin) \ {0, 1}}
      BY <1>3 DEF RowBits
    <2>2. \A b \in Bits(pin) : RowBit(5 * i + b) = IF b \in {0, 1} THEN <<0, b + 30>> ELSE <<4, b - 2>>
      BY <1>1, <1>3 DEF RowBit
    <2> QED
      BY <2>1, <2>2
  <1>4. CASE i = 7
    <2>1. RowBits(i, pin) = {<<4, b + 3>> : b \in Bits(pin)}
      BY <1>4 DEF RowBits
    <2>2. \A b \in Bits(pin) : RowBit(5 * i + b) = <<4, b + 3>>
      BY <1>1, <1>4 DEF RowBit
    <2> QED
      BY <2>1, <2>2
  <1> QED
    BY <1>2, <1>3, <1>4

LEMMA RowBitsDiffer ==
    ASSUME NEW i \in 0 .. 7, NEW j \in 0 .. 7, NEW b \in 0 .. 4, NEW c \in 0 .. 4,
           RowBit(5 * i + b) = RowBit(5 * j + c)
    PROVE  i = j /\ b = c
  <1>1. \A x, y \in 0 .. 39 : RowBit(x) = RowBit(y) => x = y
    BY DEF RowBit
  <1>2. 5 * i + b \in 0 .. 39 /\ 5 * j + c \in 0 .. 39
    OBVIOUS
  <1>3. 5 * i + b = 5 * j + c
    BY <1>1, <1>2
  <1> QED
    BY <1>3

LEMMA PinOfBits ==
    ASSUME NEW pin \in 0 .. 31
    PROVE  pin = (IF 0 \in Bits(pin) THEN 2 ^ 0 ELSE 0) + (IF 1 \in Bits(pin) THEN 2 ^ 1 ELSE 0)
                   + (IF 2 \in Bits(pin) THEN 2 ^ 2 ELSE 0) + (IF 3 \in Bits(pin) THEN 2 ^ 3 ELSE 0)
                   + (IF 4 \in Bits(pin) THEN 2 ^ 4 ELSE 0)
  <1>1. 2 ^ 0 = 1 /\ 2 ^ 1 = 2 /\ 2 ^ 2 = 4 /\ 2 ^ 3 = 8 /\ 2 ^ 4 = 16
    OBVIOUS
  <1>2. /\ 0 \in Bits(pin) <=> (pin \div 1) % 2 = 1
        /\ 1 \in Bits(pin) <=> (pin \div 2) % 2 = 1
        /\ 2 \in Bits(pin) <=> (pin \div 4) % 2 = 1
        /\ 3 \in Bits(pin) <=> (pin \div 8) % 2 = 1
        /\ 4 \in Bits(pin) <=> (pin \div 16) % 2 = 1
    BY <1>1 DEF Bits
  <1>3. pin = (IF (pin \div 1) % 2 = 1 THEN 1 ELSE 0) + (IF (pin \div 2) % 2 = 1 THEN 2 ELSE 0)
                + (IF (pin \div 4) % 2 = 1 THEN 4 ELSE 0) + (IF (pin \div 8) % 2 = 1 THEN 8 ELSE 0)
                + (IF (pin \div 16) % 2 = 1 THEN 16 ELSE 0)
    OBVIOUS
  <1> QED
    BY <1>1, <1>2, <1>3

\* The scanner finds in the two registers the pins that were set.
LEMMA RowPinIs ==
    ASSUME NEW m \in KsMatrices, row_sel = keyscan_set_row(m.row), NEW i \in 0 .. 7
    PROVE  RowPin(i) = RowOf(m.row, i)
  <1>1. ASSUME NEW j \in 0 .. 7 PROVE RowOf(m.row, j) \in 0 .. 31
    <2>1. CASE j < Len(m.row)
      <3>1. j + 1 \in 1 .. Len(m.row)
        BY <2>1, MatrixType
      <3>2. m.row[j + 1] \in ScanPins
        BY <3>1, MatrixType
      <3> QED
        BY <2>1, <3>2 DEF RowOf, ScanPins
    <2> QED
      BY <2>1 DEF RowOf, NoPin
  <1>2. \A b \in 0 .. 4 : RowBit(5 * i + b) \in row_sel <=> b \in Bits(RowOf(m.row, i))
    <2> SUFFICES ASSUME NEW b \in 0 .. 4
                 PROVE  RowBit(5 * i + b) \in row_sel <=> b \in Bits(RowOf(m.row, i))
      OBVIOUS
    <2>1. RowBit(5 * i + b) \in row_sel <=> \E j \in 0 .. 7 : RowBit(5 * i + b) \in RowBits(j, RowOf(m.row, j))
      BY DEF keyscan_set_row, RowOf
    <2>2. \A j \in 0 .. 7 : RowBit(5 * i + b) \in RowBits(j, RowOf(m.row, j))
                              <=> \E c \in Bits(RowOf(m.row, j)) : RowBit(5 * i + b) = RowBit(5 * j + c)
      BY RowBitsAre
    <2>3. \A j \in 0 .. 7 : \A c \in Bits(RowOf(m.row, j)) : c \in 0 .. 4
      BY DEF Bits
    <2> QED
      BY <2>1, <2>2, <2>3, RowBitsDiffer
  <1> DEFINE pin == RowOf(m.row, i)
  <1>3. /\ RowBit(5 * i + 0) \in row_sel <=> 0 \in Bits(pin)
        /\ RowBit(5 * i + 1) \in row_sel <=> 1 \in Bits(pin)
        /\ RowBit(5 * i + 2) \in row_sel <=> 2 \in Bits(pin)
        /\ RowBit(5 * i + 3) \in row_sel <=> 3 \in Bits(pin)
        /\ RowBit(5 * i + 4) \in row_sel <=> 4 \in Bits(pin)
    BY <1>2
  <1>4. pin \in 0 .. 31
    BY <1>1
  <1> HIDE DEF pin
  <1>5. RowPin(i) = (IF 0 \in Bits(pin) THEN 2 ^ 0 ELSE 0) + (IF 1 \in Bits(pin) THEN 2 ^ 1 ELSE 0)
                      + (IF 2 \in Bits(pin) THEN 2 ^ 2 ELSE 0) + (IF 3 \in Bits(pin) THEN 2 ^ 3 ELSE 0)
                      + (IF 4 \in Bits(pin) THEN 2 ^ 4 ELSE 0)
    BY <1>3, Zenon DEF RowPin
  <1>6. pin = (IF 0 \in Bits(pin) THEN 2 ^ 0 ELSE 0) + (IF 1 \in Bits(pin) THEN 2 ^ 1 ELSE 0)
                + (IF 2 \in Bits(pin) THEN 2 ^ 2 ELSE 0) + (IF 3 \in Bits(pin) THEN 2 ^ 3 ELSE 0)
                + (IF 4 \in Bits(pin) THEN 2 ^ 4 ELSE 0)
    BY <1>4, PinOfBits
  <1>7. RowPin(i) = pin
    BY <1>5, <1>6
  <1> QED
    BY <1>7 DEF pin

----------------------------------------------------------------------------

\* The number of elements below v: it tells the elements of S apart.
Below(S, v) == {w \in S : w < v}

LEMMA RanksAre ==
    ASSUME NEW S \in SUBSET Nat, IsFiniteSet(S), NEW n, n = Cardinality(S)
    PROVE  /\ n \in Nat
           /\ \A v \in S : Cardinality(Below(S, v)) \in 0 .. n - 1
           /\ \A v, w \in S : Cardinality(Below(S, v)) = Cardinality(Below(S, w)) => v = w
           /\ \A r \in 0 .. n - 1 : \E v \in S : Cardinality(Below(S, v)) = r
  <1>1. n \in Nat
    BY FS_CardinalityType
  <1>2. ASSUME NEW T \in SUBSET S PROVE IsFiniteSet(T) /\ Cardinality(T) \in Nat
    BY FS_Subset, FS_CardinalityType
  <1>3. ASSUME NEW T \in SUBSET S, NEW R \in SUBSET T, NEW v \in T, v \notin R
        PROVE  Cardinality(R) < Cardinality(T)
    <2>1. /\ IsFiniteSet(T) /\ Cardinality(T) \in Nat /\ Cardinality(R) \in Nat
      BY <1>2
    <2>2. Cardinality(R) <= Cardinality(T) /\ (Cardinality(R) = Cardinality(T) => R = T)
      BY <2>1, FS_Subset
    <2>3. R # T
      BY <1>3
    <2> QED
      BY <2>1, <2>2, <2>3
  <1>4. ASSUME NEW v \in S PROVE Cardinality(Below(S, v)) \in 0 .. n - 1
    <2>1. Below(S, v) \in SUBSET S /\ v \notin Below(S, v) /\ S \in SUBSET S
      BY DEF Below
    <2>2. Cardinality(Below(S, v)) < Cardinality(S) /\ Cardinality(Below(S, v)) \in Nat
      BY <1>2, <1>3, <2>1
    <2> QED
      BY <1>1, <2>2
  <1>5. ASSUME NEW v \in S, NEW w \in S, v < w
        PROVE  Cardinality(Below(S, v)) < Cardinality(Below(S, w))
    <2>1. /\ Below(S, w) \in SUBSET S /\ Below(S, v) \in SUBSET Below(S, w)
          /\ v \in Below(S, w) /\ v \notin Below(S, v)
      <3>1. v \in Nat /\ w \in Nat
        OBVIOUS
      <3>2. \A u \in S : u \in Nat /\ (u < v => u < w)
        BY <1>5, <3>1
      <3>3. ~(v < v)
        BY <3>1
      <3> QED
        BY <1>5, <3>2, <3>3, Zenon DEF Below
    <2> QED
      BY <1>3, <2>1
  <1>6. ASSUME NEW v \in S, NEW w \in S, Cardinality(Below(S, v)) = Cardinality(Below(S, w))
        PROVE  v = w
    <2>1. v \in Nat /\ w \in Nat /\ Cardinality(Below(S, v)) \in Nat
      BY <1>1, <1>4
    <2>2. ~(v < w) /\ ~(w < v)
      BY <1>5, <1>6, <2>1
    <2> QED
      BY <2>1, <2>2
  <1> DEFINE rank == [v \in S |-> Cardinality(Below(S, v))]
  <1>7. rank \in Injection(S, 0 .. n - 1)
    BY <1>4, <1>6 DEF Injection, IsInjective
  <1>8. IsFiniteSet(0 .. n - 1) /\ Cardinality(0 .. n - 1) = n
    <2>1. 0 \in Int /\ n - 1 \in Int
      BY <1>1
    <2>2. /\ IsFiniteSet(0 .. n - 1)
          /\ Cardinality(0 .. n - 1) = IF 0 > n - 1 THEN 0 ELSE (n - 1) - 0 + 1
      BY <2>1, FS_Interval
    <2> QED
      BY <1>1, <2>2
  <1>9. rank \in Surjection(S, 0 .. n - 1)
    <2> HIDE DEF rank
    <2> QED
      BY <1>7, <1>8, FS_Injection
  <1>10. \A r \in 0 .. n - 1 : \E v \in S : Cardinality(Below(S, v)) = r
    BY <1>9 DEF Surjection
  <1> QED
    BY <1>1, <1>4, <1>6, <1>10

\* The scanner takes each of the values once.
LEMMA AscendingIs ==
    ASSUME NEW S \in SUBSET Nat, IsFiniteSet(S), NEW n, n = Cardinality(S),
           NEW f, f = Ascending(S)
    PROVE  /\ n \in Nat /\ f \in [1 .. n -> S]
           /\ \A i, j \in 1 .. n : f[i] = f[j] => i = j
           /\ \A v \in S : \E i \in 1 .. n : f[i] = v
  <1>1. /\ n \in Nat
        /\ \A v \in S : Cardinality(Below(S, v)) \in 0 .. n - 1
        /\ \A v, w \in S : Cardinality(Below(S, v)) = Cardinality(Below(S, w)) => v = w
        /\ \A r \in 0 .. n - 1 : \E v \in S : Cardinality(Below(S, v)) = r
    BY RanksAre
  <1>2. f = [k \in 1 .. n |-> CHOOSE v \in S : Cardinality(Below(S, v)) = k - 1]
    BY DEF Ascending, Below
  <1>3. ASSUME NEW i \in 1 .. n PROVE f[i] \in S /\ Cardinality(Below(S, f[i])) = i - 1
    <2>1. i - 1 \in 0 .. n - 1
      BY <1>1
    <2>2. PICK v \in S : Cardinality(Below(S, v)) = i - 1
      BY <1>1, <2>1
    <2>3. f[i] = CHOOSE w \in S : Cardinality(Below(S, w)) = i - 1
      BY <1>2
    <2> QED
      BY <2>2, <2>3, Zenon
  <1>4. f \in [1 .. n -> S]
    BY <1>2, <1>3
  <1>5. \A i, j \in 1 .. n : f[i] = f[j] => i = j
    <2> SUFFICES ASSUME NEW i \in 1 .. n, NEW j \in 1 .. n, f[i] = f[j] PROVE i = j
      OBVIOUS
    <2>1. i - 1 = j - 1
      BY <1>3, Zenon
    <2> QED
      BY <1>1, <2>1
  <1>6. \A v \in S : \E i \in 1 .. n : f[i] = v
    <2> SUFFICES ASSUME NEW v \in S PROVE \E i \in 1 .. n : f[i] = v
      OBVIOUS
    <2>1. PICK i \in 1 .. n : i - 1 = Cardinality(Below(S, v))
      <3>1. PICK r \in 0 .. n - 1 : r = Cardinality(Below(S, v))
        BY <1>1
      <3>2. r + 1 \in 1 .. n /\ (r + 1) - 1 = r
        BY <1>1
      <3> QED
        BY <3>1, <3>2
    <2>2. f[i] \in S /\ Cardinality(Below(S, f[i])) = Cardinality(Below(S, v))
      BY <1>3, <2>1
    <2> QED
      BY <1>1, <2>2
  <1> QED
    BY <1>1, <1>4, <1>5, <1>6

----------------------------------------------------------------------------

KeyStored(m, k) == 32 * k[1] + m.col[k[2] + 1]

\* What keyscan_get_ks_value makes of a stored value.
Decode(v) == 32 * (v \div 32) + UserColumn(v % 32)

LEMMA KeyType ==
    ASSUME NEW m \in KsMatrices, NEW k \in Keys(m)
    PROVE  /\ k[1] \in 0 .. 7 /\ k[1] < Len(m.row) /\ k[1] + 1 \in 1 .. Len(m.row)
           /\ k[2] \in 0 .. 31 /\ k[2] < Len(m.col) /\ k[2] + 1 \in 1 .. Len(m.col)
           /\ k[1] + k[2] \in 0 .. 30
           /\ m.row[k[1] + 1] \in ScanPins /\ m.col[k[2] + 1] \in ScanPins
  <1> DEFINE a == Len(m.row)
             b == Len(m.col)
  <1>1. a \in 0 .. 8 /\ b \in Nat
    BY MatrixType
  <1>2. a + b <= 32
    BY PinsDiffer
  <1>3. k[1] \in 0 .. a - 1 /\ k[2] \in 0 .. b - 1
    BY DEF Keys
  <1> HIDE DEF a, b
  <1>4. /\ k[1] \in 0 .. 7 /\ k[1] < a /\ k[1] + 1 \in 1 .. a
        /\ k[2] \in 0 .. 31 /\ k[2] < b /\ k[2] + 1 \in 1 .. b
        /\ k[1] + k[2] \in 0 .. 30
    BY <1>1, <1>2, <1>3
  <1>5. m.row[k[1] + 1] \in ScanPins /\ m.col[k[2] + 1] \in ScanPins
    BY <1>4, MatrixType, Zenon DEF a, b
  <1> QED
    BY <1>4, <1>5, Zenon DEF a, b

LEMMA Split32 ==
    ASSUME NEW r \in 0 .. 7, NEW c \in 0 .. 31
    PROVE  (32 * r + c) \div 32 = r /\ (32 * r + c) % 32 = c /\ 32 * r + c \in Nat
  OBVIOUS

\* The scanner sees the keys that are down and no driven column.
LEMMA ActiveAre ==
    ASSUME NEW m \in KsMatrices, row_sel = keyscan_set_row(m.row),
           col_mask = keyscan_set_col(m.col), NEW down \in SUBSET Keys(m)
    PROVE  Active(Closed(m, down)) = {KeyStored(m, k) : k \in down}
  <1> DEFINE keys == Closed(m, down)
             pin == [i \in 0 .. 7 |-> RowPin(i)]
             seen == {y \in (0 .. 7) \X col_mask : pin[y[1]] = y[2] \/ <<pin[y[1]], y[2]>> \in keys}
  <1>1. Active(keys) = {32 * x[1] + x[2] : x \in seen}
    BY DEF Active
  <1>2. \A i \in 0 .. 7 : pin[i] = RowOf(m.row, i)
    BY RowPinIs
  <1>3. ASSUME NEW c PROVE c \in col_mask <=> \E j \in 1 .. Len(m.col) : c = m.col[j]
    <2>1. DOMAIN m.col = 1 .. Len(m.col)
      BY MatrixType, LenProperties
    <2> QED
      BY <2>1 DEF keyscan_set_col, Range
  <1>4. ASSUME NEW k \in down PROVE \E x \in seen : 32 * x[1] + x[2] = KeyStored(m, k)
    <2>1. k \in Keys(m)
      OBVIOUS
    <2>2. k[1] \in 0 .. 7 /\ k[1] < Len(m.row) /\ k[2] + 1 \in 1 .. Len(m.col)
      BY <2>1, KeyType
    <2> DEFINE x == <<k[1], m.col[k[2] + 1]>>
    <2>3. pin[k[1]] = m.row[k[1] + 1]
      BY <1>2, <2>2, Zenon DEF RowOf
    <2>4. m.col[k[2] + 1] \in col_mask
      BY <1>3, <2>2, Zenon
    <2>5. <<m.row[k[1] + 1], m.col[k[2] + 1]>> \in keys
      BY DEF Closed
    <2>6. x \in (0 .. 7) \X col_mask
      BY <2>2, <2>4
    <2>7. x[1] = k[1] /\ x[2] = m.col[k[2] + 1]
      OBVIOUS
    <2> HIDE DEF pin, keys, x
    <2>8. x \in seen
      BY <2>3, <2>5, <2>6, <2>7
    <2> QED
      BY <2>7, <2>8 DEF KeyStored
  <1>5. ASSUME NEW x \in seen PROVE \E k \in down : 32 * x[1] + x[2] = KeyStored(m, k)
    <2>1. x[1] \in 0 .. 7 /\ x[2] \in col_mask
      OBVIOUS
    <2>2. PICK j \in 1 .. Len(m.col) : x[2] = m.col[j]
      BY <1>3, <2>1
    <2>3. x[2] \in ScanPins
      BY <2>2, MatrixType
    <2>4. pin[x[1]] # x[2]
      <3>1. CASE x[1] < Len(m.row)
        <4>1. x[1] + 1 \in 1 .. Len(m.row)
          <5>1. \A n \in 0 .. 8 : x[1] < n => x[1] + 1 \in 1 .. n
            BY <2>1
          <5> QED
            BY <3>1, <5>1, MatrixType, Zenon
        <4>2. pin[x[1]] = m.row[x[1] + 1]
          BY <1>2, <2>1, <3>1, Zenon DEF RowOf
        <4>3. m.row[x[1] + 1] # m.col[j]
          BY <4>1, PinsDiffer
        <4> HIDE DEF pin
        <4> QED
          BY <2>2, <4>2, <4>3
      <3>2. CASE ~(x[1] < Len(m.row))
        BY <1>2, <2>1, <2>3, <3>2, Zenon DEF RowOf, ScanPins
      <3> QED
        BY <3>1, <3>2
    <2>5. <<pin[x[1]], x[2]>> \in keys
      BY <2>4
    <2>6. PICK k \in down : pin[x[1]] = m.row[k[1] + 1] /\ x[2] = m.col[k[2] + 1]
      BY <2>5 DEF Closed
    <2>7. k \in Keys(m)
      OBVIOUS
    <2>8. k[1] + 1 \in 1 .. Len(m.row) /\ m.row[k[1] + 1] \in ScanPins /\ k[1] \in 0 .. 7
      BY <2>7, KeyType
    <2>9. x[1] = k[1]
      <3>1. CASE x[1] < Len(m.row)
        <4>1. x[1] + 1 \in 1 .. Len(m.row)
          <5>1. \A n \in 0 .. 8 : x[1] < n => x[1] + 1 \in 1 .. n
            BY <2>1
          <5> QED
            BY <3>1, <5>1, MatrixType, Zenon
        <4>2. pin[x[1]] = m.row[x[1] + 1]
          BY <1>2, <2>1, <3>1, Zenon DEF RowOf
        <4>3. x[1] + 1 = k[1] + 1
          BY <2>6, <2>8, <4>1, <4>2, PinsDiffer, Zenon
        <4>4. \A r, s \in 0 .. 7 : r + 1 = s + 1 => r = s
          OBVIOUS
        <4> QED
          BY <2>1, <2>8, <4>3, <4>4, Zenon
      <3>2. CASE ~(x[1] < Len(m.row))
        BY <1>2, <2>1, <2>6, <2>8, <3>2, Zenon DEF RowOf, ScanPins
      <3> QED
        BY <3>1, <3>2
    <2> QED
      BY <2>6, <2>9 DEF KeyStored
  <1> HIDE DEF seen, keys
  <1>6. Active(keys) = {KeyStored(m, k) : k \in down}
    BY <1>1, <1>4, <1>5
  <1> QED
    BY <1>6 DEF keys

----------------------------------------------------------------------------

LEMMA KeyDecoded ==
    ASSUME NEW m \in KsMatrices, g_keyscan_col = m.col, NEW k \in Keys(m)
    PROVE  /\ KeyStored(m, k) \in 0 .. 255 /\ KeyNumber(k) \in Nat
           /\ Decode(KeyStored(m, k)) = KeyNumber(k) /\ KeyNumber(k) # KESYCAN_END_FLAG
  <1> DEFINE pin == m.col[k[2] + 1]
             cols == m.col
  <1>1. /\ k[1] \in 0 .. 7 /\ k[2] \in 0 .. 31 /\ k[1] + k[2] \in 0 .. 30
        /\ k[2] + 1 \in 1 .. Len(cols) /\ pin \in 0 .. 31
    BY KeyType DEF ScanPins
  <1>2. DOMAIN cols = 1 .. Len(cols) /\ Len(cols) \in Nat
    BY MatrixType, LenProperties
  <1>3. \A i \in 1 .. Len(cols) : cols[i] = pin => i = k[2] + 1
    BY <1>1, PinsDiffer
  <1>4. UserColumn(pin) = k[2]
    <2> DEFINE found == {i \in DOMAIN g_keyscan_col : g_keyscan_col[i] = pin}
    <2>1. found = {k[2] + 1}
      BY <1>1, <1>2, <1>3
    <2>2. UserColumn(pin) = IF found = {} THEN pin ELSE Min(found) - 1
      BY DEF UserColumn
    <2> HIDE DEF found, pin
    <2>3. Min(found) = k[2] + 1
      <3>1. \A e \in Nat : Min({e}) = e
        BY DEF Min
      <3>2. k[2] + 1 \in Nat
        BY <1>1
      <3> QED
        BY <2>1, <3>1, <3>2, Zenon
    <2>4. UserColumn(pin) = (k[2] + 1) - 1
      BY <2>1, <2>2, <2>3, Zenon
    <2>5. \A c \in 0 .. 31 : (c + 1) - 1 = c
      OBVIOUS
    <2> QED
      BY <1>1, <2>4, <2>5, Zenon
  <1>5. KeyStored(m, k) = 32 * k[1] + pin
    BY DEF KeyStored
  <1> HIDE DEF pin, cols
  <1>6. KeyStored(m, k) \in 0 .. 255
    <2> DEFINE a == k[1]
    <2>1. a \in 0 .. 7 /\ pin \in 0 .. 31 /\ KeyStored(m, k) = 32 * a + pin
      BY <1>1, <1>5, Zenon
    <2> HIDE DEF a
    <2> QED
      BY <2>1
  <1>7. KeyStored(m, k) \div 32 = k[1] /\ KeyStored(m, k) % 32 = pin
    BY <1>1, <1>5, Split32
  <1>8. Decode(KeyStored(m, k)) = 32 * k[1] + k[2]
    BY <1>4, <1>7, Zenon DEF Decode
  <1>9. 32 * k[1] + k[2] \in Nat /\ 32 * k[1] + k[2] # 251
    <2> DEFINE a == k[1]
               c == k[2]
    <2>1. a \in 0 .. 7 /\ c \in 0 .. 31 /\ a + c \in 0 .. 30
      BY <1>1, Zenon
    <2> HIDE DEF a, c
    <2>2. 32 * a + c \in Nat /\ 32 * a + c # 251
      BY <2>1
    <2> QED
      BY <2>2, Zenon DEF a, c
  <1> QED
    BY <1>6, <1>8, <1>9, Zenon DEF KeyNumber, KESYCAN_END_FLAG

LEMMA NumbersDiffer ==
    ASSUME NEW m \in KsMatrices, NEW k \in Keys(m), NEW l \in Keys(m), KeyNumber(k) = KeyNumber(l)
    PROVE  k = l
  <1>1. /\ k[1] \in 0 .. 7 /\ k[2] \in 0 .. 31 /\ l[1] \in 0 .. 7 /\ l[2] \in 0 .. 31
    BY KeyType
  <1>2. \A a, b \in 0 .. 7 : \A c, d \in 0 .. 31 : 32 * a + c = 32 * b + d => a = b /\ c = d
    OBVIOUS
  <1>3. 32 * k[1] + k[2] = 32 * l[1] + l[2]
    BY Zenon DEF KeyNumber
  <1>4. k[1] = l[1] /\ k[2] = l[2]
    <2> DEFINE a == k[1]
               c == k[2]
               b == l[1]
               d == l[2]
    <2>1. a \in 0 .. 7 /\ b \in 0 .. 7 /\ c \in 0 .. 31 /\ d \in 0 .. 31 /\ 32 * a + c = 32 * b + d
      BY <1>1, <1>3, Zenon
    <2> HIDE DEF a, b, c, d
    <2>2. a = b /\ c = d
      BY <2>1
    <2> QED
      BY <2>2, Zenon DEF a, b, c, d
  <1> QED
    BY <1>4 DEF Keys

\* The end flag's column is no pin, so it is returned as it is.
LEMMA EndDecoded ==
    ASSUME \A i \in DOMAIN g_keyscan_col : g_keyscan_col[i] # NoPin
    PROVE  Decode(KESYCAN_END_FLAG) = KESYCAN_END_FLAG
  <1>1. UserColumn(27) = 27
    BY DEF UserColumn, NoPin
  <1>2. 251 \div 32 = 7 /\ 251 % 32 = 27
    OBVIOUS
  <1> QED
    BY <1>1, <1>2 DEF Decode, KESYCAN_END_FLAG

\* What is left of f[1 .. l] when q have been read.
Rest(f, l, q) == [i \in 1 .. l - q |-> f[q + i]]

\* Of the f[1 .. n + 1] that the scan has stored, q have been read.
Scanned(n, f, q) ==
    /\ n \in Nat /\ q \in 0 .. n + 1
    /\ f \in [1 .. n + 1 -> Nat] /\ Decode(f[n + 1]) = KESYCAN_END_FLAG
    /\ \A i \in 1 .. n : Decode(f[i]) \in ks_pressed
    /\ \A i, j \in 1 .. n : Decode(f[i]) = Decode(f[j]) => i = j
    /\ \A x \in ks_pressed : \E i \in 1 .. n : Decode(f[i]) = x
    /\ KESYCAN_END_FLAG \notin ks_pressed
    /\ ks_got = [i \in 1 .. q |-> Decode(f[i])]
    /\ ks_fifo = Rest(f, n + 1, q)

KsInv ==
    /\ col_mask = keyscan_set_col(g_keyscan_col)
    /\ (ks_fifo = <<>> /\ ks_got = <<>>) \/ \E n, f, q : Scanned(n, f, q)

LEMMA KsInitInv == ASSUME KsInit PROVE KsInv
  BY DEF KsInit, KsInv, keyscan_set_col, Range

LEMMA SetMatrixInv == ASSUME KsInv, keyscan_set_martix PROVE KsInv'
  BY DEF keyscan_set_martix, KsInv, keyscan_set_col

LEMMA ScanInv == ASSUME KsInv, Scan PROVE KsInv'
  <1>1. PICK m \in KsMatrices :
          /\ m.col = g_keyscan_col /\ keyscan_set_row(m.row) = row_sel
          /\ \E down \in {{}} \cup {{k, l} : k, l \in Keys(m)} :
               /\ ks_pressed' = {KeyNumber(k) : k \in down}
               /\ ks_fifo' = Append(Ascending(Active(Closed(m, down))), KESYCAN_END_FLAG)
    BY DEF Scan
  <1>2. PICK down \in SUBSET Keys(m) :
               /\ ks_pressed' = {KeyNumber(k) : k \in down}
               /\ ks_fifo' = Append(Ascending(Active(Closed(m, down))), KESYCAN_END_FLAG)
    BY <1>1
  <1>3. ks_got' = <<>> /\ g_keyscan_col' = g_keyscan_col /\ col_mask' = col_mask
    BY DEF Scan
  <1>4. row_sel = keyscan_set_row(m.row) /\ col_mask = keyscan_set_col(m.col)
    BY <1>1 DEF KsInv
  <1> DEFINE S == {KeyStored(m, k) : k \in down}
  <1>5. ks_fifo' = Append(Ascending(S), KESYCAN_END_FLAG)
    BY <1>2, <1>4, ActiveAre
  <1>6. ks_pressed' = {KeyNumber(k) : k \in down}
    BY <1>2
  <1>7. \A k \in down : /\ KeyStored(m, k) \in 0 .. 255
                        /\ Decode(KeyStored(m, k)) = KeyNumber(k) /\ KeyNumber(k) # KESYCAN_END_FLAG
    BY <1>1, KeyDecoded
  <1>8. S \in SUBSET (0 .. 255)
    BY <1>7
  <1>9. S \in SUBSET Nat /\ IsFiniteSet(S)
    <2>1. IsFiniteSet(0 .. 255)
      <3>1. 0 \in Int /\ 255 \in Int
        OBVIOUS
      <3> QED
        BY <3>1, FS_Interval
    <2>2. IsFiniteSet(S)
      BY <1>8, <2>1, FS_Subset
    <2> QED
      BY <1>8, <2>2
  <1>10. \A x \in S : \E k \in down : x = KeyStored(m, k)
    OBVIOUS
  <1>11. \A k \in down : KeyStored(m, k) \in S
    OBVIOUS
  <1> HIDE DEF S
  <1> DEFINE n == Cardinality(S)
             g == Ascending(S)
             f == Append(g, KESYCAN_END_FLAG)
  <1>12. /\ n \in Nat /\ g \in [1 .. n -> S]
         /\ \A i, j \in 1 .. n : g[i] = g[j] => i = j
         /\ \A v \in S : \E i \in 1 .. n : g[i] = v
    BY <1>9, AscendingIs
  <1> HIDE DEF n, g
  <1>13. /\ f \in [1 .. n + 1 -> Nat] /\ f[n + 1] = KESYCAN_END_FLAG
         /\ \A i \in 1 .. n : f[i] = g[i]
         /\ f = [i \in 1 .. n + 1 |-> f[i]]
    <2>1. g \in Seq(Nat) /\ Len(g) = n
      <3>1. n \in Nat /\ g \in [1 .. n -> Nat]
        BY <1>9, <1>12
      <3> QED
        BY <3>1
    <2>2. KESYCAN_END_FLAG \in Nat
      BY DEF KESYCAN_END_FLAG
    <2>3. /\ f \in Seq(Nat) /\ Len(f) = n + 1
          /\ \A i \in 1 .. Len(g) : f[i] = g[i] /\ f[n + 1] = KESYCAN_END_FLAG
      BY <2>1, <2>2, AppendProperties
    <2>4. f[n + 1] = KESYCAN_END_FLAG
      BY <2>1, <2>2, AppendProperties
    <2>5. f \in [1 .. n + 1 -> Nat]
      BY <2>3, LenProperties
    <2> HIDE DEF f
    <2> QED
      BY <2>1, <2>3, <2>4, <2>5
  <1> HIDE DEF f
  <1>14. ASSUME NEW i \in 1 .. n
         PROVE  \E k \in down : f[i] = KeyStored(m, k) /\ Decode(f[i]) = KeyNumber(k)
    <2>1. f[i] = g[i] /\ g[i] \in S
      BY <1>12, <1>13
    <2> QED
      BY <1>7, <1>10, <2>1
  <1>15. \A i, j \in 1 .. n : Decode(f[i]) = Decode(f[j]) => i = j
    <2> SUFFICES ASSUME NEW i \in 1 .. n, NEW j \in 1 .. n, Decode(f[i]) = Decode(f[j]) PROVE i = j
      OBVIOUS
    <2>1. PICK k \in down : f[i] = KeyStored(m, k) /\ Decode(f[i]) = KeyNumber(k)
      BY <1>14
    <2>2. PICK l \in down : f[j] = KeyStored(m, l) /\ Decode(f[j]) = KeyNumber(l)
      BY <1>14
    <2>3. k = l
      BY <2>1, <2>2, NumbersDiffer
    <2>4. g[i] = g[j]
      BY <1>13, <2>1, <2>2, <2>3
    <2> QED
      BY <1>12, <2>4
  <1>16. \A x \in ks_pressed' : \E i \in 1 .. n : Decode(f[i]) = x
    <2> SUFFICES ASSUME NEW x \in ks_pressed' PROVE \E i \in 1 .. n : Decode(f[i]) = x
      OBVIOUS
    <2>1. PICK k \in down : x = KeyNumber(k)
      BY <1>6
    <2>2. PICK i \in 1 .. n : g[i] = KeyStored(m, k)
      BY <1>11, <1>12
    <2>3. f[i] = KeyStored(m, k)
      BY <1>13, <2>2
    <2> QED
      BY <1>7, <2>1, <2>3
  <1>17. Decode(f[n + 1]) = KESYCAN_END_FLAG
    <2>1. \A i \in DOMAIN g_keyscan_col : g_keyscan_col[i] # NoPin
      <3>1. DOMAIN m.col = 1 .. Len(m.col) /\ \A i \in 1 .. Len(m.col) : m.col[i] \in ScanPins
        BY MatrixType, LenProperties
      <3> QED
        BY <1>1, <3>1 DEF ScanPins
    <2> QED
      BY <1>13, <2>1, EndDecoded
  <1>18. \A v : Decode(v)' = Decode(v)
    BY <1>3 DEF Decode, UserColumn
  <1>19. /\ \A i \in 1 .. n : Decode(f[i]) \in ks_pressed'
         /\ KESYCAN_END_FLAG \notin ks_pressed'
    BY <1>6, <1>7, <1>14
  <1>20. /\ ks_got' = [i \in 1 .. 0 |-> Decode(f[i])']
         /\ ks_fifo' = Rest(f, n + 1, 0)
    <2>1. ks_fifo' = f
      BY <1>5 DEF f, g
    <2>2. \A i \in 1 .. n + 1 : 0 + i = i
      BY <1>12
    <2>3. (n + 1) - 0 = n + 1 /\ 1 .. 0 = {}
      BY <1>12
    <2> QED
      BY <1>3, <1>13, <2>1, <2>2, <2>3 DEF Rest
  <1>21. 0 \in 0 .. n + 1
    BY <1>12
  <1>22. PICK a, b \in {n, f} : a = n /\ b = f
    OBVIOUS
  <1>23. Scanned(a, b, 0)'
    BY <1>12, <1>13, <1>15, <1>16, <1>17, <1>18, <1>19, <1>20, <1>21, <1>22 DEF Scanned
  <1> QED
    BY <1>3, <1>23 DEF KsInv, keyscan_set_col

LEMMA NonEmptyRest ==
    ASSUME NEW end \in Nat, NEW f \in [1 .. end -> Nat], NEW q \in 0 .. end,
           Rest(f, end, q) # <<>>
    PROVE  /\ q + 1 \in 1 .. end /\ Head(Rest(f, end, q)) = f[q + 1]
           /\ Tail(Rest(f, end, q)) = Rest(f, end, q + 1)
  <1> DEFINE l == end - q
             rest == Rest(f, end, q)
  <1>1. l \in Nat
    OBVIOUS
  <1>2. \A i \in 1 .. l : q + i \in 1 .. end
    OBVIOUS
  <1>3. rest \in [1 .. l -> Nat] /\ \A i \in 1 .. l : rest[i] = f[q + i]
    BY <1>2 DEF Rest
  <1> HIDE DEF rest
  <1>4. rest \in Seq(Nat) /\ Len(rest) = l
    <2>1. \A k \in Nat : rest \in [1 .. k -> Nat] => rest \in Seq(Nat) /\ Len(rest) = k
      OBVIOUS
    <2> QED
      BY <1>1, <1>3, <2>1, Zenon
  <1>5. l # 0
    BY <1>1, <1>4, EmptySeq DEF rest
  <1>6. q + 1 \in 1 .. end /\ 1 \in 1 .. l
    BY <1>1, <1>5
  <1>7. Head(rest) = f[q + 1]
    BY <1>3, <1>4, <1>6, HeadTailProperties
  <1>8. /\ Tail(rest) \in Seq(Nat) /\ Len(Tail(rest)) = l - 1
        /\ \A i \in 1 .. l - 1 : Tail(rest)[i] = rest[i + 1]
    <2>1. rest # <<>>
      BY DEF rest
    <2> QED
      BY <1>4, <2>1, HeadTailProperties
  <1>9. Tail(rest) = [i \in 1 .. l - 1 |-> Tail(rest)[i]]
    BY <1>8, LenProperties
  <1>10. \A i \in 1 .. l - 1 : rest[i + 1] = f[(q + 1) + i]
    <2> SUFFICES ASSUME NEW i \in 1 .. l - 1 PROVE rest[i + 1] = f[(q + 1) + i]
      OBVIOUS
    <2>1. i + 1 \in 1 .. l /\ q + (i + 1) = (q + 1) + i
      BY <1>1
    <2> QED
      BY <1>3, <2>1
  <1>11. l - 1 = end - (q + 1)
    OBVIOUS
  <1> QED
    BY <1>6, <1>7, <1>8, <1>9, <1>10, <1>11 DEF Rest, rest

LEMMA OneMoreRead ==
    ASSUME NEW q \in Nat, NEW F(_), NEW s, s = [i \in 1 .. q |-> F(i)]
    PROVE  Append(s, F(q + 1)) = [i \in 1 .. q + 1 |-> F(i)]
  <1> DEFINE S == {F(i) : i \in 1 .. q + 1}
  <1>1. s \in [1 .. q -> S]
    OBVIOUS
  <1>2. s \in Seq(S) /\ Len(s) = q /\ F(q + 1) \in S
    BY <1>1
  <1> HIDE DEF S
  <1> QED
    BY <1>2, AppendProperties, LenProperties

LEMMA GetInv == ASSUME KsInv, keyscan_get_ks_value PROVE KsInv'
  <1>1. PICK n, f, q : Scanned(n, f, q)
    BY DEF KsInv, keyscan_get_ks_value
  <1>2. /\ n \in Nat /\ q \in 0 .. n + 1 /\ f \in [1 .. n + 1 -> Nat]
        /\ ks_got = [i \in 1 .. q |-> Decode(f[i])]
        /\ ks_fifo = Rest(f, n + 1, q)
    BY <1>1 DEF Scanned
  <1>3. /\ ks_fifo # <<>> /\ ks_got' = Append(ks_got, Decode(Head(ks_fifo)))
        /\ ks_fifo' = Tail(ks_fifo)
        /\ UNCHANGED <<row_sel, col_mask, g_keyscan_col, ks_pressed>>
    BY DEF keyscan_get_ks_value, Decode
  <1>4. /\ q + 1 \in 1 .. n + 1 /\ Head(ks_fifo) = f[q + 1]
        /\ Tail(ks_fifo) = Rest(f, n + 1, q + 1)
    <2>1. n + 1 \in Nat /\ Rest(f, n + 1, q) # <<>>
      BY <1>2, <1>3
    <2> QED
      BY <1>2, <2>1, NonEmptyRest
  <1>5. ks_got' = [i \in 1 .. q + 1 |-> Decode(f[i])]
    <2>1. ks_got' = Append(ks_got, Decode(f[q + 1]))
      BY <1>3, <1>4
    <2> DEFINE F(i) == Decode(f[i])
    <2>2. q \in Nat /\ ks_got = [i \in 1 .. q |-> F(i)]
      BY <1>2
    <2> HIDE DEF F
    <2>3. Append(ks_got, F(q + 1)) = [i \in 1 .. q + 1 |-> F(i)]
      BY <2>2, OneMoreRead
    <2> QED
      BY <2>1, <2>3 DEF F
  <1>6. \A v : Decode(v)' = Decode(v)
    BY <1>3 DEF Decode, UserColumn
  <1>7. q + 1 \in 0 .. n + 1
    BY <1>4
  <1>8. Scanned(n, f, q + 1)'
    BY <1>1, <1>3, <1>4, <1>5, <1>6, <1>7 DEF Scanned
  <1>9. col_mask' = keyscan_set_col(g_keyscan_col')
    BY <1>3 DEF KsInv
  <1> QED
    BY <1>8, <1>9 DEF KsInv, keyscan_set_col

LEMMA KsNextInv == ASSUME KsInv, KsNext \/ UNCHANGED ksVars PROVE KsInv'
  <1>1. CASE keyscan_set_martix
    BY <1>1, SetMatrixInv
  <1>2. CASE Scan
    BY <1>2, ScanInv
  <1>3. CASE keyscan_get_ks_value
    BY <1>3, GetInv
  <1>4. CASE UNCHANGED ksVars
    <2>1. UNCHANGED <<col_mask, g_keyscan_col, ks_fifo, ks_got, ks_pressed>>
      BY <1>4 DEF ksVars
    <2>2. \A v : Decode(v)' = Decode(v)
      BY <2>1 DEF Decode, UserColumn
    <2>3. \A n, f, q : Scanned(n, f, q) => Scanned(n, f, q)'
      BY <2>1, <2>2 DEF Scanned
    <2> QED
      BY <2>1, <2>3 DEF KsInv, keyscan_set_col
  <1> QED
    BY <1>1, <1>2, <1>3, <1>4 DEF KsNext

LEMMA AllDecoded == ASSUME KsInv PROVE KeysDecoded
  <1> SUFFICES ASSUME ks_fifo = <<>>, ks_got # <<>>
               PROVE  /\ Last(ks_got) = KESYCAN_END_FLAG
                      /\ Range(Front(ks_got)) = ks_pressed
                      /\ Len(ks_got) = Cardinality(ks_pressed) + 1
                      /\ KESYCAN_END_FLAG \notin ks_pressed
    BY DEF KeysDecoded
  <1>1. PICK n, f, q : Scanned(n, f, q)
    BY DEF KsInv
  <1> DEFINE key == [i \in 1 .. n |-> Decode(f[i])]
             S == ks_pressed \cup {KESYCAN_END_FLAG}
  <1>2. n \in Nat /\ q \in 0 .. n + 1 /\ f \in [1 .. n + 1 -> Nat]
    BY <1>1 DEF Scanned
  <1>3. q = n + 1
    <2>1. q + 1 \notin 1 .. n + 1 => q = n + 1
      BY <1>2
    <2>2. ks_fifo = Rest(f, n + 1, q)
      BY <1>1 DEF Scanned
    <2>3. DOMAIN ks_fifo = 1 .. (n + 1) - q
      BY <2>2 DEF Rest
    <2>4. DOMAIN <<>> = {}
      OBVIOUS
    <2>5. 1 .. (n + 1) - q = {}
      BY <2>3, <2>4
    <2>6. ~(1 <= (n + 1) - q)
      BY <1>2, <2>5
    <2> QED
      BY <1>2, <2>6
  <1>4. /\ key \in [1 .. n -> ks_pressed]
        /\ \A i, j \in 1 .. n : key[i] = key[j] => i = j
        /\ \A x \in ks_pressed : \E i \in 1 .. n : key[i] = x
        /\ KESYCAN_END_FLAG \notin ks_pressed
    BY <1>1 DEF Scanned
  <1>5. ks_got = [i \in 1 .. n + 1 |-> Decode(f[i])] /\ Decode(f[n + 1]) = KESYCAN_END_FLAG
    BY <1>1, <1>3 DEF Scanned
  <1>6. /\ \A i \in 1 .. n : ks_got[i] = key[i]
        /\ ks_got[n + 1] = KESYCAN_END_FLAG /\ ks_got \in [1 .. n + 1 -> S]
    BY <1>2, <1>4, <1>5
  <1> HIDE DEF key, S
  <1>7. ks_got \in Seq(S) /\ Len(ks_got) = n + 1
    BY <1>2, <1>6
  <1>8. Last(ks_got) = KESYCAN_END_FLAG
    BY <1>6, <1>7 DEF Last
  <1>9. Front(ks_got) = key
    <2>1. Len(ks_got) - 1 = n /\ 1 <= n + 1 /\ 1 \in 1 .. n + 1 /\ n \in 1 - 1 .. n + 1
      BY <1>2, <1>7
    <2>2. Front(ks_got) = SubSeq(ks_got, 1, n)
      BY <2>1 DEF Front
    <2>3. SubSeq(ks_got, 1, n) = [i \in 1 .. n |-> ks_got[i]]
      BY <1>2, <1>7, SMT
    <2>4. key = [i \in 1 .. n |-> key[i]]
      BY <1>4
    <2> QED
      BY <1>6, <2>2, <2>3, <2>4
  <1>10. Range(key) = ks_pressed
    BY <1>4 DEF Range
  <1>11. Cardinality(ks_pressed) = n
    <2>1. key \in Bijection(1 .. n, ks_pressed)
      BY <1>4 DEF Bijection, Injection, Surjection, IsInjective
    <2>2. IsFiniteSet(1 .. n) /\ Cardinality(1 .. n) = n
      <3>1. 1 \in Int /\ n \in Int
        BY <1>2
      <3>2. IsFiniteSet(1 .. n) /\ Cardinality(1 .. n) = IF 1 > n THEN 0 ELSE n - 1 + 1
        BY <3>1, FS_Interval
      <3> QED
        BY <1>2, <3>2
    <2> QED
      BY <2>1, <2>2, FS_Bijection DEF ExistsBijection
  <1> QED
    BY <1>4, <1>7, <1>8, <1>9, <1>10, <1>11

\* Whatever matrix is set and whichever two keys are down, what has been read
\* up to the end flag are those keys, each once and as the program numbers
\* them, and no key has the number of the end flag.
THEOREM KeysCorrect == DriversSpec => []KeysDecoded
  <1>1. DriversInit => KsInv
    BY KsInitInv DEF DriversInit
  <1>2. ASSUME [DriversNext]_driversVars PROVE KsNext \/ UNCHANGED ksVars
    BY <1>2 DEF DriversNext, driversVars
  <1>3. KsInv /\ [DriversNext]_driversVars => KsInv'
    BY <1>2, KsNextInv
  <1>4. KsInv => KeysDecoded
    BY AllDecoded
  <1> QED
    BY <1>1, <1>3, <1>4, PTL DEF DriversSpec

----------------------------------------------------------------------------
(* The UART's baud rate: rounding and stepping off a prime cost at most one *)
(* clock per bit, the division by the chosen width at most eight.           *)

LEMMA PositionMaxIs ==
    ASSUME NEW t, \A j \in Positions : D_dec(t, j) \in 0 .. 9
    PROVE  /\ PositionMax(t) \in Positions
           /\ \A j \in Positions : D_dec(t, j) <= D_dec(t, PositionMax(t))
  <1> DEFINE decs == {D_dec(t, j) : j \in Positions}
             all == {j \in Positions : \A k \in Positions : D_dec(t, k) <= D_dec(t, j)}
  <1>1. decs \in SUBSET (0 .. 9) /\ decs # {}
    BY DEF Positions
  <1>2. Max(decs) \in decs /\ \A d \in decs : d <= Max(decs)
    <2> HIDE DEF decs
    <2> QED
      BY <1>1, Largest
  <1>3. PICK j \in Positions : D_dec(t, j) = Max(decs)
    BY <1>2
  <1>4. j \in all
    BY <1>2, <1>3
  <1>5. all \in SUBSET (0 .. 12)
    BY DEF Positions
  <1>6. Max(all) \in all
    <2> HIDE DEF all
    <2> QED
      BY <1>4, <1>5, Largest
  <1>7. PositionMax(t) = Max(all)
    BY DEF PositionMax
  <1> QED
    BY <1>6, <1>7

LEMMA PositionMinIs == ASSUME NEW t PROVE PositionMin(t) \in Positions
  <1> DEFINE ok == {j \in Positions : D_int(t, j) # 1}
             all == {j \in ok : \A k \in ok : D_dec(t, j) <= D_dec(t, k)} \cup {0}
  <1>1. all \in SUBSET (0 .. 12) /\ all # {}
    BY DEF Positions
  <1>2. Max(all) \in 0 .. 12
    <2> HIDE DEF all
    <2> QED
      BY <1>1, Largest
  <1> QED
    BY <1>2 DEF PositionMin, Positions

LEMMA Quotients ==
    ASSUME NEW aim \in Nat, NEW s \in 4 .. 16, NEW int, NEW dec,
           int = (aim \div s) \div 10, dec = (aim \div s) % 10
    PROVE  /\ int \in Nat /\ dec \in 0 .. 9
           /\ \E r \in 0 .. s - 1 : aim = 10 * (s * int) + s * dec + r
  <1> DEFINE q == aim \div s
  <1>1. q \in Nat /\ aim % s \in 0 .. s - 1 /\ aim = s * q + (aim % s)
    BY DivMod
  <1>2. int \in Nat /\ dec \in 0 .. 9 /\ q = 10 * int + dec
    BY <1>1
  <1> HIDE DEF q
  <1>3. s * q = 10 * (s * int) + s * dec
    BY <1>1, <1>2
  <1> QED
    BY <1>1, <1>2, <1>3

\* How far the clocks per bit made are from those aimed for.
LEMMA RoundedDown ==
    ASSUME NEW s \in 4 .. 16, NEW dec \in 0 .. 4, NEW r \in 0 .. s - 1
    PROVE  s * dec + r \in 0 .. 80
  <1>1. \A i \in 4 .. 16 : \A j \in 0 .. 4 : i * j <= 64 /\ i * j \in Nat
    OBVIOUS
  <1> QED
    BY <1>1

LEMMA RoundedUp ==
    ASSUME NEW s \in 4 .. 16, NEW dec \in 5 .. 9, NEW r \in 0 .. s - 1
    PROVE  10 * s - (s * dec + r) \in 0 .. 80
  <1>1. 10 * s - s * dec = s * (10 - dec)
    OBVIOUS
  <1>2. \A i \in 4 .. 16 : \A j \in 1 .. 5 : i * j <= 80 /\ i * j \in Nat /\ i * j >= i
    OBVIOUS
  <1>3. s * (10 - dec) <= 80 /\ s * (10 - dec) \in Nat /\ s * (10 - dec) >= s
    BY <1>2
  <1> QED
    BY <1>1, <1>3

Made(u) == 10 * (u.bwpc + 1) * (u.div + 1)
Apart(x, y) == IF x > y THEN x - y ELSE y - x

LEMMA AimedFor ==
    ASSUME NEW t \in Nat
    PROVE  PrimeInt(t) \in Nat /\ Apart(10 * PrimeInt(t), t) <= 10
  <1> DEFINE n == t \div 10
             v == PrimeInt(t)
  <1>1. PICK d \in 0 .. 9 : t = 10 * n + d
    <2>1. \A x \in Nat : x % 10 \in 0 .. 9 /\ x = 10 * (x \div 10) + (x % 10)
      OBVIOUS
    <2> QED
      BY <2>1, Zenon
  <1>2. v \in {n, n + 1}
    BY DEF PrimeInt
  <1>3. n \in Nat
    OBVIOUS
  <1> HIDE DEF n, v
  <1>4. v \in Nat /\ Apart(10 * v, t) <= 10
    BY <1>1, <1>2, <1>3 DEF Apart
  <1> QED
    BY <1>4 DEF v

LEMMA BitLength ==
    ASSUME NEW t \in Nat
    PROVE  /\ Made(GetBetterBwpc(t)) \in Int
           /\ Apart(Made(GetBetterBwpc(t)), 10 * PrimeInt(t)) <= 80
  <1> DEFINE aim == 10 * PrimeInt(t)
             min == PositionMin(t)
             max == PositionMax(t)
  <1>1. aim \in Nat
    BY AimedFor
  <1>2. \A j \in Positions :
          /\ D_int(t, j) \in Nat /\ D_dec(t, j) \in 0 .. 9
          /\ \E r \in 0 .. (j + 4) - 1 :
               aim = 10 * ((j + 4) * D_int(t, j)) + (j + 4) * D_dec(t, j) + r
    <2> SUFFICES ASSUME NEW j \in Positions
                 PROVE  /\ D_int(t, j) \in Nat /\ D_dec(t, j) \in 0 .. 9
                        /\ \E r \in 0 .. (j + 4) - 1 :
                             aim = 10 * ((j + 4) * D_int(t, j)) + (j + 4) * D_dec(t, j) + r
      OBVIOUS
    <2>1. j + 4 \in 4 .. 16
      BY DEF Positions
    <2>2. D_int(t, j) = (aim \div (j + 4)) \div 10 /\ D_dec(t, j) = (aim \div (j + 4)) % 10
      BY DEF D_int, D_dec, Tenths
    <2> DEFINE s == j + 4
               int == D_int(t, j)
               dec == D_dec(t, j)
    <2> HIDE DEF aim
    <2>3. s \in 4 .. 16 /\ int = (aim \div s) \div 10 /\ dec = (aim \div s) % 10
      BY <2>1, <2>2
    <2> HIDE DEF s, int, dec
    <2>4. int \in Nat /\ dec \in 0 .. 9 /\ \E r \in 0 .. s - 1 : aim = 10 * (s * int) + s * dec + r
      BY <1>1, <2>3, Quotients
    <2> QED
      BY <2>4, Zenon DEF s, int, dec
  <1>3. max \in Positions /\ min \in Positions /\ D_dec(t, min) <= D_dec(t, max)
    BY <1>2, PositionMaxIs, PositionMinIs
  <1> HIDE DEF aim, min, max
  <1>4. ASSUME NEW j \in Positions, NEW up \in BOOLEAN, up <=> ~(D_dec(t, j) < 5)
        PROVE  Made(At_(t, j, up)) \in Int /\ Apart(Made(At_(t, j, up)), aim) <= 80
    <2> DEFINE s == j + 4
               int == D_int(t, j)
               dec == D_dec(t, j)
    <2>1. s \in 4 .. 16
      BY DEF Positions
    <2>2. int \in Nat /\ dec \in 0 .. 9
      BY <1>2
    <2>3. PICK r \in 0 .. s - 1 : aim = 10 * (s * int) + s * dec + r
      BY <1>2
    <2>4. /\ At_(t, j, up).bwpc + 1 = s
          /\ At_(t, j, up).div + 1 = IF up THEN int + 1 ELSE int
      BY <2>2 DEF At_, Positions
    <2> HIDE DEF s, int, dec
    <2>5. CASE up
      <3>1. dec \in 5 .. 9
        BY <1>4, <2>2, <2>5 DEF dec
      <3>2. Made(At_(t, j, up)) = 10 * s * (int + 1)
        BY <2>4, <2>5 DEF Made
      <3>3. 10 * s * (int + 1) = 10 * (s * int) + 10 * s /\ s * int \in Nat
        BY <2>1, <2>2
      <3>4. 10 * s - (s * dec + r) \in 0 .. 80 /\ s * dec \in Nat
        BY <2>1, <2>3, <3>1, RoundedUp
      <3> QED
        BY <1>1, <2>1, <2>3, <3>2, <3>3, <3>4 DEF Apart
    <2>6. CASE ~up
      <3>1. dec \in 0 .. 4
        BY <1>4, <2>2, <2>6 DEF dec
      <3>2. Made(At_(t, j, up)) = 10 * s * int
        BY <2>4, <2>6 DEF Made
      <3>3. 10 * s * int = 10 * (s * int) /\ s * int \in Nat
        BY <2>1, <2>2
      <3>4. s * dec + r \in 0 .. 80 /\ s * dec \in Nat
        BY <2>1, <2>3, <3>1, RoundedDown
      <3> QED
        BY <1>1, <2>1, <2>3, <3>2, <3>3, <3>4 DEF Apart
    <2> QED
      BY <2>5, <2>6
  <1> QED
    <2>1. GetBetterBwpc(t)
            = IF D_dec(t, min) < 5 /\ (D_dec(t, max) < 5 \/ D_dec(t, min) < 10 - D_dec(t, max))
                THEN At_(t, min, FALSE) ELSE At_(t, max, TRUE)
      BY DEF GetBetterBwpc, min, max
    <2>2. D_dec(t, min) \in 0 .. 9 /\ D_dec(t, max) \in 0 .. 9
      BY <1>2, <1>3
    <2>3. CASE D_dec(t, min) < 5 /\ (D_dec(t, max) < 5 \/ D_dec(t, min) < 10 - D_dec(t, max))
      <3>1. Made(At_(t, min, FALSE)) \in Int /\ Apart(Made(At_(t, min, FALSE)), aim) <= 80
        BY <1>3, <1>4, <2>3
      <3> QED
        BY <2>1, <2>3, <3>1 DEF aim
    <2>4. CASE ~(D_dec(t, min) < 5 /\ (D_dec(t, max) < 5 \/ D_dec(t, min) < 10 - D_dec(t, max)))
      <3>1. ~(D_dec(t, max) < 5)
        BY <1>3, <2>2, <2>4
      <3>2. Made(At_(t, max, TRUE)) \in Int /\ Apart(Made(At_(t, max, TRUE)), aim) <= 80
        BY <1>3, <1>4, <3>1
      <3> QED
        BY <2>1, <2>4, <3>2 DEF aim
    <2> QED
      BY <2>3, <2>4

LEMMA NearEnough ==
    ASSUME NEW t \in Nat, t >= 4500, NEW aim \in Nat, NEW made \in Int,
           Apart(aim, t) <= 10, Apart(made, aim) <= 80
    PROVE  Apart(made, t) <= 90 /\ 50 * Apart(made, t) <= t
  BY DEF Apart

UartInv == tenths = 0 \/ (tenths \in Nat /\ uart = GetBetterBwpc(tenths))

\* From 450 system clocks per bit on, whatever the baud rate and the clock, what
\* GetBetterBwpc settles for is within 2 % of what was asked for.
THEOREM BaudCorrect == DriversSpec => [](tenths >= 4500 => BaudAccurate)
  <1>1. DriversInit => UartInv
    BY DEF DriversInit, UartInit, UartInv
  <1>2. ASSUME UartInv, [DriversNext]_driversVars PROVE UartInv'
    <2>1. CASE uart_init_baudrate
      BY <2>1, UartAssumption DEF uart_init_baudrate, UartInv
    <2>2. CASE UNCHANGED uartVars
      BY <1>2, <2>2 DEF uartVars, UartInv
    <2> QED
      BY <1>2, <2>1, <2>2 DEF DriversNext, driversVars
  <1>3. ASSUME UartInv, tenths >= 4500 PROVE BaudAccurate
    <2>1. PICK t \in Nat : t = tenths
      BY <1>3 DEF UartInv
    <2>2. uart = GetBetterBwpc(t) /\ t >= 4500
      BY <1>3, <2>1 DEF UartInv
    <2> DEFINE made == Made(GetBetterBwpc(t))
               aim == 10 * PrimeInt(t)
    <2>3. aim \in Nat /\ Apart(aim, t) <= 10
      BY AimedFor
    <2>4. made \in Int /\ Apart(made, aim) <= 80
      BY BitLength
    <2> HIDE DEF made, aim
    <2>5. 50 * Apart(made, t) <= t
      BY <2>2, <2>3, <2>4, NearEnough
    <2>6. made = 10 * (uart.bwpc + 1) * (uart.div + 1)
      BY <2>2 DEF made, Made
    <2> QED
      BY <2>1, <2>5, <2>6 DEF BaudAccurate, Apart
  <1> QED
    BY <1>1, <1>2, <1>3, PTL DEF DriversSpec

----------------------------------------------------------------------------
(* The SPI master: at any point of a call, what the slave has, what is in   *)
(* the shift register and the FIFO and what is still to be fed make up the  *)
(* header and the bytes; the buffer and the receive FIFO hold what came in. *)

\* What the slave is to get, and the caller's buffer when k bytes are stored.
Header(c) == IF c.cmd = 0 THEN <<>> ELSE <<c.cmd, c.addr>>
BufferWith(k) == [i \in 0 .. MaxLen - 1 |-> IF i < k THEN i + 1 ELSE 0]

\* The slave has w; sh is being shifted, tx is in the FIFO and b still to come.
Sending(c, w, sh, tx, cnt, b) ==
    /\ w \in Seq(Nat) /\ sh \in Seq(Nat) /\ tx \in Seq(Nat) /\ b \in Seq(Nat)
    /\ cnt = Len(tx) + Len(b)
    /\ ((w \o sh) \o tx) \o b = Header(c) \o c.data

\* The caller's buffer d has the first k bytes, the FIFO rx the next ones.
Receiving(c, rx, cnt, next, d, k) ==
    /\ rx \in Seq(Nat) /\ cnt \in Nat /\ k \in Nat
    /\ cnt + Len(rx) + k = c.n /\ next = k + Len(rx) + 1
    /\ \A i \in 1 .. Len(rx) : rx[i] = k + i
    /\ d = BufferWith(k)

LEMMA Regroup ==
    ASSUME NEW x \in Seq(Nat), NEW y \in Seq(Nat), NEW z \in Seq(Nat)
    PROVE  (x \o y) \o z = x \o (y \o z)
  OBVIOUS

LEMMA HeadOver ==
    ASSUME NEW a \in Seq(Nat), NEW t \in Seq(Nat), t # <<>>
    PROVE  /\ <<Head(t)>> \in Seq(Nat) /\ Tail(t) \in Seq(Nat) /\ Len(Tail(t)) = Len(t) - 1
           /\ Len(t) \in Nat \ {0} /\ Head(t) \in Nat /\ Head(t) = t[1]
           /\ (a \o <<Head(t)>>) \o Tail(t) = a \o t
  <1>1. /\ Head(t) \in Nat /\ Tail(t) \in Seq(Nat) /\ Len(Tail(t)) = Len(t) - 1
        /\ \A i \in 1 .. Len(Tail(t)) : Tail(t)[i] = t[i + 1]
    BY HeadTailProperties
  <1>2. Len(t) \in Nat \ {0} /\ Head(t) = t[1]
    BY EmptySeq
  <1> DEFINE one == <<Head(t)>>
  <1>3. one \in Seq(Nat) /\ Len(one) = 1 /\ one[1] = t[1]
    BY <1>1, <1>2
  <1> HIDE DEF one
  <1>4. one \o Tail(t) = t
    <2>1. /\ one \o Tail(t) \in Seq(Nat) /\ Len(one \o Tail(t)) = Len(t)
          /\ \A i \in 1 .. Len(t) : (one \o Tail(t))[i] = IF i <= 1 THEN one[i] ELSE Tail(t)[i - 1]
      <3> DEFINE u == Tail(t)
      <3>1. u \in Seq(Nat) /\ Len(one) + Len(u) = Len(t)
        BY <1>1, <1>2, <1>3
      <3> HIDE DEF u
      <3>2. /\ one \o u \in Seq(Nat) /\ Len(one \o u) = Len(one) + Len(u)
            /\ \A i \in 1 .. Len(one) + Len(u) :
                 (one \o u)[i] = IF i <= Len(one) THEN one[i] ELSE u[i - Len(one)]
        BY <1>3, <3>1, ConcatProperties
      <3>3. Len(one) = 1
        BY <1>3
      <3> QED
        BY <3>1, <3>2, <3>3, Zenon DEF u
    <2>2. \A i \in 1 .. Len(t) : (one \o Tail(t))[i] = t[i]
      <3> SUFFICES ASSUME NEW i \in 1 .. Len(t) PROVE (one \o Tail(t))[i] = t[i]
        OBVIOUS
      <3>1. CASE i = 1
        BY <1>2, <1>3, <2>1, <3>1
      <3>2. CASE i # 1
        <4>1. i - 1 \in 1 .. Len(Tail(t)) /\ ~(i <= 1) /\ (i - 1) + 1 = i
          BY <1>1, <1>2, <3>2
        <4> QED
          BY <1>1, <2>1, <4>1
      <3> QED
        BY <3>1, <3>2
    <2> QED
      BY <2>1, <2>2, SeqEqual
  <1>5. (a \o one) \o Tail(t) = a \o t
    <2>1. (a \o one) \o Tail(t) = a \o (one \o Tail(t))
      <3>1. a \in Seq(Nat) /\ one \in Seq(Nat) /\ Tail(t) \in Seq(Nat)
        BY <1>1, <1>3
      <3> QED
        BY <3>1, Regroup, Zenon
    <2> QED
      BY <1>4, <2>1, Zenon
  <1> QED
    BY <1>1, <1>2, <1>3, <1>5 DEF one

\* A byte has been sent and the next one loaded, or there was none.
LEMMA NextLoaded ==
    ASSUME NEW c, NEW w, NEW sh, NEW tx, NEW cnt, NEW b, Sending(c, w, sh, tx, cnt, b)
    PROVE  /\ tx # <<>> => Sending(c, w \o sh, <<Head(tx)>>, Tail(tx), cnt - 1, b)
           /\ Sending(c, w \o sh, <<>>, tx, cnt, b)
  <1>1. /\ w \in Seq(Nat) /\ sh \in Seq(Nat) /\ tx \in Seq(Nat) /\ b \in Seq(Nat)
        /\ cnt = Len(tx) + Len(b)
        /\ ((w \o sh) \o tx) \o b = Header(c) \o c.data
    BY DEF Sending
  <1> DEFINE v == w \o sh
  <1>2. v \in Seq(Nat) /\ <<>> \in Seq(Nat) /\ v \o <<>> = v
    BY <1>1, ConcatProperties, EmptySeq, ConcatEmptySeq
  <1> HIDE DEF v
  <1>3. ASSUME tx # <<>> PROVE Sending(c, v, <<Head(tx)>>, Tail(tx), cnt - 1, b)
    <2>1. /\ <<Head(tx)>> \in Seq(Nat) /\ Tail(tx) \in Seq(Nat) /\ Len(Tail(tx)) = Len(tx) - 1
          /\ (v \o <<Head(tx)>>) \o Tail(tx) = v \o tx
      BY <1>1, <1>2, <1>3, HeadOver
    <2>2. cnt - 1 = Len(Tail(tx)) + Len(b)
      <3>1. Len(tx) \in Nat /\ Len(b) \in Nat
        BY <1>1, LenProperties
      <3> QED
        BY <1>1, <2>1, <3>1
    <2> QED
      BY <1>1, <1>2, <2>1, <2>2, Zenon DEF Sending, v
  <1>4. Sending(c, v, <<>>, tx, cnt, b)
    BY <1>1, <1>2, Zenon DEF Sending, v
  <1> QED
    BY <1>3, <1>4, Zenon DEF v

\* A byte has been put into the FIFO.
LEMMA NextFed ==
    ASSUME NEW c, NEW w, NEW sh, NEW tx, NEW cnt, NEW b, Sending(c, w, sh, tx, cnt, b), b # <<>>
    PROVE  Sending(c, w, sh, Append(tx, Head(b)), cnt, Tail(b))
  <1>1. /\ w \in Seq(Nat) /\ sh \in Seq(Nat) /\ tx \in Seq(Nat) /\ b \in Seq(Nat)
        /\ cnt = Len(tx) + Len(b)
        /\ ((w \o sh) \o tx) \o b = Header(c) \o c.data
    BY DEF Sending
  <1> DEFINE v == w \o sh
             a == v \o tx
             one == <<Head(b)>>
  <1>2. v \in Seq(Nat) /\ a \in Seq(Nat)
    BY <1>1, ConcatProperties
  <1> HIDE DEF v
  <1>3. /\ one \in Seq(Nat) /\ Tail(b) \in Seq(Nat) /\ Len(Tail(b)) = Len(b) - 1
        /\ Len(b) \in Nat /\ Head(b) \in Nat
        /\ (a \o one) \o Tail(b) = a \o b
    BY <1>1, <1>2, HeadOver
  <1>4. /\ Append(tx, Head(b)) = tx \o one /\ Append(tx, Head(b)) \in Seq(Nat)
        /\ Len(Append(tx, Head(b))) = Len(tx) + 1 /\ Len(tx) \in Nat
    BY <1>1, <1>3, AppendIsConcat, AppendProperties, LenProperties
  <1> HIDE DEF one
  <1>5. v \o (tx \o one) = a \o one
    <2>1. tx \in Seq(Nat) /\ v \in Seq(Nat) /\ one \in Seq(Nat)
      BY <1>1, <1>2, <1>3
    <2>2. (v \o tx) \o one = v \o (tx \o one)
      BY <2>1, Regroup, Zenon
    <2> QED
      BY <2>2
  <1>6. (v \o Append(tx, Head(b))) \o Tail(b) = Header(c) \o c.data
    BY <1>1, <1>3, <1>4, <1>5, Zenon DEF v
  <1>7. cnt = Len(Append(tx, Head(b))) + Len(Tail(b))
    BY <1>1, <1>3, <1>4
  <1> QED
    BY <1>1, <1>3, <1>4, <1>6, <1>7, Zenon DEF Sending, v

LEMMA NextReceived ==
    ASSUME NEW c, NEW rx, NEW cnt, NEW next, NEW d, NEW k, Receiving(c, rx, cnt, next, d, k), cnt > 0
    PROVE  Receiving(c, Append(rx, next), cnt - 1, next + 1, d, k)
  <1>1. /\ rx \in Seq(Nat) /\ cnt \in Nat /\ k \in Nat
        /\ cnt + Len(rx) + k = c.n /\ next = k + Len(rx) + 1
        /\ \A i \in 1 .. Len(rx) : rx[i] = k + i
        /\ d = BufferWith(k)
    BY DEF Receiving
  <1>2. Len(rx) \in Nat /\ next \in Nat
    BY <1>1, LenProperties
  <1> DEFINE more == Append(rx, next)
  <1>3. /\ more \in Seq(Nat) /\ Len(more) = Len(rx) + 1
        /\ \A i \in 1 .. Len(rx) : more[i] = rx[i]
        /\ more[Len(rx) + 1] = next
    BY <1>1, <1>2, AppendProperties
  <1> HIDE DEF more
  <1>4. \A i \in 1 .. Len(more) : more[i] = k + i
    <2> SUFFICES ASSUME NEW i \in 1 .. Len(more) PROVE more[i] = k + i
      OBVIOUS
    <2>1. CASE i \in 1 .. Len(rx)
      BY <1>1, <1>3, <2>1
    <2>2. CASE i = Len(rx) + 1
      BY <1>1, <1>2, <1>3, <2>2
    <2> QED
      BY <1>2, <1>3, <2>1, <2>2
  <1>5. cnt - 1 \in Nat /\ (cnt - 1) + Len(more) + k = c.n /\ next + 1 = k + Len(more) + 1
    BY <1>1, <1>2, <1>3
  <1> QED
    BY <1>1, <1>3, <1>4, <1>5, Zenon DEF Receiving, more

LEMMA NextStored ==
    ASSUME NEW c, c.n \in 0 .. MaxLen, NEW rx, NEW cnt, NEW next, NEW d, NEW k,
           Receiving(c, rx, cnt, next, d, k), rx # <<>>
    PROVE  /\ Receiving(c, Tail(rx), cnt, next, [d EXCEPT ![k] = Head(rx)], k + 1)
           /\ k < c.n
  <1>1. /\ rx \in Seq(Nat) /\ cnt \in Nat /\ k \in Nat
        /\ cnt + Len(rx) + k = c.n /\ next = k + Len(rx) + 1
        /\ \A i \in 1 .. Len(rx) : rx[i] = k + i
        /\ d = BufferWith(k)
    BY DEF Receiving
  <1>2. Len(rx) \in Nat \ {0} /\ c.n \in Nat /\ c.n <= MaxLen /\ MaxLen \in Nat
    BY <1>1, EmptySeq, SpiAssumption
  <1>3. /\ Tail(rx) \in Seq(Nat) /\ Len(Tail(rx)) = Len(rx) - 1 /\ Head(rx) = rx[1]
        /\ \A i \in 1 .. Len(Tail(rx)) : Tail(rx)[i] = rx[i + 1]
    BY <1>1, HeadTailProperties
  <1>4. Head(rx) = k + 1 /\ k < c.n /\ k \in 0 .. MaxLen - 1
    <2>1. 1 \in 1 .. Len(rx)
      BY <1>2
    <2> QED
      BY <1>1, <1>2, <1>3, <2>1
  <1>5. \A i \in 1 .. Len(Tail(rx)) : Tail(rx)[i] = (k + 1) + i
    <2> SUFFICES ASSUME NEW i \in 1 .. Len(Tail(rx)) PROVE Tail(rx)[i] = (k + 1) + i
      OBVIOUS
    <2>1. i + 1 \in 1 .. Len(rx) /\ k + (i + 1) = (k + 1) + i
      BY <1>1, <1>2, <1>3
    <2> QED
      BY <1>1, <1>3, <2>1
  <1>6. [d EXCEPT ![k] = Head(rx)] = BufferWith(k + 1)
    <2>1. \A i \in 0 .. MaxLen - 1 : i < k + 1 <=> i < k \/ i = k
      BY <1>1
    <2> QED
      BY <1>1, <1>2, <1>4, <2>1 DEF BufferWith
  <1>7. /\ cnt + Len(Tail(rx)) + (k + 1) = c.n /\ next = (k + 1) + Len(Tail(rx)) + 1 /\ k + 1 \in Nat
    BY <1>1, <1>2, <1>3
  <1> QED
    BY <1>1, <1>3, <1>4, <1>5, <1>6, <1>7, Zenon DEF Receiving

----------------------------------------------------------------------------

SpiRecord(r) ==
    r = [mode |-> r.mode, tx |-> r.tx, rx |-> r.rx, txcnt |-> r.txcnt, rxcnt |-> r.rxcnt,
         shift |-> r.shift, next |-> r.next, dma |-> r.dma, dmaAt |-> r.dmaAt, dmaN |-> r.dmaN]

LEMMA LoadedIs ==
    ASSUME NEW r, SpiRecord(r), NEW s, s = Loaded(r)
    PROVE  /\ SpiRecord(s)
           /\ s.mode = r.mode /\ s.rx = r.rx /\ s.rxcnt = r.rxcnt /\ s.next = r.next
           /\ s.dma = r.dma /\ s.dmaAt = r.dmaAt /\ s.dmaN = r.dmaN
           /\ \/ r.tx # <<>> /\ s.shift = <<Head(r.tx)>> /\ s.tx = Tail(r.tx) /\ s.txcnt = r.txcnt - 1
              \/ s.shift = <<>> /\ s.tx = r.tx /\ s.txcnt = r.txcnt
  <1>1. CASE r.txcnt > 0 /\ r.tx # <<>>
    <2>1. s = [r EXCEPT !.shift = <<Head(r.tx)>>, !.tx = Tail(@), !.txcnt = @ - 1]
      BY <1>1 DEF Loaded
    <2> QED
      BY <1>1, <2>1 DEF SpiRecord
  <1>2. CASE ~(r.txcnt > 0 /\ r.tx # <<>>)
    <2>1. s = [r EXCEPT !.shift = <<>>]
      BY <1>2 DEF Loaded
    <2> QED
      BY <2>1 DEF SpiRecord
  <1> QED
    BY <1>1, <1>2

LEMMA ReceivedIs ==
    ASSUME NEW r, SpiRecord(r), NEW s, s = Received(r)
    PROVE  /\ SpiRecord(s)
           /\ s.mode = r.mode /\ s.tx = r.tx /\ s.txcnt = r.txcnt /\ s.shift = r.shift
           /\ s.dma = r.dma /\ s.dmaAt = r.dmaAt /\ s.dmaN = r.dmaN
           /\ s.rx = Append(r.rx, r.next) /\ s.rxcnt = r.rxcnt - 1 /\ s.next = r.next + 1
  BY DEF SpiRecord, Received

LEMMA FedIs ==
    ASSUME NEW r, SpiRecord(r), NEW x, NEW s, s = [r EXCEPT !.tx = Append(@, x)]
    PROVE  /\ SpiRecord(s)
           /\ s.mode = r.mode /\ s.txcnt = r.txcnt /\ s.shift = r.shift
           /\ s.rx = r.rx /\ s.rxcnt = r.rxcnt /\ s.next = r.next
           /\ s.dma = r.dma /\ s.dmaAt = r.dmaAt /\ s.dmaN = r.dmaN
           /\ s.tx = Append(r.tx, x)
  BY DEF SpiRecord

LEMMA TakenIs ==
    ASSUME NEW r, SpiRecord(r), NEW s, s = [r EXCEPT !.rx = Tail(@)]
    PROVE  /\ SpiRecord(s)
           /\ s.mode = r.mode /\ s.tx = r.tx /\ s.txcnt = r.txcnt /\ s.shift = r.shift
           /\ s.rxcnt = r.rxcnt /\ s.next = r.next
           /\ s.dma = r.dma /\ s.dmaAt = r.dmaAt /\ s.dmaN = r.dmaN
           /\ s.rx = Tail(r.rx)
  BY DEF SpiRecord

LEMMA DmaFedIs ==
    ASSUME NEW r, SpiRecord(r), NEW x, NEW s, s = [r EXCEPT !.tx = Append(@, x), !.dma = Tail(@)]
    PROVE  /\ SpiRecord(s)
           /\ s.mode = r.mode /\ s.txcnt = r.txcnt /\ s.shift = r.shift
           /\ s.rx = r.rx /\ s.rxcnt = r.rxcnt /\ s.next = r.next
           /\ s.dma = Tail(r.dma) /\ s.dmaAt = r.dmaAt /\ s.dmaN = r.dmaN
           /\ s.tx = Append(r.tx, x)
  BY DEF SpiRecord

LEMMA DmaTakenIs ==
    ASSUME NEW r, SpiRecord(r), NEW s,
           s = [r EXCEPT !.rx = Tail(@), !.dmaAt = @ + 1, !.dmaN = @ - 1]
    PROVE  /\ SpiRecord(s)
           /\ s.mode = r.mode /\ s.tx = r.tx /\ s.txcnt = r.txcnt /\ s.shift = r.shift
           /\ s.rxcnt = r.rxcnt /\ s.next = r.next
           /\ s.dma = r.dma /\ s.dmaAt = r.dmaAt + 1 /\ s.dmaN = r.dmaN - 1
           /\ s.rx = Tail(r.rx)
  BY DEF SpiRecord

LEMMA DmaSetIs ==
    ASSUME NEW r, SpiRecord(r), NEW x, NEW n, NEW s, s = [r EXCEPT !.dma = x, !.dmaN = n]
    PROVE  /\ SpiRecord(s)
           /\ s.mode = r.mode /\ s.tx = r.tx /\ s.txcnt = r.txcnt /\ s.shift = r.shift
           /\ s.rx = r.rx /\ s.rxcnt = r.rxcnt /\ s.next = r.next
           /\ s.dma = x /\ s.dmaAt = r.dmaAt /\ s.dmaN = n
  BY DEF SpiRecord

LEMMA ClearedIs ==
    ASSUME NEW r, SpiRecord(r), NEW s, s = [r EXCEPT !.tx = <<>>, !.rx = <<>>]
    PROVE  SpiRecord(s)
  BY DEF SpiRecord

LEMMA StartIs ==
    ASSUME NEW x, NEW n, NEW m, NEW s,
           s = [SpiOff EXCEPT !.mode = m, !.txcnt = x, !.rxcnt = n]
    PROVE  /\ SpiRecord(s)
           /\ s.mode = m /\ s.tx = <<>> /\ s.txcnt = x /\ s.shift = <<>>
           /\ s.rx = <<>> /\ s.rxcnt = n /\ s.next = 1
           /\ s.dma = <<>> /\ s.dmaAt = 0 /\ s.dmaN = 0
  BY DEF SpiRecord, SpiOff

----------------------------------------------------------------------------

ReadOf(at, n) == Read(at, n, FALSE)

NoDma(r) == r.dma = <<>> /\ r.dmaN = 0

\* Where a call is when b is still to be fed and k bytes have been stored.
Doing(c, todo, r, b, k) ==
    \/ /\ todo = <<Write(b), Wait>>
       /\ b # <<>> /\ k = 0 /\ c.n = 0 /\ NoDma(r)
    \/ /\ todo = <<Write(b), ReadOf(0, c.n), Wait>>
       /\ b # <<>> /\ k = 0 /\ c.n > 0 /\ NoDma(r)
    \/ /\ todo = <<ReadOf(k, c.n - k), Wait>>
       /\ b = <<>> /\ k < c.n /\ NoDma(r)
    \/ todo = <<Wait>> /\ b = <<>> /\ k = c.n /\ NoDma(r)
    \/ todo = <<Dma(b, c.n)>> /\ k = 0 /\ NoDma(r) /\ r.dmaAt = 0
    \/ todo = <<>> /\ b = r.dma /\ r.dmaN = c.n - k /\ (r.dmaN > 0 => r.dmaAt = k)

Running(c, b, k) ==
    /\ spi.mode = "turns"
    /\ Sending(c, wire, spi.shift, spi.tx, spi.txcnt, b)
    /\ Receiving(c, spi.rx, spi.rxcnt, spi.next, rd_data, k)
    /\ Doing(c, spi_todo, spi, b, k)

\* A call has been made and nothing of it done.
Waiting(c) == spi_todo = Steps(c) /\ rd_data = NoData /\ ~(spi.dmaN > 0)

HalfDuplex(c) == c \in SpiCalls /\ c.f # "full_duplex"

SpiInv ==
    /\ SpiRecord(spi)
    /\ \/ spi_call.f = "full_duplex"
       \/ spi_call = NoSpiCall /\ spi_todo = <<>>
       \/ HalfDuplex(spi_call) /\ (Waiting(spi_call) \/ \E b, k : Running(spi_call, b, k))

LEMMA StepsAre ==
    ASSUME NEW c, HalfDuplex(c)
    PROVE  /\ Steps(c) # <<>>
           /\ Head(Steps(c)).do = "setup" /\ Head(Steps(c)).mode = "turns"
           /\ Head(Steps(c)).tx = Len(c.data) /\ Head(Steps(c)).rx = c.n
           /\ Head(Steps(c)).header = Header(c)
           /\ \/ Tail(Steps(c)) = <<Write(c.data), Wait>> /\ c.data # <<>> /\ c.n = 0
              \/ /\ Tail(Steps(c)) = <<Write(c.data), ReadOf(0, c.n), Wait>>
                 /\ c.data # <<>> /\ c.n > 0
              \/ Tail(Steps(c)) = <<ReadOf(0, c.n), Wait>> /\ c.data = <<>> /\ c.n > 0
              \/ Tail(Steps(c)) = <<Dma(c.data, c.n)>>
  <1>1. /\ c.f \in WritesByCpu => c.data # <<>>
        /\ c.f \in ReadsByCpu => c.n > 0
        /\ c.f \in OnlyWrites => c.n = 0
        /\ c.f \in OnlyReads => c.data = <<>>
        /\ c.cmd # 0 <=> c.f \in WithHeader
        /\ c.f \in WritesByCpu \cup ReadsByCpu \cup OnlyWrites \cup OnlyReads \cup {"write_read_dma"}
    <2>1. c \in SpiCalls /\ c.f # "full_duplex"
      BY DEF HalfDuplex
    <2>2. c.f \in WritesByCpu \cup ReadsByCpu \cup OnlyWrites \cup OnlyReads
                    \cup {"write_read_dma", "full_duplex"}
      BY <2>1, SpiAssumption
    <2> QED
      BY <2>1, <2>2, SpiAssumption
  <1>2. Header(c) = IF c.f \in WithHeader THEN <<c.cmd, c.addr>> ELSE <<>>
    BY <1>1 DEF Header
  <1>3. Len(<<>>) = 0
    OBVIOUS
  <1>4. CASE c.f = "write"
    <2> DEFINE s == Setup("turns", Len(c.data), 0, <<>>)
    <2>1. Steps(c) = <<s, Write(c.data), Wait>>
      BY <1>4 DEF Steps, spi_master_write
    <2>2. Header(c) = <<>> /\ c.n = 0 /\ c.data # <<>>
      BY <1>1, <1>2, <1>4 DEF WithHeader, OnlyWrites, WritesByCpu
    <2>3. /\ s.do = "setup" /\ s.mode = "turns" /\ s.rx = c.n /\ s.tx = Len(c.data)
          /\ s.header = Header(c)
      BY <1>3, <2>2 DEF Setup
    <2> HIDE DEF s
    <2> QED
      BY <2>1, <2>2, <2>3
  <1>5. CASE c.f = "write_read"
    <2> DEFINE s == Setup("turns", Len(c.data), c.n, <<>>)
    <2>1. Steps(c) = <<s, Write(c.data), ReadOf(0, c.n), Wait>>
      BY <1>5 DEF Steps, spi_master_write_read, ReadOf
    <2>2. Header(c) = <<>> /\ c.n > 0 /\ c.data # <<>>
      BY <1>1, <1>2, <1>5 DEF WithHeader, ReadsByCpu, WritesByCpu
    <2>3. /\ s.do = "setup" /\ s.mode = "turns" /\ s.rx = c.n /\ s.tx = Len(c.data)
          /\ s.header = Header(c)
      BY <1>3, <2>2 DEF Setup
    <2> HIDE DEF s
    <2> QED
      BY <2>1, <2>2, <2>3
  <1>6. CASE c.f = "write_plus"
    <2> DEFINE s == Setup("turns", Len(c.data), 0, <<c.cmd, c.addr>>)
    <2>1. Steps(c) = <<s, Write(c.data), Wait>>
      BY <1>6 DEF Steps, spi_master_write_plus
    <2>2. Header(c) = <<c.cmd, c.addr>> /\ c.n = 0 /\ c.data # <<>>
      BY <1>1, <1>2, <1>6 DEF WithHeader, OnlyWrites, WritesByCpu
    <2>3. /\ s.do = "setup" /\ s.mode = "turns" /\ s.rx = c.n /\ s.tx = Len(c.data)
          /\ s.header = Header(c)
      BY <1>3, <2>2 DEF Setup
    <2> HIDE DEF s
    <2> QED
      BY <2>1, <2>2, <2>3
  <1>7. CASE c.f = "read_plus"
    <2> DEFINE s == Setup("turns", 0, c.n, <<c.cmd, c.addr>>)
    <2>1. Steps(c) = <<s, ReadOf(0, c.n), Wait>>
      BY <1>7 DEF Steps, spi_master_read_plus, ReadOf
    <2>2. Header(c) = <<c.cmd, c.addr>> /\ c.n > 0 /\ c.data = <<>>
      BY <1>1, <1>2, <1>7 DEF WithHeader, OnlyReads, ReadsByCpu
    <2>3. /\ s.do = "setup" /\ s.mode = "turns" /\ s.rx = c.n /\ s.tx = Len(c.data)
          /\ s.header = Header(c)
      BY <1>3, <2>2 DEF Setup
    <2> HIDE DEF s
    <2> QED
      BY <2>1, <2>2, <2>3
  <1>8. CASE c.f = "write_dma"
    <2> DEFINE s == Setup("turns", Len(c.data), 0, <<>>)
    <2>1. Steps(c) = <<s, Dma(c.data, 0)>>
      BY <1>8 DEF Steps, spi_master_write_dma
    <2>2. Header(c) = <<>> /\ c.n = 0
      BY <1>1, <1>2, <1>8 DEF WithHeader, OnlyWrites
    <2>3. /\ s.do = "setup" /\ s.mode = "turns" /\ s.rx = c.n /\ s.tx = Len(c.data)
          /\ s.header = Header(c)
      BY <1>3, <2>2 DEF Setup
    <2> HIDE DEF s
    <2> QED
      BY <2>1, <2>2, <2>3
  <1>9. CASE c.f = "write_read_dma"
    <2> DEFINE s == Setup("turns", Len(c.data), c.n, <<>>)
    <2>1. Steps(c) = <<s, Dma(c.data, c.n)>>
      BY <1>9 DEF Steps, spi_master_write_read_dma
    <2>2. Header(c) = <<>>
      BY <1>1, <1>2, <1>9 DEF WithHeader
    <2>3. /\ s.do = "setup" /\ s.mode = "turns" /\ s.rx = c.n /\ s.tx = Len(c.data)
          /\ s.header = Header(c)
      BY <1>3, <2>2 DEF Setup
    <2> HIDE DEF s
    <2> QED
      BY <2>1, <2>2, <2>3
  <1>10. CASE c.f = "write_dma_plus"
    <2> DEFINE s == Setup("turns", Len(c.data), 0, <<c.cmd, c.addr>>)
    <2>1. Steps(c) = <<s, Dma(c.data, 0)>>
      BY <1>10 DEF Steps, spi_master_write_dma_plus
    <2>2. Header(c) = <<c.cmd, c.addr>> /\ c.n = 0
      BY <1>1, <1>2, <1>10 DEF WithHeader, OnlyWrites
    <2>3. /\ s.do = "setup" /\ s.mode = "turns" /\ s.rx = c.n /\ s.tx = Len(c.data)
          /\ s.header = Header(c)
      BY <1>3, <2>2 DEF Setup
    <2> HIDE DEF s
    <2> QED
      BY <2>1, <2>2, <2>3
  <1>11. CASE c.f = "read_dma_plus"
    <2> DEFINE s == Setup("turns", 0, c.n, <<c.cmd, c.addr>>)
    <2>1. Steps(c) = <<s, Dma(<<>>, c.n)>>
      BY <1>11 DEF Steps, spi_master_read_dma_plus
    <2>2. Header(c) = <<c.cmd, c.addr>> /\ c.data = <<>>
      BY <1>1, <1>2, <1>11 DEF WithHeader, OnlyReads
    <2>3. /\ s.do = "setup" /\ s.mode = "turns" /\ s.rx = c.n /\ s.tx = Len(c.data)
          /\ s.header = Header(c)
      BY <1>3, <2>2 DEF Setup
    <2> HIDE DEF s
    <2> QED
      BY <2>1, <2>2, <2>3
  <1> QED
    BY <1>1, <1>4, <1>5, <1>6, <1>7, <1>8, <1>9, <1>10, <1>11
       DEF WritesByCpu, ReadsByCpu, OnlyWrites, OnlyReads

----------------------------------------------------------------------------

\* Every step of the transfer leaves the hardware's record whole.
LEMMA RecordKept ==
    ASSUME SpiRecord(spi), SpiNext
    PROVE  SpiRecord(spi')
  <1>1. CASE SpiCall \/ SpiWait
    BY <1>1 DEF SpiCall, SpiWait
  <1>2. CASE SpiSetup
    BY <1>2 DEF SpiSetup, SpiRecord, SpiOff
  <1>3. CASE SpiDma
    BY <1>3, DmaSetIs, Zenon DEF SpiDma
  <1>4. CASE SpiWriteByte
    BY <1>4, FedIs, Zenon DEF SpiWriteByte
  <1>5. CASE SpiReadByte
    BY <1>5, ClearedIs, TakenIs, Zenon DEF SpiReadByte
  <1>6. CASE Load
    BY <1>6, LoadedIs, Zenon DEF Load
  <1>7. CASE Shift
    <2>1. SpiRecord(Received(spi))
      BY ReceivedIs, Zenon
    <2> QED
      BY <1>7, <2>1, LoadedIs, Zenon DEF Shift
  <1>8. CASE ShiftIn
    BY <1>8, ReceivedIs, Zenon DEF ShiftIn
  <1>9. CASE TxDma
    BY <1>9, DmaFedIs, Zenon DEF TxDma
  <1>10. CASE RxDma
    BY <1>10, DmaTakenIs, Zenon DEF RxDma
  <1> QED
    BY <1>1, <1>2, <1>3, <1>4, <1>5, <1>6, <1>7, <1>8, <1>9, <1>10 DEF SpiNext

\* The DMA left alone, the call is where it was.
LEMMA DoingKept ==
    ASSUME NEW c, NEW todo, NEW b, NEW k, NEW r, NEW s, Doing(c, todo, r, b, k),
           s.dma = r.dma, s.dmaAt = r.dmaAt, s.dmaN = r.dmaN
    PROVE  Doing(c, todo, s, b, k)
  BY DEF Doing, NoDma

\* What the first step of a call says of the rest.
LEMMA DoingAt ==
    ASSUME NEW c, NEW todo, NEW b, NEW k, NEW r, Doing(c, todo, r, b, k)
    PROVE  /\ todo # <<>> =>
                /\ Head(todo).do # "setup"
                /\ Head(todo).do = "write" =>
                     /\ b # <<>> /\ k = 0 /\ NoDma(r)
                     /\ \/ todo = <<Write(b), Wait>> /\ c.n = 0
                        \/ todo = <<Write(b), ReadOf(0, c.n), Wait>> /\ c.n > 0
                /\ Head(todo).do = "read" =>
                     todo = <<ReadOf(k, c.n - k), Wait>> /\ b = <<>> /\ k < c.n /\ NoDma(r)
                /\ Head(todo).do = "wait" =>
                     todo = <<Wait>> /\ b = <<>> /\ k = c.n /\ NoDma(r)
                /\ Head(todo).do = "dma" =>
                     todo = <<Dma(b, c.n)>> /\ k = 0 /\ NoDma(r) /\ r.dmaAt = 0
           /\ r.dma # <<>> \/ r.dmaN > 0 \/ todo = <<>> =>
                todo = <<>> /\ b = r.dma /\ r.dmaN = c.n - k /\ (r.dmaN > 0 => r.dmaAt = k)
  <1>1. CASE todo = <<Write(b), Wait>> /\ b # <<>> /\ k = 0 /\ c.n = 0 /\ NoDma(r)
    BY <1>1 DEF Write, Wait, NoDma
  <1>2. CASE /\ todo = <<Write(b), ReadOf(0, c.n), Wait>>
             /\ b # <<>> /\ k = 0 /\ c.n > 0 /\ NoDma(r)
    BY <1>2 DEF Write, ReadOf, Read, Wait, NoDma
  <1>3. CASE todo = <<ReadOf(k, c.n - k), Wait>> /\ b = <<>> /\ k < c.n /\ NoDma(r)
    BY <1>3 DEF ReadOf, Read, Wait, NoDma
  <1>4. CASE todo = <<Wait>> /\ b = <<>> /\ k = c.n /\ NoDma(r)
    BY <1>4 DEF Wait, NoDma
  <1>5. CASE todo = <<Dma(b, c.n)>> /\ k = 0 /\ NoDma(r) /\ r.dmaAt = 0
    BY <1>5 DEF Dma, NoDma
  <1>6. CASE todo = <<>> /\ b = r.dma /\ r.dmaN = c.n - k /\ (r.dmaN > 0 => r.dmaAt = k)
    BY <1>6
  <1> QED
    BY <1>1, <1>2, <1>3, <1>4, <1>5, <1>6, Zenon DEF Doing

\* A call all of whose steps are done: the DMA may still be moving bytes.
Idle(c, todo, b, k, r) ==
    todo = <<>> /\ b = r.dma /\ r.dmaN = c.n - k /\ (r.dmaN > 0 => r.dmaAt = k)

LEMMA DoingCases ==
    ASSUME NEW c, NEW todo, NEW b, NEW k, NEW r, Doing(c, todo, r, b, k)
    PROVE  \/ Head(todo).do \in {"write", "read", "wait"} /\ todo # <<>> /\ NoDma(r)
           \/ todo = <<Dma(b, c.n)>> /\ k = 0 /\ NoDma(r) /\ r.dmaAt = 0
           \/ Idle(c, todo, b, k, r)
  <1>1. CASE todo = <<Write(b), Wait>>
    BY <1>1 DEF Doing, Write, Wait, Dma, NoDma
  <1>2. CASE todo = <<Write(b), ReadOf(0, c.n), Wait>>
    BY <1>2 DEF Doing, Write, Wait, Dma, NoDma
  <1>3. CASE todo = <<ReadOf(k, c.n - k), Wait>>
    BY <1>3 DEF Doing, ReadOf, Read, Wait, Dma, NoDma
  <1>4. CASE todo = <<Wait>>
    BY <1>4 DEF Doing, Wait, Dma, NoDma
  <1> QED
    BY <1>1, <1>2, <1>3, <1>4, Zenon DEF Doing, Idle

LEMMA DoingDma ==
    ASSUME NEW c, NEW todo, NEW b, NEW k, NEW r, Doing(c, todo, r, b, k), todo # <<>>, Head(todo).do = "dma"
    PROVE  todo = <<Dma(b, c.n)>> /\ k = 0 /\ NoDma(r) /\ r.dmaAt = 0
  <1>1. CASE Head(todo).do \in {"write", "read", "wait"} /\ todo # <<>> /\ NoDma(r)
    BY <1>1 DEF NoDma
  <1>2. CASE todo = <<Dma(b, c.n)>> /\ k = 0 /\ NoDma(r) /\ r.dmaAt = 0
    BY <1>2 DEF NoDma
  <1>3. CASE Idle(c, todo, b, k, r)
    BY <1>3 DEF Idle
  <1>4. \/ Head(todo).do \in {"write", "read", "wait"} /\ todo # <<>> /\ NoDma(r)
        \/ todo = <<Dma(b, c.n)>> /\ k = 0 /\ NoDma(r) /\ r.dmaAt = 0
        \/ Idle(c, todo, b, k, r)
    BY DoingCases, Zenon
  <1> QED
    BY <1>1, <1>2, <1>3, <1>4, Zenon

LEMMA DoingIdle ==
    ASSUME NEW c, NEW todo, NEW b, NEW k, NEW r, Doing(c, todo, r, b, k),
           r.dma # <<>> \/ r.dmaN > 0 \/ todo = <<>>
    PROVE  Idle(c, todo, b, k, r)
  <1>1. CASE Head(todo).do \in {"write", "read", "wait"} /\ todo # <<>> /\ NoDma(r)
    BY <1>1 DEF NoDma
  <1>2. CASE todo = <<Dma(b, c.n)>> /\ k = 0 /\ NoDma(r) /\ r.dmaAt = 0
    BY <1>2 DEF NoDma
  <1>3. CASE Idle(c, todo, b, k, r)
    BY <1>3 DEF Idle
  <1>4. \/ Head(todo).do \in {"write", "read", "wait"} /\ todo # <<>> /\ NoDma(r)
        \/ todo = <<Dma(b, c.n)>> /\ k = 0 /\ NoDma(r) /\ r.dmaAt = 0
        \/ Idle(c, todo, b, k, r)
    BY DoingCases, Zenon
  <1> QED
    BY <1>1, <1>2, <1>3, <1>4, Zenon

----------------------------------------------------------------------------
(* A call in progress stays one, action by action.                         *)

LEMMA DmaRunning ==
    ASSUME NEW c, NEW b, NEW k, SpiRecord(spi), Running(c, b, k), SpiDma
    PROVE  Running(c, b, k)'
  <1>1. spi_todo # <<>> /\ Head(spi_todo).do = "dma"
    BY DEF SpiDma, At
  <1>2. spi_todo = <<Dma(b, c.n)>> /\ k = 0 /\ spi.dmaAt = 0
    <2>1. Doing(c, spi_todo, spi, b, k)
      BY DEF Running
    <2>2. spi_todo = <<Dma(b, c.n)>> /\ k = 0 /\ NoDma(spi) /\ spi.dmaAt = 0
      BY <1>1, <2>1, DoingDma, Zenon
    <2> QED
      BY <2>2
  <1>3. Head(spi_todo).bytes = b /\ Head(spi_todo).n = c.n /\ Tail(spi_todo) = <<>>
    BY <1>2 DEF Dma
  <1>4. spi' = [spi EXCEPT !.dma = b, !.dmaN = c.n] /\ spi_todo' = <<>>
    BY <1>3 DEF SpiDma
  <1>5. /\ spi'.mode = spi.mode /\ spi'.tx = spi.tx /\ spi'.txcnt = spi.txcnt
        /\ spi'.shift = spi.shift /\ spi'.rx = spi.rx /\ spi'.rxcnt = spi.rxcnt
        /\ spi'.next = spi.next /\ spi'.dma = b /\ spi'.dmaAt = spi.dmaAt /\ spi'.dmaN = c.n
    BY <1>4 DEF SpiRecord
  <1>6. c.n = c.n - k
    BY <1>2 DEF Running, Receiving
  <1>7. Doing(c, spi_todo', spi', b, k)
    BY <1>2, <1>4, <1>5, <1>6, Zenon DEF Doing
  <1> QED
    BY <1>5, <1>7 DEF Running, SpiDma

LEMMA ReadMoved ==
    ASSUME NEW a, NEW q, NEW m, a = [do |-> "read", at |-> a.at, n |-> a.n, clears |-> a.clears],
           NEW z, z = [a EXCEPT !.at = q, !.n = m]
    PROVE  z = [do |-> "read", at |-> q, n |-> m, clears |-> a.clears]
  <1>1. z = [do |-> z.do, at |-> z.at, n |-> z.n, clears |-> z.clears]
    OBVIOUS
  <1>2. z.do = "read" /\ z.at = q /\ z.n = m /\ z.clears = a.clears
    OBVIOUS
  <1> QED
    BY <1>1, <1>2

LEMMA WriteRunning ==
    ASSUME NEW c, NEW b, NEW k, SpiRecord(spi), Running(c, b, k), SpiWriteByte
    PROVE  Running(c, Tail(b), k)'
  <1>1. spi_todo # <<>> /\ Head(spi_todo).do = "write"
    BY DEF SpiWriteByte, At
  <1>2. /\ b # <<>> /\ k = 0 /\ NoDma(spi)
        /\ \/ spi_todo = <<Write(b), Wait>> /\ c.n = 0
           \/ spi_todo = <<Write(b), ReadOf(0, c.n), Wait>> /\ c.n > 0
    BY <1>1, DoingAt, Zenon DEF Running
  <1>3. Head(spi_todo).bytes = b
    <2>1. Head(spi_todo) = Write(b)
      BY <1>2
    <2> QED
      BY <2>1 DEF Write
  <1>4. /\ spi' = [spi EXCEPT !.tx = Append(@, Head(b))]
        /\ spi_todo' = IF Len(b) > 1 THEN [spi_todo EXCEPT ![1].bytes = Tail(b)] ELSE Tail(spi_todo)
    BY <1>3 DEF SpiWriteByte
  <1>5. /\ spi'.mode = spi.mode /\ spi'.txcnt = spi.txcnt /\ spi'.shift = spi.shift
        /\ spi'.rx = spi.rx /\ spi'.rxcnt = spi.rxcnt /\ spi'.next = spi.next
        /\ spi'.dma = spi.dma /\ spi'.dmaAt = spi.dmaAt /\ spi'.dmaN = spi.dmaN
        /\ spi'.tx = Append(spi.tx, Head(b))
    BY <1>4, FedIs
  <1>6. Sending(c, wire, spi.shift, Append(spi.tx, Head(b)), spi.txcnt, Tail(b))
    BY <1>2, NextFed, Zenon DEF Running
  <1> DEFINE t == Tail(b)
  <1>7. b \in Seq(Nat) /\ t \in Seq(Nat) /\ Len(b) \in Nat \ {0} /\ Len(t) = Len(b) - 1
    BY <1>2, HeadOver, EmptySeq DEF Running, Sending
  <1>8. Doing(c, spi_todo', spi', Tail(b), k)
    <2>1. NoDma(spi')
      BY <1>2, <1>5 DEF NoDma
    <2>2. CASE Len(b) > 1
      <3>1. t # <<>>
        <4> HIDE DEF t
        <4>1. Len(t) = Len(b) - 1 /\ Len(b) \in Nat
          BY <1>7, Zenon
        <4> QED
          BY <2>2, <4>1
      <3>2. spi_todo' = [spi_todo EXCEPT ![1].bytes = t]
        BY <1>4, <2>2
      <3> HIDE DEF t
      <3>3. \/ spi_todo' = <<Write(t), Wait>> /\ c.n = 0
            \/ spi_todo' = <<Write(t), ReadOf(0, c.n), Wait>> /\ c.n > 0
        BY <1>2, <3>2 DEF Write
      <3> QED
        BY <1>2, <2>1, <3>1, <3>3, Zenon DEF Doing, t
    <2>3. CASE ~(Len(b) > 1)
      <3>1. t = <<>>
        <4>1. Len(t) = 0 /\ t \in Seq(Nat)
          BY <1>7, <2>3
        <4> HIDE DEF t
        <4> QED
          BY <4>1, EmptySeq
      <3>2. \/ spi_todo' = <<Wait>> /\ k = c.n
            \/ spi_todo' = <<ReadOf(k, c.n - k), Wait>> /\ k < c.n
        <4>1. c.n - 0 = c.n /\ (c.n > 0 => 0 < c.n)
          BY DEF Running, Receiving
        <4>2. spi_todo' = Tail(spi_todo)
          BY <1>4, <2>3
        <4>3. CASE spi_todo = <<Write(b), Wait>> /\ c.n = 0
          BY <1>2, <4>2, <4>3
        <4>4. CASE spi_todo = <<Write(b), ReadOf(0, c.n), Wait>> /\ c.n > 0
          <5>1. spi_todo' = <<ReadOf(0, c.n), Wait>>
            BY <4>2, <4>4
          <5> QED
            BY <1>2, <4>1, <4>4, <5>1
        <4> QED
          BY <1>2, <4>3, <4>4
      <3> QED
        BY <2>1, <3>1, <3>2, Zenon DEF Doing
    <2> QED
      BY <2>2, <2>3
  <1> QED
    BY <1>5, <1>6, <1>8 DEF Running, SpiWriteByte

LEMMA ReadRunning ==
    ASSUME NEW c, HalfDuplex(c), NEW b, NEW k, SpiRecord(spi), Running(c, b, k), SpiReadByte
    PROVE  Running(c, b, k + 1)'
  <1>1. spi_todo # <<>> /\ Head(spi_todo).do = "read"
    BY DEF SpiReadByte, At
  <1>2. spi_todo = <<ReadOf(k, c.n - k), Wait>> /\ b = <<>> /\ k < c.n /\ NoDma(spi)
    BY <1>1, DoingAt, Zenon DEF Running
  <1>3. /\ Head(spi_todo).at = k /\ Head(spi_todo).n = c.n - k /\ ~Head(spi_todo).clears
        /\ Tail(spi_todo) = <<Wait>>
    BY <1>2 DEF ReadOf, Read
  <1>4. /\ spi.rx # <<>> /\ rd_data' = [rd_data EXCEPT ![k] = Head(spi.rx)]
        /\ spi' = [spi EXCEPT !.rx = Tail(@)]
        /\ spi_todo' = IF c.n - k > 1
                         THEN [spi_todo EXCEPT ![1].at = k + 1, ![1].n = (c.n - k) - 1]
                         ELSE <<Wait>>
    BY <1>3 DEF SpiReadByte
  <1>5. /\ spi'.mode = spi.mode /\ spi'.tx = spi.tx /\ spi'.txcnt = spi.txcnt
        /\ spi'.shift = spi.shift /\ spi'.rxcnt = spi.rxcnt /\ spi'.next = spi.next
        /\ spi'.dma = spi.dma /\ spi'.dmaAt = spi.dmaAt /\ spi'.dmaN = spi.dmaN
        /\ spi'.rx = Tail(spi.rx)
    BY <1>4, TakenIs, Zenon
  <1>6. c.n \in 0 .. MaxLen
    BY SpiAssumption DEF HalfDuplex
  <1>7. Receiving(c, Tail(spi.rx), spi.rxcnt, spi.next, rd_data', k + 1)
    BY <1>4, <1>6, NextStored, Zenon DEF Running
  <1>8. Doing(c, spi_todo', spi', b, k + 1)
    <2>1. NoDma(spi') /\ k \in Nat /\ c.n \in Nat
      BY <1>2, <1>5, <1>6, SpiAssumption DEF NoDma, Running, Receiving
    <2>2. CASE c.n - k > 1
      <3>1. (c.n - k) - 1 = c.n - (k + 1) /\ k + 1 < c.n
        BY <2>1, <2>2
      <3>2. spi_todo' = <<ReadOf(k + 1, c.n - (k + 1)), Wait>>
        <4> DEFINE n == c.n - k
                   m == c.n - (k + 1)
        <4>1. spi_todo' = [spi_todo EXCEPT ![1].at = k + 1, ![1].n = m]
          BY <1>4, <2>2, <3>1, Zenon
        <4>2. spi_todo = <<ReadOf(k, n), Wait>>
          BY <1>2
        <4> DEFINE a == ReadOf(k, n)
                   w == Wait
                   a2 == [a EXCEPT !.at = k + 1, !.n = m]
        <4>3. a2 = ReadOf(k + 1, m)
          <5> DEFINE q == k + 1
          <5> HIDE DEF m, n
          <5>1. PICK z : z = [a EXCEPT !.at = q, !.n = m]
            OBVIOUS
          <5>2. a = [do |-> "read", at |-> a.at, n |-> a.n, clears |-> a.clears]
            BY DEF ReadOf, Read
          <5>3. ReadOf(q, m) = [do |-> "read", at |-> q, n |-> m, clears |-> a.clears]
            BY DEF ReadOf, Read
          <5> HIDE DEF a, q
          <5>5. z = [do |-> "read", at |-> q, n |-> m, clears |-> a.clears]
            BY <5>1, <5>2, ReadMoved, Zenon
          <5> QED
            BY <5>1, <5>3, <5>5, Zenon DEF q
        <4>4. spi_todo' = <<a2, w>>
          <5>1. a = [do |-> "read", at |-> a.at, n |-> a.n, clears |-> a.clears]
            BY DEF ReadOf, Read
          <5> HIDE DEF m, n, w, a
          <5> QED
            BY <4>1, <4>2, <5>1 DEF a, w
        <4> QED
          BY <4>3, <4>4
      <3> QED
        BY <1>2, <2>1, <3>1, <3>2, Zenon DEF Doing
    <2>3. CASE ~(c.n - k > 1)
      <3>1. k + 1 = c.n
        BY <1>2, <2>1, <2>3
      <3> QED
        BY <1>2, <1>4, <2>1, <2>3, <3>1, Zenon DEF Doing
    <2> QED
      BY <2>2, <2>3
  <1> QED
    BY <1>5, <1>7, <1>8 DEF Running, SpiReadByte

LEMMA WaitRunning ==
    ASSUME NEW c, NEW b, NEW k, Running(c, b, k), SpiWait
    PROVE  Running(c, b, k)'
  <1>1. spi_todo # <<>> /\ Head(spi_todo).do = "wait"
    BY DEF SpiWait, At
  <1>2. spi_todo = <<Wait>> /\ b = <<>> /\ k = c.n /\ NoDma(spi)
    BY <1>1, DoingAt, Zenon DEF Running
  <1>3. spi_todo' = <<>> /\ UNCHANGED <<spi, wire, rd_data>>
    BY <1>2 DEF SpiWait
  <1>4. c.n - k = 0
    BY <1>2 DEF Running, Receiving
  <1>5. Doing(c, spi_todo', spi', b, k)
    BY <1>2, <1>3, <1>4 DEF Doing, NoDma
  <1> QED
    BY <1>3, <1>5 DEF Running

\* The shift register emptied and, when there is something in the FIFO, filled.
LEMMA LoadRunning ==
    ASSUME NEW c, NEW b, NEW k, SpiRecord(spi), Running(c, b, k),
           spi' = Loaded(spi), wire' = wire \o spi.shift, UNCHANGED <<spi_todo, rd_data>>
    PROVE  Running(c, b, k)'
  <1>1. /\ spi'.mode = spi.mode /\ spi'.rx = spi.rx /\ spi'.rxcnt = spi.rxcnt
        /\ spi'.next = spi.next
        /\ spi'.dma = spi.dma /\ spi'.dmaAt = spi.dmaAt /\ spi'.dmaN = spi.dmaN
        /\ \/ /\ spi.tx # <<>> /\ spi'.shift = <<Head(spi.tx)>> /\ spi'.tx = Tail(spi.tx)
              /\ spi'.txcnt = spi.txcnt - 1
           \/ spi'.shift = <<>> /\ spi'.tx = spi.tx /\ spi'.txcnt = spi.txcnt
    BY LoadedIs
  <1>2. Sending(c, wire', spi'.shift, spi'.tx, spi'.txcnt, b)
    <2>1. /\ spi.tx # <<>> =>
               Sending(c, wire \o spi.shift, <<Head(spi.tx)>>, Tail(spi.tx), spi.txcnt - 1, b)
          /\ Sending(c, wire \o spi.shift, <<>>, spi.tx, spi.txcnt, b)
      BY NextLoaded, Zenon DEF Running
    <2> QED
      BY <1>1, <2>1
  <1>3. Doing(c, spi_todo, spi', b, k)
    BY <1>1, DoingKept, Zenon DEF Running
  <1> QED
    BY <1>1, <1>2, <1>3 DEF Running

LEMMA ShiftInRunning ==
    ASSUME NEW c, NEW b, NEW k, SpiRecord(spi), Running(c, b, k), ShiftIn
    PROVE  Running(c, b, k)'
  <1>1. spi' = Received(spi) /\ spi.rxcnt > 0 /\ UNCHANGED <<spi_todo, wire, rd_data>>
    BY DEF ShiftIn
  <1>2. /\ spi'.mode = spi.mode /\ spi'.tx = spi.tx /\ spi'.txcnt = spi.txcnt
        /\ spi'.shift = spi.shift
        /\ spi'.dma = spi.dma /\ spi'.dmaAt = spi.dmaAt /\ spi'.dmaN = spi.dmaN
        /\ spi'.rx = Append(spi.rx, spi.next) /\ spi'.rxcnt = spi.rxcnt - 1
        /\ spi'.next = spi.next + 1
    BY <1>1, ReceivedIs, Zenon
  <1>3. Receiving(c, Append(spi.rx, spi.next), spi.rxcnt - 1, spi.next + 1, rd_data, k)
    BY <1>1, NextReceived, Zenon DEF Running
  <1>4. Doing(c, spi_todo, spi', b, k)
    BY <1>2, DoingKept, Zenon DEF Running
  <1> QED
    BY <1>1, <1>2, <1>3, <1>4 DEF Running

LEMMA TxDmaRunning ==
    ASSUME NEW c, NEW b, NEW k, SpiRecord(spi), Running(c, b, k), TxDma
    PROVE  Running(c, Tail(b), k)'
  <1>1. /\ spi_todo = <<>> /\ b = spi.dma /\ b # <<>> /\ spi.dmaN = c.n - k
        /\ spi.dmaN > 0 => spi.dmaAt = k
    <2>1. Doing(c, spi_todo, spi, b, k) /\ spi.dma # <<>>
      BY DEF Running, TxDma
    <2>2. Idle(c, spi_todo, b, k, spi)
      BY <2>1, DoingIdle, Zenon
    <2> QED
      BY <2>1, <2>2 DEF Idle
  <1>2. /\ spi' = [spi EXCEPT !.tx = Append(@, Head(b)), !.dma = Tail(@)]
        /\ UNCHANGED <<spi_todo, wire, rd_data>>
    BY <1>1 DEF TxDma
  <1>3. /\ spi'.mode = spi.mode /\ spi'.txcnt = spi.txcnt /\ spi'.shift = spi.shift
        /\ spi'.rx = spi.rx /\ spi'.rxcnt = spi.rxcnt /\ spi'.next = spi.next
        /\ spi'.dma = Tail(spi.dma) /\ spi'.dmaAt = spi.dmaAt /\ spi'.dmaN = spi.dmaN
        /\ spi'.tx = Append(spi.tx, Head(b))
    BY <1>2 DEF SpiRecord
  <1>4. Sending(c, wire, spi.shift, Append(spi.tx, Head(b)), spi.txcnt, Tail(b))
    BY <1>1, NextFed, Zenon DEF Running
  <1>5. Doing(c, spi_todo', spi', Tail(b), k)
    BY <1>1, <1>2, <1>3 DEF Doing
  <1> QED
    BY <1>2, <1>3, <1>4, <1>5 DEF Running

LEMMA RxDmaRunning ==
    ASSUME NEW c, HalfDuplex(c), NEW b, NEW k, SpiRecord(spi), Running(c, b, k), RxDma
    PROVE  Running(c, b, k + 1)'
  <1>1. spi_todo = <<>> /\ b = spi.dma /\ spi.dmaN = c.n - k /\ spi.dmaN > 0 /\ spi.dmaAt = k
    <2>1. Doing(c, spi_todo, spi, b, k) /\ spi.dmaN > 0
      BY DEF Running, RxDma
    <2>2. Idle(c, spi_todo, b, k, spi)
      BY <2>1, DoingIdle, Zenon
    <2> QED
      BY <2>1, <2>2 DEF Idle
  <1>2. /\ spi.rx # <<>> /\ rd_data' = [rd_data EXCEPT ![k] = Head(spi.rx)]
        /\ spi' = [spi EXCEPT !.rx = Tail(@), !.dmaAt = @ + 1, !.dmaN = @ - 1]
        /\ UNCHANGED <<spi_todo, wire>>
    BY <1>1 DEF RxDma
  <1>3. /\ spi'.mode = spi.mode /\ spi'.tx = spi.tx /\ spi'.txcnt = spi.txcnt
        /\ spi'.shift = spi.shift /\ spi'.rxcnt = spi.rxcnt /\ spi'.next = spi.next
        /\ spi'.dma = spi.dma /\ spi'.dmaAt = k + 1 /\ spi'.dmaN = (c.n - k) - 1
        /\ spi'.rx = Tail(spi.rx)
    BY <1>1, <1>2 DEF SpiRecord
  <1>4. c.n \in 0 .. MaxLen
    BY SpiAssumption DEF HalfDuplex
  <1>5. Receiving(c, Tail(spi.rx), spi.rxcnt, spi.next, rd_data', k + 1)
    BY <1>2, <1>4, NextStored, Zenon DEF Running
  <1>6. (c.n - k) - 1 = c.n - (k + 1)
    <2>1. k \in Nat /\ c.n \in Nat
      BY <1>4, SpiAssumption DEF Running, Receiving
    <2> QED
      BY <2>1
  <1>7. Doing(c, spi_todo', spi', b, k + 1)
    BY <1>1, <1>2, <1>3, <1>6 DEF Doing
  <1> QED
    BY <1>2, <1>3, <1>5, <1>7 DEF Running

\* Setting up takes a call from nothing done to all still to be sent.
LEMMA SetupRunning ==
    ASSUME NEW c, HalfDuplex(c), Waiting(c), SpiSetup
    PROVE  Running(c, c.data, 0)'
  <1>1. /\ Head(Steps(c)).mode = "turns"
        /\ Head(Steps(c)).tx = Len(c.data) /\ Head(Steps(c)).rx = c.n
        /\ Head(Steps(c)).header = Header(c)
        /\ \/ Tail(Steps(c)) = <<Write(c.data), Wait>> /\ c.data # <<>> /\ c.n = 0
           \/ /\ Tail(Steps(c)) = <<Write(c.data), ReadOf(0, c.n), Wait>>
              /\ c.data # <<>> /\ c.n > 0
           \/ Tail(Steps(c)) = <<ReadOf(0, c.n), Wait>> /\ c.data = <<>> /\ c.n > 0
           \/ Tail(Steps(c)) = <<Dma(c.data, c.n)>>
    BY StepsAre, Zenon
  <1>2. /\ spi' = [SpiOff EXCEPT !.mode = "turns", !.txcnt = Len(c.data), !.rxcnt = c.n]
        /\ wire' = Header(c) /\ spi_todo' = Tail(Steps(c)) /\ rd_data' = NoData
    BY <1>1 DEF SpiSetup, Waiting
  <1>3. /\ spi'.mode = "turns" /\ spi'.tx = <<>> /\ spi'.txcnt = Len(c.data) /\ spi'.shift = <<>>
        /\ spi'.rx = <<>> /\ spi'.rxcnt = c.n /\ spi'.next = 1
        /\ spi'.dma = <<>> /\ spi'.dmaAt = 0 /\ spi'.dmaN = 0
    BY <1>2 DEF SpiOff
  <1>4. /\ c.cmd \in Nat /\ c.addr \in Nat /\ c.data \in Seq(Nat) /\ c.n \in 0 .. MaxLen
        /\ MaxLen \in Nat
    BY SpiAssumption DEF HalfDuplex
  <1>5. Sending(c, Header(c), <<>>, <<>>, Len(c.data), c.data)
    <2> DEFINE h == Header(c)
    <2>1. h \in Seq(Nat)
      BY <1>4 DEF Header
    <2> HIDE DEF h
    <2>2. (h \o <<>>) \o <<>> = h /\ <<>> \in Seq(Nat) /\ Len(<<>>) = 0 /\ Len(c.data) \in Nat
      BY <2>1, <1>4
    <2>3. Len(c.data) = Len(<<>>) + Len(c.data)
      BY <2>2
    <2> QED
      BY <1>4, <2>1, <2>2, <2>3 DEF Sending, h
  <1>6. Receiving(c, <<>>, c.n, 1, NoData, 0)
    <2>1. NoData = BufferWith(0)
      <3>1. \A i \in 0 .. MaxLen - 1 : ~(i < 0)
        BY <1>4
      <3> QED
        BY <3>1 DEF NoData, BufferWith
    <2> QED
      BY <1>4, <2>1 DEF Receiving
  <1>7. Doing(c, spi_todo', spi', c.data, 0)
    <2>1. c.n - 0 = c.n /\ (c.n > 0 <=> 0 < c.n)
      BY <1>4
    <2> QED
      BY <1>1, <1>2, <1>3, <2>1 DEF Doing, NoDma
  <1> QED
    BY <1>2, <1>3, <1>5, <1>6, <1>7 DEF Running

\* A call in progress stays one.
LEMMA StaysRunning ==
    ASSUME NEW c, HalfDuplex(c), NEW b, NEW k, SpiRecord(spi), Running(c, b, k), SpiNext, ~SpiCall
    PROVE  \E b2, k2 : Running(c, b2, k2)'
  <1>1. ~SpiSetup
    <2>1. SpiSetup => spi_todo # <<>> /\ Head(spi_todo).do = "setup"
      BY DEF SpiSetup, At
    <2> QED
      BY <2>1, DoingAt, Zenon DEF Running
  <1>2. CASE Load
    <2>1. wire' = wire \o spi.shift /\ spi' = Loaded(spi) /\ UNCHANGED <<spi_todo, rd_data>>
      BY <1>2, ConcatEmptySeq DEF Load, Running, Sending
    <2> QED
      BY <2>1, LoadRunning, Zenon
  <1>3. CASE Shift
    <2>1. wire' = wire \o spi.shift /\ spi' = Loaded(spi) /\ UNCHANGED <<spi_todo, rd_data>>
      BY <1>3 DEF Shift, Running
    <2> QED
      BY <2>1, LoadRunning, Zenon
  <1>4. CASE SpiDma
    BY <1>4, DmaRunning, Zenon
  <1>5. CASE SpiWriteByte
    BY <1>5, WriteRunning, Zenon
  <1>6. CASE SpiReadByte
    BY <1>6, ReadRunning, Zenon
  <1>7. CASE SpiWait
    BY <1>7, WaitRunning, Zenon
  <1>8. CASE ShiftIn
    BY <1>8, ShiftInRunning, Zenon
  <1>9. CASE TxDma
    BY <1>9, TxDmaRunning, Zenon
  <1>10. CASE RxDma
    BY <1>10, RxDmaRunning, Zenon
  <1> QED
    BY <1>1, <1>2, <1>3, <1>4, <1>5, <1>6, <1>7, <1>8, <1>9, <1>10, Zenon DEF SpiNext

\* A call not begun has its setup first.
LEMMA StaysWaiting ==
    ASSUME NEW c, HalfDuplex(c), SpiRecord(spi), Waiting(c), SpiNext, ~SpiCall
    PROVE  Waiting(c)' \/ Running(c, c.data, 0)'
  <1>1. spi_todo # <<>> /\ Head(spi_todo).do = "setup" /\ ~(spi.dmaN > 0)
    BY StepsAre, Zenon DEF Waiting
  <1>2. \A v : (Steps(v))' = Steps(v)
    OBVIOUS
  <1>3. CASE SpiSetup
    BY <1>3, SetupRunning
  <1>4. CASE Load \/ Shift \/ ShiftIn \/ TxDma
    <2>1. spi'.dmaN = spi.dmaN
      <3>1. SpiRecord(Received(spi)) /\ Received(spi).dmaN = spi.dmaN
        BY ReceivedIs, Zenon
      <3>2. CASE Load
        BY <3>2, LoadedIs, Zenon DEF Load
      <3>3. CASE Shift
        BY <3>1, <3>3, LoadedIs, Zenon DEF Shift
      <3>4. CASE ShiftIn
        BY <3>1, <3>4, Zenon DEF ShiftIn
      <3>5. CASE TxDma
        BY <3>5 DEF TxDma, SpiRecord
      <3> QED
        BY <1>4, <3>2, <3>3, <3>4, <3>5
    <2>2. UNCHANGED <<spi_todo, rd_data>>
      BY <1>4 DEF Load, Shift, ShiftIn, TxDma
    <2> QED
      BY <1>1, <2>1, <2>2 DEF Waiting
  <1>5. ~SpiDma /\ ~SpiWriteByte /\ ~SpiReadByte /\ ~SpiWait /\ ~RxDma
    BY <1>1 DEF SpiDma, SpiWriteByte, SpiReadByte, SpiWait, At, RxDma
  <1> QED
    BY <1>3, <1>4, <1>5 DEF SpiNext

LEMMA SpiInitInv == SpiInit => SpiInv
  BY DEF SpiInit, SpiInv, SpiRecord, SpiOff

LEMMA SpiNextInv ==
    ASSUME SpiInv, SpiNext \/ UNCHANGED spiVars
    PROVE  SpiInv'
  <1>1. CASE UNCHANGED spiVars
    <2>1. \A c, b, k : Running(c, b, k)' <=> Running(c, b, k)
      BY <1>1 DEF Running, spiVars
    <2>2. \A c : Waiting(c)' <=> Waiting(c)
      BY <1>1 DEF Waiting, spiVars
    <2>3. spi_call' = spi_call /\ spi_todo' = spi_todo /\ spi' = spi
      BY <1>1 DEF spiVars
    <2>4. \A c : HalfDuplex(c)' <=> HalfDuplex(c)
      BY DEF HalfDuplex
    <2> QED
      BY <2>1, <2>2, <2>3, <2>4 DEF SpiInv
  <1>2. CASE SpiNext
    <2>1. SpiRecord(spi')
      BY <1>2, RecordKept DEF SpiInv
    <2>2. CASE SpiCall
      <3>1. PICK c \in SpiCalls : spi_call' = c /\ spi_todo' = Steps(c)
        BY <2>2 DEF SpiCall
      <3>2. c.f # "full_duplex" => HalfDuplex(c) /\ Waiting(c)'
        BY <2>2, <3>1 DEF HalfDuplex, SpiCall, Transferring, Waiting
      <3> QED
        BY <2>1, <3>1, <3>2 DEF SpiInv, HalfDuplex
    <2>3. CASE ~SpiCall
      <3>1. spi_call' = spi_call
        BY <1>2, <2>3 DEF SpiNext, SpiSetup, SpiDma, SpiWriteByte, SpiReadByte, SpiWait,
                          Load, Shift, ShiftIn, TxDma, RxDma
      <3>2. CASE spi_call.f = "full_duplex"
        BY <2>1, <3>1, <3>2 DEF SpiInv
      <3>3. CASE spi_call = NoSpiCall /\ spi_todo = <<>>
        <4>1. spi_todo' = <<>>
          BY <1>2, <2>3, <3>3 DEF SpiNext, SpiSetup, SpiDma, SpiWriteByte, SpiReadByte, SpiWait,
                             At, Load, Shift, ShiftIn, TxDma, RxDma
        <4> QED
          BY <2>1, <3>1, <3>3, <4>1 DEF SpiInv
      <3>4. CASE HalfDuplex(spi_call) /\ (Waiting(spi_call) \/ \E b, k : Running(spi_call, b, k))
        <4>1. PICK c : c = spi_call
          OBVIOUS
        <4>2. Waiting(c)' \/ \E b, k : Running(c, b, k)'
          <5>1. HalfDuplex(c) /\ SpiRecord(spi)
            BY <3>4, <4>1 DEF SpiInv
          <5>2. CASE Waiting(c)
            BY <1>2, <2>3, <5>1, <5>2, StaysWaiting, Zenon
          <5>3. CASE \E b, k : Running(c, b, k)
            BY <1>2, <2>3, <5>1, <5>3, StaysRunning, Zenon
          <5> QED
            BY <3>4, <4>1, <5>2, <5>3
        <4>3. HalfDuplex(c)
          BY <3>4, <4>1
        <4>4. spi_call' = c
          BY <3>1, <4>1
        <4> QED
          BY <2>1, <4>2, <4>3, <4>4 DEF SpiInv, HalfDuplex
      <3> QED
        BY <3>2, <3>3, <3>4 DEF SpiInv
    <2> QED
      BY <2>2, <2>3
  <1> QED
    BY <1>1, <1>2

\* Once nothing is left to do, send or receive, all has been sent and stored.
LEMMA AllTransferred ==
    ASSUME SpiInv, spi_call.f # "full_duplex"
    PROVE  SpiExchanged
  <1> SUFFICES ASSUME spi_todo = <<>>, ~Transferring, spi_call.f # "none"
               PROVE  /\ wire = Header(spi_call) \o spi_call.data
                      /\ \A i \in 0 .. MaxLen - 1 :
                            rd_data[i] = IF i < spi_call.n THEN i + 1 ELSE 0
    BY DEF SpiExchanged, Header
  <1>1. PICK c : c = spi_call
    OBVIOUS
  <1>2. HalfDuplex(c) /\ (Waiting(c) \/ \E b, k : Running(c, b, k))
    BY <1>1 DEF SpiInv, NoSpiCall
  <1>3. ~Waiting(c)
    BY <1>2, StepsAre DEF Waiting
  <1>4. PICK b, k : Running(c, b, k)
    BY <1>2, <1>3
  <1>5. b = spi.dma /\ spi.dmaN = c.n - k
    <2>1. Doing(c, spi_todo, spi, b, k)
      BY <1>4 DEF Running
    <2>2. Idle(c, spi_todo, b, k, spi)
      BY <2>1, DoingIdle, Zenon
    <2> QED
      BY <2>1, <2>2 DEF Idle
  <1>6. /\ spi.shift = <<>> /\ b = <<>> /\ ~(c.n - k > 0)
        /\ ~(spi.txcnt + spi.rxcnt > 0)
    BY <1>5 DEF Transferring, spi_is_busy
  <1>7. wire = Header(c) \o c.data
    <2>1. /\ wire \in Seq(Nat) /\ spi.tx \in Seq(Nat) /\ spi.txcnt = Len(spi.tx) + Len(b)
          /\ ((wire \o spi.shift) \o spi.tx) \o b = Header(c) \o c.data
          /\ spi.rxcnt \in Nat
      BY <1>4 DEF Running, Sending, Receiving
    <2>2. spi.tx = <<>>
      <3>1. Len(spi.tx) = 0
        BY <1>6, <2>1
      <3> QED
        BY <2>1, <3>1, EmptySeq
    <2> QED
      BY <1>6, <2>1, <2>2, ConcatEmptySeq
  <1>8. rd_data = BufferWith(c.n)
    <2>1. /\ spi.rx \in Seq(Nat) /\ spi.rxcnt \in Nat /\ k \in Nat
          /\ spi.rxcnt + Len(spi.rx) + k = c.n /\ rd_data = BufferWith(k)
      BY <1>4 DEF Running, Receiving
    <2>2. k = c.n
      BY <1>6, <2>1
    <2> QED
      BY <2>1, <2>2
  <1> QED
    BY <1>1, <1>7, <1>8 DEF BufferWith

\* Whatever calls but full duplex ones are made one after the other, with or
\* without DMA, with FIFOs of any size and however the bus, the CPU and the DMA
\* take turns: once a transfer has ended the slave has had its header and bytes
\* and the caller's buffer the bytes it sent, each once and in order.
THEOREM TransferCorrect == DriversSpec => [](spi_call.f # "full_duplex" => SpiExchanged)
  <1>1. DriversInit => SpiInv
    BY SpiInitInv DEF DriversInit
  <1>2. ASSUME [DriversNext]_driversVars PROVE SpiNext \/ UNCHANGED spiVars
    BY <1>2 DEF DriversNext, driversVars
  <1>3. SpiInv /\ [DriversNext]_driversVars => SpiInv'
    BY <1>2, SpiNextInv
  <1>4. SpiInv => (spi_call.f # "full_duplex" => SpiExchanged)
    BY AllTransferred
  <1> QED
    BY <1>1, <1>3, <1>4, PTL DEF DriversSpec

----------------------------------------------------------------------------
(* The pins.                                                               *)

LEMMA PinsAre ==
    /\ \A g, b : <<g, b>> \in Pins <=> g \in Groups /\ b \in PinsOf(g)
    /\ \A pin \in Pins : pin = <<pin[1], pin[2]>> /\ pin[1] \in Groups /\ pin[2] \in PinsOf(pin[1])
    /\ \A g : PinsOf(g) \subseteq 0 .. 7
  <1>1. \A g : PinsOf(g) \subseteq 0 .. 7
    BY DEF PinsOf
  <1> QED
    BY <1>1 DEF Pins

\* A register's number is that of the group, or of a few pins of one group.
LEMMA RegistersAre ==
    /\ \A k \in {"ie", "oen", "out", "ds", "func"}, g \in Groups : <<k, g>> \in Registers
    /\ <<"pe", GroupC>> \in Registers /\ <<"blc_rf_pa_cb", 0>> \in Registers
    /\ \A pin \in Pins : <<"mux", MuxAt(pin[1], pin[2])>> \in Registers
    /\ \A pin \in Pins : <<"pull", PullAt(pin[1], pin[2])>> \in Registers
  <1>1. \A pin \in Pins : pin[1] \in 0 .. 5 /\ pin[2] \in 0 .. 7 /\ (pin[1] = 4 => pin[2] <= 3)
                          /\ (pin[1] = 5 => pin[2] <= 1)
    BY PinsAre DEF Groups, PinsOf
  <1>2. \A g \in 0 .. 5, b \in 0 .. 7 :
           /\ (g = 4 => b <= 3) /\ (g = 5 => b <= 1) => MuxAt(g, b) \in 0 .. 37
           /\ (g = 4 => b <= 3) => PullAt(g, b) \in 14 .. 22
    <2> SUFFICES ASSUME NEW g \in 0 .. 5, NEW b \in 0 .. 7
                 PROVE  /\ (g = 4 => b <= 3) /\ (g = 5 => b <= 1) => MuxAt(g, b) \in 0 .. 37
                        /\ (g = 4 => b <= 3) => PullAt(g, b) \in 14 .. 22
      OBVIOUS
    <2>1. (g = 4 => b <= 3) /\ (g = 5 => b <= 1) => MuxAt(g, b) \in 0 .. 37
      BY DEF MuxAt
    <2>2. b \div 4 = IF b < 4 THEN 0 ELSE 1
      BY SMT
    <2>3. (g = 4 => b <= 3) => PullAt(g, b) \in 14 .. 22
      BY <2>2 DEF PullAt
    <2> QED
      BY <2>1, <2>3
  <1> QED
    BY <1>1, <1>2 DEF Registers, Groups, GroupC

\* No two pins share a multiplexer register, and only those of the flash's group
\* share the bits of a resistor with others.
LEMMA PinsApart ==
    \A x \in Pins, y \in Pins :
      /\ MuxAt(x[1], x[2]) = MuxAt(y[1], y[2]) => x = y
      /\ x[1] # 4 /\ y[1] # 4 /\ PullAt(x[1], x[2]) = PullAt(y[1], y[2]) /\ x[2] % 4 = y[2] % 4 => x = y
  <1>1. ASSUME NEW x \in Pins, NEW y \in Pins
        PROVE  /\ MuxAt(x[1], x[2]) = MuxAt(y[1], y[2]) => x = y
               /\ x[1] # 4 /\ y[1] # 4 /\ PullAt(x[1], x[2]) = PullAt(y[1], y[2])
                    /\ x[2] % 4 = y[2] % 4 => x = y
    <2> DEFINE g == x[1]
               b == x[2]
               h == y[1]
               d == y[2]
    <2>1. /\ g \in 0 .. 5 /\ b \in 0 .. 7 /\ (g = 4 => b <= 3) /\ (g = 5 => b <= 1)
          /\ h \in 0 .. 5 /\ d \in 0 .. 7 /\ (h = 4 => d <= 3) /\ (h = 5 => d <= 1)
          /\ g = h /\ b = d => x = y
      BY PinsAre DEF Groups, PinsOf
    <2> HIDE DEF g, b, h, d
    <2>2. MuxAt(g, b) = MuxAt(h, d) => g = h /\ b = d
      BY <2>1 DEF MuxAt
    <2>3. /\ b \div 4 = IF b < 4 THEN 0 ELSE 1
          /\ b % 4 = IF b < 4 THEN b ELSE b - 4
          /\ d \div 4 = IF d < 4 THEN 0 ELSE 1
          /\ d % 4 = IF d < 4 THEN d ELSE d - 4
      BY <2>1, SMT
    <2>4. g # 4 /\ h # 4 /\ PullAt(g, b) = PullAt(h, d) /\ b % 4 = d % 4 => g = h /\ b = d
      BY <2>1, <2>3 DEF PullAt
    <2> QED
      BY <2>1, <2>2, <2>4 DEF g, b, h, d
  <1> QED
    BY <1>1

----------------------------------------------------------------------------
(* What the steps a call has still to make leave in a bit.                 *)

IsRegs(regs) == regs = [r \in Registers |-> regs[r]]

\* Bit x of register r is, or will be once its step of L is made, 1 just if e is in S.
Due(L, regs, r, x, S, e) ==
    /\ \A k \in DOMAIN L : L[k].reg = r /\ Touches(L[k], x) => (x \in Written(L[k], regs[r]) <=> e \in S)
    /\ (\A k \in DOMAIN L : L[k].reg = r => ~Touches(L[k], x)) => (x \in regs[r] <=> e \in S)

\* No two steps change one bit.
Once(L) ==
    \A j, k \in DOMAIN L : j # k /\ L[j].reg = L[k].reg => \A x : Touches(L[j], x) => ~Touches(L[k], x)

AfterHead(L, regs) ==
    [regs EXCEPT ![Head(L).reg] = Written(Head(L), IF Head(L).rmw THEN regs[Head(L).reg] ELSE {})]

LEMMA WriteDue ==
    ASSUME NEW T, NEW L \in Seq(T), L # <<>>, Once(L), NEW regs, IsRegs(regs),
           Head(L).reg \in Registers,
           NEW r \in Registers, NEW x, NEW S, NEW e, Due(L, regs, r, x, S, e)
    PROVE  Due(Tail(L), AfterHead(L, regs), r, x, S, e)
  <1> DEFINE h == L[1]
             now == AfterHead(L, regs)
             M == Tail(L)
  <1>1. /\ 1 \in DOMAIN L /\ Head(L) = h
        /\ DOMAIN M = 1 .. Len(L) - 1
        /\ \A k \in DOMAIN M : k + 1 \in DOMAIN L /\ k + 1 # 1 /\ M[k] = L[k + 1]
        /\ \A k \in DOMAIN L : k # 1 => k - 1 \in DOMAIN M /\ M[k - 1] = L[k]
    OBVIOUS
  <1>2. h.reg \in Registers /\ now = [regs EXCEPT ![h.reg] = Written(h, IF h.rmw THEN regs[h.reg] ELSE {})]
    BY <1>1 DEF AfterHead
  <1>3. /\ now[h.reg] = Written(h, IF h.rmw THEN regs[h.reg] ELSE {})
        /\ \A q \in Registers : q # h.reg => now[q] = regs[q]
    BY <1>2 DEF IsRegs
  <1>4. now[h.reg] = Written(h, regs[h.reg])
    <2>1. CASE h.rmw
      BY <1>3, <2>1
    <2>2. CASE ~h.rmw
      BY <1>3, <2>2 DEF Written
    <2> QED
      BY <2>1, <2>2
  <1> HIDE DEF now, M, h
  <1>5. CASE r # h.reg
    <2>1. now[r] = regs[r]
      BY <1>3, <1>5
    <2>2. ASSUME NEW k \in DOMAIN M, M[k].reg = r, Touches(M[k], x)
          PROVE  x \in Written(M[k], now[r]) <=> e \in S
      BY <1>1, <2>1, <2>2 DEF Due
    <2>3. ASSUME \A k \in DOMAIN M : M[k].reg = r => ~Touches(M[k], x)
          PROVE  x \in now[r] <=> e \in S
      <3>1. \A k \in DOMAIN L : L[k].reg = r => ~Touches(L[k], x)
        BY <1>1, <1>5, <2>3 DEF h
      <3> QED
        BY <2>1, <3>1 DEF Due
    <2> QED
      BY <2>2, <2>3 DEF Due, M, now
  <1>6. CASE r = h.reg /\ Touches(h, x)
    <2>1. x \in now[r] <=> e \in S
      BY <1>1, <1>4, <1>6 DEF Due, h
    <2>2. ASSUME NEW k \in DOMAIN M, M[k].reg = r
          PROVE  ~Touches(M[k], x)
      <3>1. k + 1 \in DOMAIN L /\ k + 1 # 1 /\ M[k] = L[k + 1] /\ 1 \in DOMAIN L
        BY <1>1
      <3>2. L[1].reg = L[k + 1].reg /\ Touches(L[1], x)
        BY <1>6, <2>2, <3>1 DEF h
      <3> QED
        BY <3>1, <3>2 DEF Once
    <2> QED
      BY <2>1, <2>2 DEF Due, M, now
  <1>7. CASE r = h.reg /\ ~Touches(h, x)
    <2>1. x \in now[r] <=> x \in regs[r]
      BY <1>4, <1>7 DEF Touches, Written
    <2>2. ASSUME NEW k \in DOMAIN M, M[k].reg = r, Touches(M[k], x)
          PROVE  x \in Written(M[k], now[r]) <=> e \in S
      <3>1. x \in Written(M[k], now[r]) <=> x \in Written(M[k], regs[r])
        BY <2>1 DEF Written
      <3> QED
        BY <1>1, <2>2, <3>1 DEF Due
    <2>3. ASSUME \A k \in DOMAIN M : M[k].reg = r => ~Touches(M[k], x)
          PROVE  x \in now[r] <=> e \in S
      <3>1. \A k \in DOMAIN L : L[k].reg = r => ~Touches(L[k], x)
        BY <1>1, <1>7, <2>3 DEF h
      <3> QED
        BY <2>1, <3>1 DEF Due
    <2> QED
      BY <2>2, <2>3 DEF Due, M, now
  <1> QED
    BY <1>5, <1>6, <1>7

\* With nothing left to write the bit is as asked.
LEMMA NothingDue ==
    ASSUME NEW regs, NEW r, NEW x, NEW S, NEW e
    PROVE  Due(<<>>, regs, r, x, S, e) <=> (x \in regs[r] <=> e \in S)
  <1>1. DOMAIN <<>> = {}
    OBVIOUS
  <1> QED
    BY <1>1 DEF Due

LEMMA DueIf ==
    ASSUME NEW regs, NEW r, NEW x, NEW S, NEW e, x \in regs[r] <=> e \in S, NEW L, NEW S2,
           \A k \in DOMAIN L :
             L[k].flip = {} /\ (L[k].reg = r /\ Touches(L[k], x) => (x \in L[k].on <=> e \in S2)),
           (\A k \in DOMAIN L : L[k].reg = r => ~Touches(L[k], x)) => (e \in S2 <=> e \in S)
    PROVE  Due(L, regs, r, x, S2, e)
  <1>1. ASSUME NEW k \in DOMAIN L, L[k].reg = r, Touches(L[k], x)
        PROVE  x \in Written(L[k], regs[r]) <=> e \in S2
    BY <1>1 DEF Touches, Written
  <1>2. ASSUME \A k \in DOMAIN L : L[k].reg = r => ~Touches(L[k], x)
        PROVE  x \in regs[r] <=> e \in S2
    BY <1>2
  <1> QED
    BY <1>1, <1>2 DEF Due

----------------------------------------------------------------------------
(* The registers against the pins as asked.                                *)

BitKinds == {"out", "oen", "ie", "ds", "func"}

Ones(w, kind) ==
    CASE kind = "out" -> w.high [] kind = "oen" -> Pins \ w.driven [] kind = "ie" -> w.read
      [] kind = "ds" -> w.strong [] kind = "func" -> w.gpio

GpRecord(w) ==
    /\ w = [high |-> w.high, driven |-> w.driven, read |-> w.read, strong |-> w.strong, gpio |-> w.gpio,
            weak |-> w.weak, mux |-> w.mux, pull |-> w.pull]
    /\ w.high \subseteq Pins /\ w.driven \subseteq Pins /\ w.read \subseteq Pins
    /\ w.strong \subseteq Pins /\ w.gpio \subseteq Pins
    /\ \A y \in w.weak : y = <<GroupC, y[2]>>
    /\ w.mux = [pin \in Pins |-> w.mux[pin]]
    /\ w.pull \subseteq {pin \in Pins : pin[1] # 4} \X {0, 1}

BitsDue(L, regs, w) ==
    \A kind \in BitKinds, pin \in Pins : Due(L, regs, <<kind, pin[1]>>, pin[2], Ones(w, kind), pin)
PullDue(L, regs, w) ==
    \A pin \in Pins, j \in {0, 1} : pin[1] # 4 =>
      Due(L, regs, <<"pull", PullAt(pin[1], pin[2])>>, <<pin[2] % 4, j>>, w.pull, <<pin, j>>)
WeakDue(L, regs, w) == \A x : Due(L, regs, <<"pe", GroupC>>, x, w.weak, <<GroupC, x>>)
MuxDue(L, regs, w) ==
    \A pin \in Pins : \A x : Due(L, regs, <<"mux", MuxAt(pin[1], pin[2])>>, x, {w.mux[pin]}, x)
AllDue(L, regs, w) == BitsDue(L, regs, w) /\ PullDue(L, regs, w) /\ WeakDue(L, regs, w) /\ MuxDue(L, regs, w)

\* A multiplexer is written first, the callback switched on last.
Ordered(L) ==
    /\ \A k \in DOMAIN L : L[k].reg[1] = "mux" => k = 1
    /\ \A k \in DOMAIN L : L[k].reg = <<"blc_rf_pa_cb", 0>> => k = Len(L)

GoodCall(L, regs, w) ==
    /\ \E T : L \in Seq(T)
    /\ \A k \in DOMAIN L : L[k].reg \in Registers
    /\ Once(L) /\ Ordered(L) /\ GpRecord(w) /\ AllDue(L, regs, w)

LEMMA AllWriteDue ==
    ASSUME NEW T, NEW L \in Seq(T), L # <<>>, Once(L), NEW regs, IsRegs(regs),
           Head(L).reg \in Registers, NEW w, AllDue(L, regs, w)
    PROVE  AllDue(Tail(L), AfterHead(L, regs), w)
  <1> DEFINE M == Tail(L)
             now == AfterHead(L, regs)
  <1>1. \A r \in Registers : \A x, S, e : Due(L, regs, r, x, S, e) => Due(M, now, r, x, S, e)
    BY WriteDue
  <1>2. /\ \A kind \in BitKinds, pin \in Pins : <<kind, pin[1]>> \in Registers
        /\ <<"pe", GroupC>> \in Registers
        /\ \A pin \in Pins : <<"mux", MuxAt(pin[1], pin[2])>> \in Registers
        /\ \A pin \in Pins : <<"pull", PullAt(pin[1], pin[2])>> \in Registers
    BY RegistersAre, PinsAre DEF BitKinds
  <1> HIDE DEF M, now
  <1>3. BitsDue(M, now, w)
    BY <1>1, <1>2, Zenon DEF AllDue, BitsDue
  <1>4. PullDue(M, now, w)
    BY <1>1, <1>2, Zenon DEF AllDue, PullDue
  <1>5. WeakDue(M, now, w)
    BY <1>1, <1>2, Zenon DEF AllDue, WeakDue
  <1>6. MuxDue(M, now, w)
    BY <1>1, <1>2, Zenon DEF AllDue, MuxDue
  <1> QED
    BY <1>3, <1>4, <1>5, <1>6 DEF AllDue, M, now

\* Between two calls.
LEMMA NowDue ==
    ASSUME NEW regs, NEW w
    PROVE  AllDue(<<>>, regs, w) <=>
             /\ \A kind \in BitKinds, pin \in Pins : pin[2] \in regs[<<kind, pin[1]>>] <=> pin \in Ones(w, kind)
             /\ \A pin \in Pins, j \in {0, 1} : pin[1] # 4 =>
                  (<<pin[2] % 4, j>> \in regs[<<"pull", PullAt(pin[1], pin[2])>>] <=> <<pin, j>> \in w.pull)
             /\ \A x : x \in regs[<<"pe", GroupC>>] <=> <<GroupC, x>> \in w.weak
             /\ \A pin \in Pins : \A x : x \in regs[<<"mux", MuxAt(pin[1], pin[2])>>] <=> x \in {w.mux[pin]}
  <1>1. \A r, x, S, e : Due(<<>>, regs, r, x, S, e) <=> (x \in regs[r] <=> e \in S)
    BY NothingDue
  <1>2. BitsDue(<<>>, regs, w) <=>
          \A kind \in BitKinds, pin \in Pins : pin[2] \in regs[<<kind, pin[1]>>] <=> pin \in Ones(w, kind)
    BY <1>1 DEF BitsDue
  <1>3. PullDue(<<>>, regs, w) <=>
          \A pin \in Pins, j \in {0, 1} : pin[1] # 4 =>
            (<<pin[2] % 4, j>> \in regs[<<"pull", PullAt(pin[1], pin[2])>>] <=> <<pin, j>> \in w.pull)
    BY <1>1 DEF PullDue
  <1>4. WeakDue(<<>>, regs, w) <=> \A x : x \in regs[<<"pe", GroupC>>] <=> <<GroupC, x>> \in w.weak
    BY <1>1 DEF WeakDue
  <1>5. MuxDue(<<>>, regs, w) <=>
          \A pin \in Pins : \A x : x \in regs[<<"mux", MuxAt(pin[1], pin[2])>>] <=> x \in {w.mux[pin]}
    BY <1>1 DEF MuxDue
  <1> QED
    BY <1>2, <1>3, <1>4, <1>5 DEF AllDue

\* Whatever a call does to other registers, these are as they were.
LEMMA BitsKept ==
    ASSUME NEW regs, NEW w, NEW w2, AllDue(<<>>, regs, w), NEW L,
           \A k \in DOMAIN L : L[k].reg[1] \notin BitKinds,
           \A kind \in BitKinds : Ones(w2, kind) = Ones(w, kind)
    PROVE  BitsDue(L, regs, w2)
  <1> SUFFICES ASSUME NEW kind \in BitKinds, NEW pin \in Pins
               PROVE  Due(L, regs, <<kind, pin[1]>>, pin[2], Ones(w2, kind), pin)
    BY DEF BitsDue
  <1> DEFINE r == <<kind, pin[1]>>
  <1>1. pin[2] \in regs[r] <=> pin \in Ones(w, kind)
    BY NowDue
  <1>2. \A k \in DOMAIN L : L[k].reg # r
    OBVIOUS
  <1> HIDE DEF r
  <1>3. Due(L, regs, r, pin[2], Ones(w2, kind), pin)
    BY <1>1, <1>2 DEF Due
  <1> QED
    BY <1>3 DEF r

LEMMA PullKept ==
    ASSUME NEW regs, NEW w, NEW w2, AllDue(<<>>, regs, w), NEW L,
           \A k \in DOMAIN L : L[k].reg[1] # "pull", w2.pull = w.pull
    PROVE  PullDue(L, regs, w2)
  <1> SUFFICES ASSUME NEW pin \in Pins, NEW j \in {0, 1}, pin[1] # 4
               PROVE  Due(L, regs, <<"pull", PullAt(pin[1], pin[2])>>, <<pin[2] % 4, j>>, w2.pull, <<pin, j>>)
    BY DEF PullDue
  <1> DEFINE r == <<"pull", PullAt(pin[1], pin[2])>>
             x == <<pin[2] % 4, j>>
             e == <<pin, j>>
  <1>1. x \in regs[r] <=> e \in w.pull
    BY NowDue
  <1>2. \A k \in DOMAIN L : L[k].reg # r
    OBVIOUS
  <1> HIDE DEF r, x, e
  <1>3. Due(L, regs, r, x, w2.pull, e)
    BY <1>1, <1>2 DEF Due
  <1> QED
    BY <1>3 DEF r, x, e

LEMMA WeakKept ==
    ASSUME NEW regs, NEW w, NEW w2, AllDue(<<>>, regs, w), NEW L,
           \A k \in DOMAIN L : L[k].reg[1] # "pe", w2.weak = w.weak
    PROVE  WeakDue(L, regs, w2)
  <1> SUFFICES ASSUME NEW x PROVE Due(L, regs, <<"pe", GroupC>>, x, w2.weak, <<GroupC, x>>)
    BY DEF WeakDue
  <1> DEFINE r == <<"pe", GroupC>>
  <1>1. x \in regs[r] <=> <<GroupC, x>> \in w.weak
    BY NowDue
  <1>2. \A k \in DOMAIN L : L[k].reg # r
    OBVIOUS
  <1> HIDE DEF r
  <1>3. Due(L, regs, r, x, w2.weak, <<GroupC, x>>)
    BY <1>1, <1>2 DEF Due
  <1> QED
    BY <1>3 DEF r

LEMMA MuxKept ==
    ASSUME NEW regs, NEW w, NEW w2, AllDue(<<>>, regs, w), NEW L,
           \A k \in DOMAIN L : L[k].reg[1] # "mux", w2.mux = w.mux
    PROVE  MuxDue(L, regs, w2)
  <1> SUFFICES ASSUME NEW pin \in Pins, NEW x
               PROVE  Due(L, regs, <<"mux", MuxAt(pin[1], pin[2])>>, x, {w2.mux[pin]}, x)
    BY DEF MuxDue
  <1> DEFINE r == <<"mux", MuxAt(pin[1], pin[2])>>
  <1>1. x \in regs[r] <=> x \in {w.mux[pin]}
    BY NowDue
  <1>2. \A k \in DOMAIN L : L[k].reg # r
    OBVIOUS
  <1> HIDE DEF r
  <1>3. Due(L, regs, r, x, {w2.mux[pin]}, x)
    BY <1>1, <1>2 DEF Due
  <1> QED
    BY <1>3 DEF r

\* The list of a call, each of whose steps sets or clears bits, is right when every
\* bit it touches ends as asked and the others are as before.
LEMMA BitsSet ==
    ASSUME NEW regs, NEW w, NEW w2, AllDue(<<>>, regs, w), NEW L, \A k \in DOMAIN L : L[k].flip = {},
           \A kind \in BitKinds, pin \in Pins :
             /\ \A k \in DOMAIN L : L[k].reg = <<kind, pin[1]>> /\ Touches(L[k], pin[2]) =>
                  (pin[2] \in L[k].on <=> pin \in Ones(w2, kind))
             /\ (\A k \in DOMAIN L : L[k].reg = <<kind, pin[1]>> => ~Touches(L[k], pin[2])) =>
                  (pin \in Ones(w2, kind) <=> pin \in Ones(w, kind))
    PROVE  BitsDue(L, regs, w2)
  <1> SUFFICES ASSUME NEW kind \in BitKinds, NEW pin \in Pins
               PROVE  Due(L, regs, <<kind, pin[1]>>, pin[2], Ones(w2, kind), pin)
    BY DEF BitsDue
  <1>1. pin[2] \in regs[<<kind, pin[1]>>] <=> pin \in Ones(w, kind)
    BY NowDue
  <1> QED
    BY <1>1, DueIf

\* A list of one step.
LEMMA OneStep ==
    ASSUME NEW s, s.reg \in Registers, NEW regs, NEW w2, GpRecord(w2), AllDue(<<s>>, regs, w2)
    PROVE  GoodCall(<<s>>, regs, w2)
  <1> DEFINE L == <<s>>
  <1>1. DOMAIN L = {1} /\ L[1] = s /\ Len(L) = 1 /\ L \in Seq({s}) /\ AllDue(L, regs, w2)
    OBVIOUS
  <1> HIDE DEF L
  <1>2. Once(L) /\ Ordered(L) /\ \A k \in DOMAIN L : L[k].reg \in Registers
    BY <1>1 DEF Once, Ordered
  <1> QED
    BY <1>1, <1>2 DEF GoodCall, L

\* A list of one step that sets or clears a pin's bit of one kind.
LEMMA OneBit ==
    ASSUME NEW regs, NEW w, NEW w2, AllDue(<<>>, regs, w), GpRecord(w2),
           NEW K \in BitKinds, NEW g, NEW b, <<g, b>> \in Pins, NEW off, NEW on, off \cup on = {b},
           \A kind \in BitKinds : kind # K => Ones(w2, kind) = Ones(w, kind),
           \A pin \in Pins : pin # <<g, b>> => (pin \in Ones(w2, K) <=> pin \in Ones(w, K)),
           b \in on <=> <<g, b>> \in Ones(w2, K),
           w2.pull = w.pull, w2.weak = w.weak, w2.mux = w.mux
    PROVE  GoodCall(<<Change(K, g, off, on)>>, regs, w2)
  <1> DEFINE s == Change(K, g, off, on)
             L == <<s>>
  <1>1. s.reg = <<K, g>> /\ s.rmw = TRUE /\ s.off = off /\ s.on = on /\ s.flip = {}
    BY DEF Change
  <1>2. DOMAIN L = {1} /\ L[1] = s /\ Len(L) = 1 /\ L \in Seq({s})
    OBVIOUS
  <1>3. \A x : Touches(s, x) <=> x = b
    BY <1>1 DEF Touches
  <1> HIDE DEF s, L
  <1>4. K \notin {"pull", "pe", "mux", "blc_rf_pa_cb"}
    BY DEF BitKinds
  <1>5. BitsDue(L, regs, w2)
    <2>1. ASSUME NEW kind \in BitKinds, NEW pin \in Pins
          PROVE  /\ \A k \in DOMAIN L : L[k].reg = <<kind, pin[1]>> /\ Touches(L[k], pin[2]) =>
                      (pin[2] \in L[k].on <=> pin \in Ones(w2, kind))
                 /\ (\A k \in DOMAIN L : L[k].reg = <<kind, pin[1]>> => ~Touches(L[k], pin[2])) =>
                      (pin \in Ones(w2, kind) <=> pin \in Ones(w, kind))
      <3>1. pin = <<g, b>> <=> pin[1] = g /\ pin[2] = b
        BY PinsAre
      <3>2. CASE kind # K
        BY <1>1, <1>2, <3>2
      <3>3. CASE kind = K
        BY <1>1, <1>2, <1>3, <3>1, <3>3
      <3> QED
        BY <3>2, <3>3
    <2>2. \A k \in DOMAIN L : L[k].flip = {}
      BY <1>1, <1>2
    <2> QED
      BY <2>1, <2>2, BitsSet
  <1>6. \A k \in DOMAIN L : L[k].reg[1] # "pull" /\ L[k].reg[1] # "pe" /\ L[k].reg[1] # "mux"
    BY <1>1, <1>2, <1>4
  <1>7. AllDue(L, regs, w2)
    BY <1>5, <1>6, PullKept, WeakKept, MuxKept DEF AllDue
  <1>8. s.reg \in Registers
    BY <1>1, RegistersAre, PinsAre DEF BitKinds
  <1>9. GoodCall(<<s>>, regs, w2)
    BY <1>7, <1>8, OneStep DEF L
  <1> QED
    BY <1>9 DEF s

----------------------------------------------------------------------------
(* What a call asks for, field by field.                                   *)

LEMMA OutputGood ==
    ASSUME NEW regs, NEW w, AllDue(<<>>, regs, w), GpRecord(w),
           NEW c, c.f = "output", <<c.g, c.b>> \in Pins, c.v \in BOOLEAN
    PROVE  GoodCall(GpSteps(c), regs, Wants(w, c))
  <1> DEFINE pin == <<c.g, c.b>>
             w2 == Wants(w, c)
             X == IF c.v THEN w.driven \cup {pin} ELSE w.driven \ {pin}
             off == IF c.v THEN {c.b} ELSE {}
             on == IF c.v THEN {} ELSE {c.b}
  <1>1. GpSteps(c) = <<Change("oen", c.g, off, on)>>
    BY DEF GpSteps, gpio_set_output_en, Turn
  <1>2. w2 = [w EXCEPT !.driven = X]
    BY DEF Wants, With
  <1>3. X \in SUBSET Pins /\ off \cup on = {c.b}
    BY DEF GpRecord
  <1>4. /\ pin \in Pins \ X <=> c.b \in on
        /\ \A q \in Pins : q # pin => (q \in Pins \ X <=> q \in Pins \ w.driven)
    OBVIOUS
  <1> HIDE DEF w2, X, off, on, pin
  <1>5. /\ GpRecord(w2) /\ w2.driven = X
        /\ w2.high = w.high /\ w2.read = w.read /\ w2.strong = w.strong /\ w2.gpio = w.gpio
        /\ w2.weak = w.weak /\ w2.mux = w.mux /\ w2.pull = w.pull
    <2>1. /\ w2.driven = X
          /\ w2.high = w.high /\ w2.read = w.read /\ w2.strong = w.strong /\ w2.gpio = w.gpio
          /\ w2.weak = w.weak /\ w2.mux = w.mux /\ w2.pull = w.pull
      BY <1>2 DEF GpRecord
    <2>2. w2 = [high |-> w2.high, driven |-> w2.driven, read |-> w2.read, strong |-> w2.strong,
                gpio |-> w2.gpio, weak |-> w2.weak, mux |-> w2.mux, pull |-> w2.pull]
      BY <1>2 DEF GpRecord
    <2> QED
      BY <1>3, <2>1, <2>2 DEF GpRecord
  <1>6. /\ \A kind \in BitKinds : kind # "oen" => Ones(w2, kind) = Ones(w, kind)
        /\ Ones(w2, "oen") = Pins \ X /\ Ones(w, "oen") = Pins \ w.driven /\ "oen" \in BitKinds
    BY <1>5 DEF Ones, BitKinds
  <1>7. /\ \A q \in Pins : q # <<c.g, c.b>> => (q \in Ones(w2, "oen") <=> q \in Ones(w, "oen"))
        /\ c.b \in on <=> <<c.g, c.b>> \in Ones(w2, "oen")
    BY <1>4, <1>6 DEF pin
  <1>8. GoodCall(<<Change("oen", c.g, off, on)>>, regs, w2)
    BY <1>3, <1>5, <1>6, <1>7, OneBit
  <1> QED
    BY <1>1, <1>8 DEF w2

LEMMA InputGood ==
    ASSUME NEW regs, NEW w, AllDue(<<>>, regs, w), GpRecord(w),
           NEW c, c.f = "input", <<c.g, c.b>> \in Pins, c.v \in BOOLEAN
    PROVE  GoodCall(GpSteps(c), regs, Wants(w, c))
  <1> DEFINE pin == <<c.g, c.b>>
             w2 == Wants(w, c)
             X == IF c.v THEN w.read \cup {pin} ELSE w.read \ {pin}
             off == IF c.v THEN {} ELSE {c.b}
             on == IF c.v THEN {c.b} ELSE {}
  <1>1. GpSteps(c) = <<Change("ie", c.g, off, on)>>
    BY DEF GpSteps, gpio_set_input_en, Turn
  <1>2. w2 = [w EXCEPT !.read = X]
    BY DEF Wants, With
  <1>3. X \in SUBSET Pins /\ off \cup on = {c.b}
    BY DEF GpRecord
  <1>4. /\ pin \in X <=> c.b \in on
        /\ \A q \in Pins : q # pin => (q \in X <=> q \in w.read)
    OBVIOUS
  <1> HIDE DEF w2, X, off, on, pin
  <1>5. /\ GpRecord(w2) /\ w2.read = X
        /\ w2.high = w.high /\ w2.driven = w.driven /\ w2.strong = w.strong /\ w2.gpio = w.gpio
        /\ w2.weak = w.weak /\ w2.mux = w.mux /\ w2.pull = w.pull
    <2>1. /\ w2.read = X
          /\ w2.high = w.high /\ w2.driven = w.driven /\ w2.strong = w.strong /\ w2.gpio = w.gpio
          /\ w2.weak = w.weak /\ w2.mux = w.mux /\ w2.pull = w.pull
      BY <1>2 DEF GpRecord
    <2>2. w2 = [high |-> w2.high, driven |-> w2.driven, read |-> w2.read, strong |-> w2.strong,
                gpio |-> w2.gpio, weak |-> w2.weak, mux |-> w2.mux, pull |-> w2.pull]
      BY <1>2 DEF GpRecord
    <2> QED
      BY <1>3, <2>1, <2>2 DEF GpRecord
  <1>6. /\ \A kind \in BitKinds : kind # "ie" => Ones(w2, kind) = Ones(w, kind)
        /\ Ones(w2, "ie") = X /\ Ones(w, "ie") = w.read /\ "ie" \in BitKinds
    BY <1>5 DEF Ones, BitKinds
  <1>7. /\ \A q \in Pins : q # <<c.g, c.b>> => (q \in Ones(w2, "ie") <=> q \in Ones(w, "ie"))
        /\ c.b \in on <=> <<c.g, c.b>> \in Ones(w2, "ie")
    BY <1>4, <1>6 DEF pin
  <1>8. GoodCall(<<Change("ie", c.g, off, on)>>, regs, w2)
    BY <1>3, <1>5, <1>6, <1>7, OneBit
  <1> QED
    BY <1>1, <1>8 DEF w2

LEMMA StrengthGood ==
    ASSUME NEW regs, NEW w, AllDue(<<>>, regs, w), GpRecord(w),
           NEW c, c.f = "strength", <<c.g, c.b>> \in Pins, c.v \in BOOLEAN
    PROVE  GoodCall(GpSteps(c), regs, Wants(w, c))
  <1> DEFINE pin == <<c.g, c.b>>
             w2 == Wants(w, c)
             X == IF c.v THEN w.strong \cup {pin} ELSE w.strong \ {pin}
             off == IF c.v THEN {} ELSE {c.b}
             on == IF c.v THEN {c.b} ELSE {}
  <1>1. GpSteps(c) = <<Change("ds", c.g, off, on)>>
    BY DEF GpSteps, gpio_set_data_strength, Turn
  <1>2. w2 = [w EXCEPT !.strong = X]
    BY DEF Wants, With
  <1>3. X \in SUBSET Pins /\ off \cup on = {c.b}
    BY DEF GpRecord
  <1>4. /\ pin \in X <=> c.b \in on
        /\ \A q \in Pins : q # pin => (q \in X <=> q \in w.strong)
    OBVIOUS
  <1> HIDE DEF w2, X, off, on, pin
  <1>5. /\ GpRecord(w2) /\ w2.strong = X
        /\ w2.high = w.high /\ w2.driven = w.driven /\ w2.read = w.read /\ w2.gpio = w.gpio
        /\ w2.weak = w.weak /\ w2.mux = w.mux /\ w2.pull = w.pull
    <2>1. /\ w2.strong = X
          /\ w2.high = w.high /\ w2.driven = w.driven /\ w2.read = w.read /\ w2.gpio = w.gpio
          /\ w2.weak = w.weak /\ w2.mux = w.mux /\ w2.pull = w.pull
      BY <1>2 DEF GpRecord
    <2>2. w2 = [high |-> w2.high, driven |-> w2.driven, read |-> w2.read, strong |-> w2.strong,
                gpio |-> w2.gpio, weak |-> w2.weak, mux |-> w2.mux, pull |-> w2.pull]
      BY <1>2 DEF GpRecord
    <2> QED
      BY <1>3, <2>1, <2>2 DEF GpRecord
  <1>6. /\ \A kind \in BitKinds : kind # "ds" => Ones(w2, kind) = Ones(w, kind)
        /\ Ones(w2, "ds") = X /\ Ones(w, "ds") = w.strong /\ "ds" \in BitKinds
    BY <1>5 DEF Ones, BitKinds
  <1>7. /\ \A q \in Pins : q # <<c.g, c.b>> => (q \in Ones(w2, "ds") <=> q \in Ones(w, "ds"))
        /\ c.b \in on <=> <<c.g, c.b>> \in Ones(w2, "ds")
    BY <1>4, <1>6 DEF pin
  <1>8. GoodCall(<<Change("ds", c.g, off, on)>>, regs, w2)
    BY <1>3, <1>5, <1>6, <1>7, OneBit
  <1> QED
    BY <1>1, <1>8 DEF w2

LEMMA WriteGood ==
    ASSUME NEW regs, NEW w, AllDue(<<>>, regs, w), GpRecord(w),
           NEW c, c.f = "write", <<c.g, c.b>> \in Pins, c.v \in BOOLEAN
    PROVE  GoodCall(GpSteps(c), regs, Wants(w, c))
  <1> DEFINE pin == <<c.g, c.b>>
             w2 == Wants(w, c)
             X == IF c.v THEN w.high \cup {pin} ELSE w.high \ {pin}
             off == IF c.v THEN {} ELSE {c.b}
             on == IF c.v THEN {c.b} ELSE {}
  <1>1. GpSteps(c) = <<Change("out", c.g, off, on)>>
    BY DEF GpSteps, gpio_write, Turn
  <1>2. w2 = [w EXCEPT !.high = X]
    BY DEF Wants, With
  <1>3. X \in SUBSET Pins /\ off \cup on = {c.b}
    BY DEF GpRecord
  <1>4. /\ pin \in X <=> c.b \in on
        /\ \A q \in Pins : q # pin => (q \in X <=> q \in w.high)
    OBVIOUS
  <1> HIDE DEF w2, X, off, on, pin
  <1>5. /\ GpRecord(w2) /\ w2.high = X
        /\ w2.driven = w.driven /\ w2.read = w.read /\ w2.strong = w.strong /\ w2.gpio = w.gpio
        /\ w2.weak = w.weak /\ w2.mux = w.mux /\ w2.pull = w.pull
    <2>1. /\ w2.high = X
          /\ w2.driven = w.driven /\ w2.read = w.read /\ w2.strong = w.strong /\ w2.gpio = w.gpio
          /\ w2.weak = w.weak /\ w2.mux = w.mux /\ w2.pull = w.pull
      BY <1>2 DEF GpRecord
    <2>2. w2 = [high |-> w2.high, driven |-> w2.driven, read |-> w2.read, strong |-> w2.strong,
                gpio |-> w2.gpio, weak |-> w2.weak, mux |-> w2.mux, pull |-> w2.pull]
      BY <1>2 DEF GpRecord
    <2> QED
      BY <1>3, <2>1, <2>2 DEF GpRecord
  <1>6. /\ \A kind \in BitKinds : kind # "out" => Ones(w2, kind) = Ones(w, kind)
        /\ Ones(w2, "out") = X /\ Ones(w, "out") = w.high /\ "out" \in BitKinds
    BY <1>5 DEF Ones, BitKinds
  <1>7. /\ \A q \in Pins : q # <<c.g, c.b>> => (q \in Ones(w2, "out") <=> q \in Ones(w, "out"))
        /\ c.b \in on <=> <<c.g, c.b>> \in Ones(w2, "out")
    BY <1>4, <1>6 DEF pin
  <1>8. GoodCall(<<Change("out", c.g, off, on)>>, regs, w2)
    BY <1>3, <1>5, <1>6, <1>7, OneBit
  <1> QED
    BY <1>1, <1>8 DEF w2

LEMMA OUTPUTGood ==
    ASSUME NEW regs, NEW w, AllDue(<<>>, regs, w), GpRecord(w),
           NEW c, c.f = "OUTPUT", <<c.g, c.b>> \in Pins, c.v \in BOOLEAN
    PROVE  GoodCall(GpSteps(c), regs, Wants(w, c))
  <1> DEFINE pin == <<c.g, c.b>>
             w2 == Wants(w, c)
             X == IF c.v THEN w.high \cup {pin} ELSE w.high \ {pin}
             off == IF c.v THEN {} ELSE {c.b}
             on == IF c.v THEN {c.b} ELSE {}
  <1>1. GpSteps(c) = <<Change("out", c.g, off, on)>>
    BY DEF GpSteps, OUTPUT, Turn
  <1>2. w2 = [w EXCEPT !.high = X]
    BY DEF Wants, With
  <1>3. X \in SUBSET Pins /\ off \cup on = {c.b}
    BY DEF GpRecord
  <1>4. /\ pin \in X <=> c.b \in on
        /\ \A q \in Pins : q # pin => (q \in X <=> q \in w.high)
    OBVIOUS
  <1> HIDE DEF w2, X, off, on, pin
  <1>5. /\ GpRecord(w2) /\ w2.high = X
        /\ w2.driven = w.driven /\ w2.read = w.read /\ w2.strong = w.strong /\ w2.gpio = w.gpio
        /\ w2.weak = w.weak /\ w2.mux = w.mux /\ w2.pull = w.pull
    <2>1. /\ w2.high = X
          /\ w2.driven = w.driven /\ w2.read = w.read /\ w2.strong = w.strong /\ w2.gpio = w.gpio
          /\ w2.weak = w.weak /\ w2.mux = w.mux /\ w2.pull = w.pull
      BY <1>2 DEF GpRecord
    <2>2. w2 = [high |-> w2.high, driven |-> w2.driven, read |-> w2.read, strong |-> w2.strong,
                gpio |-> w2.gpio, weak |-> w2.weak, mux |-> w2.mux, pull |-> w2.pull]
      BY <1>2 DEF GpRecord
    <2> QED
      BY <1>3, <2>1, <2>2 DEF GpRecord
  <1>6. /\ \A kind \in BitKinds : kind # "out" => Ones(w2, kind) = Ones(w, kind)
        /\ Ones(w2, "out") = X /\ Ones(w, "out") = w.high /\ "out" \in BitKinds
    BY <1>5 DEF Ones, BitKinds
  <1>7. /\ \A q \in Pins : q # <<c.g, c.b>> => (q \in Ones(w2, "out") <=> q \in Ones(w, "out"))
        /\ c.b \in on <=> <<c.g, c.b>> \in Ones(w2, "out")
    BY <1>4, <1>6 DEF pin
  <1>8. GoodCall(<<Change("out", c.g, off, on)>>, regs, w2)
    BY <1>3, <1>5, <1>6, <1>7, OneBit
  <1> QED
    BY <1>1, <1>8 DEF w2

LEMMA SetGpioGood ==
    ASSUME NEW regs, NEW w, AllDue(<<>>, regs, w), GpRecord(w),
           NEW c, c.f = "set_func", <<c.g, c.b>> \in Pins, c.v = AS_GPIO
    PROVE  GoodCall(GpSteps(c), regs, Wants(w, c))
  <1> DEFINE pin == <<c.g, c.b>>
             w2 == Wants(w, c)
             X == w.gpio \cup {pin}
             off == {}
             on == {c.b}
  <1>1. GpSteps(c) = <<Change("func", c.g, off, on)>>
    BY DEF GpSteps, gpio_set_func, Turn
  <1>2. w2 = [w EXCEPT !.gpio = X]
    BY DEF Wants
  <1>3. X \in SUBSET Pins /\ off \cup on = {c.b}
    BY DEF GpRecord
  <1>4. /\ pin \in X <=> c.b \in on
        /\ \A q \in Pins : q # pin => (q \in X <=> q \in w.gpio)
    OBVIOUS
  <1> HIDE DEF w2, X, off, on, pin
  <1>5. /\ GpRecord(w2) /\ w2.gpio = X
        /\ w2.high = w.high /\ w2.driven = w.driven /\ w2.read = w.read /\ w2.strong = w.strong
        /\ w2.weak = w.weak /\ w2.mux = w.mux /\ w2.pull = w.pull
    <2>1. /\ w2.gpio = X
          /\ w2.high = w.high /\ w2.driven = w.driven /\ w2.read = w.read /\ w2.strong = w.strong
          /\ w2.weak = w.weak /\ w2.mux = w.mux /\ w2.pull = w.pull
      BY <1>2 DEF GpRecord
    <2>2. w2 = [high |-> w2.high, driven |-> w2.driven, read |-> w2.read, strong |-> w2.strong,
                gpio |-> w2.gpio, weak |-> w2.weak, mux |-> w2.mux, pull |-> w2.pull]
      BY <1>2 DEF GpRecord
    <2> QED
      BY <1>3, <2>1, <2>2 DEF GpRecord
  <1>6. /\ \A kind \in BitKinds : kind # "func" => Ones(w2, kind) = Ones(w, kind)
        /\ Ones(w2, "func") = X /\ Ones(w, "func") = w.gpio /\ "func" \in BitKinds
    BY <1>5 DEF Ones, BitKinds
  <1>7. /\ \A q \in Pins : q # <<c.g, c.b>> => (q \in Ones(w2, "func") <=> q \in Ones(w, "func"))
        /\ c.b \in on <=> <<c.g, c.b>> \in Ones(w2, "func")
    BY <1>4, <1>6 DEF pin
  <1>8. GoodCall(<<Change("func", c.g, off, on)>>, regs, w2)
    BY <1>3, <1>5, <1>6, <1>7, OneBit
  <1> QED
    BY <1>1, <1>8 DEF w2

LEMMA ToggleGood ==
    ASSUME NEW regs, NEW w, AllDue(<<>>, regs, w), GpRecord(w),
           NEW c, c.f = "toggle", <<c.g, c.b>> \in Pins
    PROVE  GoodCall(GpSteps(c), regs, Wants(w, c))
  <1> DEFINE pin == <<c.g, c.b>>
             w2 == Wants(w, c)
             X == IF pin \notin w.high THEN w.high \cup {pin} ELSE w.high \ {pin}
             s == Flip("out", c.g, {c.b})
             L == <<s>>
  <1>1. GpSteps(c) = L
    BY DEF GpSteps, gpio_toggle
  <1>2. w2 = [w EXCEPT !.high = X]
    BY DEF Wants, With
  <1>3. X \in SUBSET Pins
    BY DEF GpRecord
  <1>4. \A q \in Pins : IF q = pin THEN q \in X <=> ~(q \in w.high) ELSE q \in X <=> q \in w.high
    OBVIOUS
  <1>5. s.reg = <<"out", c.g>> /\ s.rmw = TRUE /\ s.off = {} /\ s.on = {} /\ s.flip = {c.b}
    BY DEF Flip, Change
  <1>6. DOMAIN L = {1} /\ L[1] = s
    OBVIOUS
  <1> HIDE DEF w2, X, s, L
  <1>7. /\ GpRecord(w2) /\ w2.high = X
        /\ w2.driven = w.driven /\ w2.read = w.read /\ w2.strong = w.strong /\ w2.gpio = w.gpio
        /\ w2.weak = w.weak /\ w2.mux = w.mux /\ w2.pull = w.pull
    <2>1. /\ w2.high = X
          /\ w2.driven = w.driven /\ w2.read = w.read /\ w2.strong = w.strong /\ w2.gpio = w.gpio
          /\ w2.weak = w.weak /\ w2.mux = w.mux /\ w2.pull = w.pull
      BY <1>2 DEF GpRecord
    <2>2. w2 = [high |-> w2.high, driven |-> w2.driven, read |-> w2.read, strong |-> w2.strong,
                gpio |-> w2.gpio, weak |-> w2.weak, mux |-> w2.mux, pull |-> w2.pull]
      BY <1>2 DEF GpRecord
    <2> QED
      BY <1>3, <2>1, <2>2 DEF GpRecord
  <1>8. BitsDue(L, regs, w2)
    <2> SUFFICES ASSUME NEW kind \in BitKinds, NEW q \in Pins
                 PROVE  Due(L, regs, <<kind, q[1]>>, q[2], Ones(w2, kind), q)
      BY DEF BitsDue
    <2>1. q[2] \in regs[<<kind, q[1]>>] <=> q \in Ones(w, kind)
      BY NowDue
    <2>2. q = pin <=> q[1] = c.g /\ q[2] = c.b
      BY PinsAre
    <2>3. Touches(s, q[2]) <=> q[2] = c.b
      BY <1>5 DEF Touches
    <2>4. CASE kind # "out"
      <3>1. Ones(w2, kind) = Ones(w, kind)
        BY <1>7, <2>4 DEF Ones, BitKinds
      <3> QED
        BY <1>5, <1>6, <2>1, <2>4, <3>1 DEF Due
    <2>5. CASE kind = "out"
      <3>1. Ones(w2, kind) = X /\ Ones(w, kind) = w.high
        BY <1>7, <2>5 DEF Ones
      <3>2. q[2] \in Written(s, regs[<<kind, q[1]>>]) <=>
              IF q[2] = c.b THEN ~(q[2] \in regs[<<kind, q[1]>>]) ELSE q[2] \in regs[<<kind, q[1]>>]
        BY <1>5 DEF Written
      <3> QED
        BY <1>4, <1>5, <1>6, <2>1, <2>2, <2>3, <2>5, <3>1, <3>2 DEF Due
    <2> QED
      BY <2>4, <2>5
  <1>9. \A k \in DOMAIN L : L[k].reg[1] # "pull" /\ L[k].reg[1] # "pe" /\ L[k].reg[1] # "mux"
    BY <1>5, <1>6
  <1>10. AllDue(L, regs, w2)
    BY <1>7, <1>8, <1>9, PullKept, WeakKept, MuxKept DEF AllDue
  <1>11. s.reg \in Registers
    BY <1>5, RegistersAre, PinsAre
  <1>12. GoodCall(L, regs, w2)
    BY <1>7, <1>10, <1>11, OneStep DEF L
  <1> QED
    BY <1>1, <1>12 DEF w2

PullAsked(w, w2, P) == w2 = [w EXCEPT !.pull = P]

\* Step s makes the pull resistors P of w, whose others than pin g, b's it leaves.
PullMade(s, w, P, g, b) ==
    /\ s.reg = <<"pull", PullAt(g, b)>> /\ s.rmw = TRUE
    /\ P \subseteq {pin \in Pins : pin[1] # 4} \X {0, 1}
    /\ \A pin \in Pins, j \in {0, 1} : pin # <<g, b>> => (<<pin, j>> \in P <=> <<pin, j>> \in w.pull)
    /\ \A a \in Int, j \in {0, 1} : a # b % 4 => ~Touches(s, <<a, j>>)
    /\ \A v : \A j \in {0, 1} :
         (<<b % 4, j>> \in v <=> <<<<g, b>>, j>> \in w.pull) =>
            /\ Touches(s, <<b % 4, j>>) => (<<b % 4, j>> \in Written(s, v) <=> <<<<g, b>>, j>> \in P)
            /\ ~Touches(s, <<b % 4, j>>) => (<<<<g, b>>, j>> \in P <=> <<<<g, b>>, j>> \in w.pull)

LEMMA PullGood ==
    ASSUME NEW regs, NEW w, AllDue(<<>>, regs, w), GpRecord(w),
           NEW g, NEW b, <<g, b>> \in Pins, g # 4, NEW s, NEW P, PullMade(s, w, P, g, b),
           NEW w2, PullAsked(w, w2, P)
    PROVE  GoodCall(<<s>>, regs, w2)
  <1> USE DEF PullMade
  <1> DEFINE L == <<s>>
             here == <<g, b>>
  <1>1. DOMAIN L = {1} /\ L[1] = s
    OBVIOUS
  <1> HIDE DEF L
  <1>2. /\ GpRecord(w2) /\ w2.pull = P
        /\ w2.high = w.high /\ w2.driven = w.driven /\ w2.read = w.read /\ w2.strong = w.strong
        /\ w2.gpio = w.gpio /\ w2.weak = w.weak /\ w2.mux = w.mux
    <2>1. /\ w2.pull = P
          /\ w2.high = w.high /\ w2.driven = w.driven /\ w2.read = w.read /\ w2.strong = w.strong
          /\ w2.gpio = w.gpio /\ w2.weak = w.weak /\ w2.mux = w.mux
      BY DEF GpRecord, PullAsked
    <2>2. w2 = [high |-> w2.high, driven |-> w2.driven, read |-> w2.read, strong |-> w2.strong,
                gpio |-> w2.gpio, weak |-> w2.weak, mux |-> w2.mux, pull |-> w2.pull]
      BY DEF GpRecord, PullAsked
    <2> QED
      BY <2>1, <2>2 DEF GpRecord
  <1>3. PullDue(L, regs, w2)
    <2> SUFFICES ASSUME NEW pin \in Pins, NEW j \in {0, 1}, pin[1] # 4
                 PROVE  Due(L, regs, <<"pull", PullAt(pin[1], pin[2])>>, <<pin[2] % 4, j>>, w2.pull, <<pin, j>>)
      BY DEF PullDue
    <2> DEFINE r == <<"pull", PullAt(pin[1], pin[2])>>
               a == pin[2] % 4
               x == <<a, j>>
               e == <<pin, j>>
    <2>1. x \in regs[r] <=> e \in w.pull
      BY NowDue
    <2>2. pin = <<pin[1], pin[2]>> /\ pin[2] \in Int /\ a \in Int /\ here[1] = g /\ here[2] = b /\ here \in Pins
      BY PinsAre
    <2>3. s.reg = r /\ a = b % 4 => pin = here
      <3>1. s.reg = r => PullAt(here[1], here[2]) = PullAt(pin[1], pin[2])
        BY <2>2
      <3> QED
        BY <2>2, <3>1, PinsApart
    <2>4. CASE pin = here
      <3>1. a = b % 4 /\ e = <<<<g, b>>, j>> /\ s.reg = r
        BY <2>2, <2>4
      <3> HIDE DEF r, a, e
      <3>2. x = <<b % 4, j>>
        BY <3>1
      <3>3. /\ Touches(s, x) => (x \in Written(s, regs[r]) <=> e \in P)
            /\ ~Touches(s, x) => (e \in P <=> e \in w.pull)
        BY <2>1, <3>1, <3>2
      <3> HIDE DEF x
      <3> QED
        BY <1>1, <1>2, <2>1, <3>1, <3>3 DEF Due, r, e, x, a
    <2>5. CASE pin # here
      <3>1. e \in P <=> e \in w.pull
        BY <2>5
      <3>2. s.reg = r => ~Touches(s, x)
        BY <2>2, <2>3, <2>5
      <3> HIDE DEF r, x, e
      <3>3. Due(L, regs, r, x, w2.pull, e)
        BY <1>1, <1>2, <2>1, <3>1, <3>2 DEF Due
      <3> QED
        BY <3>3 DEF r, x, e
    <2> QED
      BY <2>4, <2>5
  <1>4. BitsDue(L, regs, w2)
    <2>1. \A kind \in BitKinds : Ones(w2, kind) = Ones(w, kind)
      BY <1>2 DEF Ones, BitKinds
    <2>2. \A k \in DOMAIN L : L[k].reg[1] \notin BitKinds
      BY <1>1 DEF BitKinds
    <2> QED
      BY <2>1, <2>2, BitsKept
  <1>5. \A k \in DOMAIN L : L[k].reg[1] # "pe" /\ L[k].reg[1] # "mux"
    BY <1>1
  <1>6. AllDue(L, regs, w2)
    BY <1>2, <1>3, <1>4, <1>5, WeakKept, MuxKept DEF AllDue
  <1>7. s.reg \in Registers
    <2>1. here \in Pins /\ here[1] = g /\ here[2] = b
      OBVIOUS
    <2> QED
      BY <2>1, RegistersAre
  <1> QED
    BY <1>2, <1>6, <1>7, OneStep DEF L

LEMMA ResistorGood ==
    ASSUME NEW regs, NEW w, AllDue(<<>>, regs, w), GpRecord(w),
           NEW c, c.f \in {"resistor", "PULL"}, <<c.g, c.b>> \in Pins, c.g # 4, c.v \subseteq {0, 1}
    PROVE  GoodCall(GpSteps(c), regs, Wants(w, c))
  <1> DEFINE pin == <<c.g, c.b>>
             w2 == Wants(w, c)
             P == {x \in w.pull : x[1] # pin} \cup ({pin} \X c.v)
             a == c.b % 4
             n == PullAt(c.g, c.b)
             off == IF c.f = "PULL" THEN {a} \X ({0, 1} \ c.v) ELSE {a} \X {0, 1}
             s == Change("pull", n, off, {a} \X c.v)
  <1>1. GpSteps(c) = <<s>>
    BY DEF GpSteps, gpio_setup_up_down_resistor, PULL
  <1>2. w2 = [w EXCEPT !.pull = P]
    BY DEF Wants
  <1>3. pin \in Pins /\ pin[1] = c.g
    OBVIOUS
  <1>4. /\ P \subseteq {q \in Pins : q[1] # 4} \X {0, 1}
        /\ \A q, j : q # pin => (<<q, j>> \in P <=> <<q, j>> \in w.pull)
        /\ \A j : <<pin, j>> \in P <=> j \in c.v
    <2> HIDE DEF pin
    <2>1. P \subseteq {q \in Pins : q[1] # 4} \X {0, 1}
      BY <1>3 DEF GpRecord
    <2>2. \A q, j : q # pin => (<<q, j>> \in P <=> <<q, j>> \in w.pull)
      BY DEF GpRecord
    <2>3. \A j : <<pin, j>> \in P <=> j \in c.v
      BY DEF GpRecord
    <2> QED
      BY <2>1, <2>2, <2>3
  <1>5. /\ s.reg = <<"pull", n>> /\ s.rmw = TRUE /\ s.off = off /\ s.on = {a} \X c.v /\ s.flip = {}
    BY DEF Change
  <1> HIDE DEF w2, P, s
  <1>6. ASSUME NEW v, NEW j \in {0, 1}
        PROVE  Touches(s, <<a, j>>) /\ (<<a, j>> \in Written(s, v) <=> <<pin, j>> \in P)
    <2>1. <<a, j>> \in off \cup ({a} \X c.v)
      OBVIOUS
    <2>2. <<a, j>> \in {a} \X c.v <=> j \in c.v
      OBVIOUS
    <2> HIDE DEF off, a
    <2>3. Touches(s, <<a, j>>)
      BY <1>5, <2>1 DEF Touches
    <2>4. <<a, j>> \in Written(s, v) <=> <<a, j>> \in {a} \X c.v
      BY <1>5, <2>1 DEF Written
    <2> QED
      BY <1>4, <2>2, <2>3, <2>4
  <1>7. \A z \in Int, j \in {0, 1} : z # a => ~Touches(s, <<z, j>>)
    BY <1>5 DEF Touches
  <1>8. GoodCall(<<s>>, regs, w2)
    <2> HIDE DEF a, n, off
    <2>1. /\ \A q \in Pins, j \in {0, 1} : q # <<c.g, c.b>> => (<<q, j>> \in P <=> <<q, j>> \in w.pull)
          /\ \A z \in Int, j \in {0, 1} : z # c.b % 4 => ~Touches(s, <<z, j>>)
      BY <1>4, <1>7 DEF a
    <2>2. \A v : \A j \in {0, 1} : 
             (<<c.b % 4, j>> \in v <=> <<<<c.g, c.b>>, j>> \in w.pull) =>
                /\ Touches(s, <<c.b % 4, j>>) => (<<c.b % 4, j>> \in Written(s, v) <=> <<<<c.g, c.b>>, j>> \in P)
                /\ ~Touches(s, <<c.b % 4, j>>) => (<<<<c.g, c.b>>, j>> \in P <=> <<<<c.g, c.b>>, j>> \in w.pull)
      BY <1>6 DEF a
    <2>3. s.reg = <<"pull", PullAt(c.g, c.b)>> /\ s.rmw = TRUE
      BY <1>5 DEF n
    <2>4. PullAsked(w, w2, P)
      BY <1>2 DEF PullAsked
    <2>5. P \subseteq {q \in Pins : q[1] # 4} \X {0, 1}
      BY <1>4
    <2> HIDE DEF pin
    <2>6. PullMade(s, w, P, c.g, c.b)
      BY <2>1, <2>2, <2>3, <2>5 DEF PullMade
    <2> QED
      BY <2>4, <2>6, PullGood, Zenon
  <1> QED
    BY <1>1, <1>8 DEF w2

LEMMA PullToggleGood ==
    ASSUME NEW regs, NEW w, AllDue(<<>>, regs, w), GpRecord(w),
           NEW c, c.f = "PULL_TOGGLE", <<c.g, c.b>> \in Pins, c.g # 4
    PROVE  GoodCall(GpSteps(c), regs, Wants(w, c))
  <1> DEFINE pin == <<c.g, c.b>>
             w2 == Wants(w, c)
             e == <<pin, 0>>
             P == IF e \notin w.pull THEN w.pull \cup {e} ELSE w.pull \ {e}
             a == c.b % 4
             n == PullAt(c.g, c.b)
             s == Flip("pull", n, {a} \X {0})
  <1>1. GpSteps(c) = <<s>>
    BY DEF GpSteps, PULL_TOGGLE
  <1>2. w2 = [w EXCEPT !.pull = P]
    BY DEF Wants, With
  <1>3. pin \in Pins /\ pin[1] = c.g
    OBVIOUS
  <1>4. /\ P \subseteq {q \in Pins : q[1] # 4} \X {0, 1}
        /\ \A q, j : q # pin => (<<q, j>> \in P <=> <<q, j>> \in w.pull)
        /\ <<pin, 1>> \in P <=> <<pin, 1>> \in w.pull
        /\ <<pin, 0>> \in P <=> ~(<<pin, 0>> \in w.pull)
    <2> HIDE DEF pin
    <2>1. P \subseteq {q \in Pins : q[1] # 4} \X {0, 1}
      BY <1>3 DEF GpRecord
    <2>2. \A q, j : q # pin => (<<q, j>> \in P <=> <<q, j>> \in w.pull)
      OBVIOUS
    <2>3. <<pin, 1>> \in P <=> <<pin, 1>> \in w.pull
      OBVIOUS
    <2>4. <<pin, 0>> \in P <=> ~(<<pin, 0>> \in w.pull)
      OBVIOUS
    <2> QED
      BY <2>1, <2>2, <2>3, <2>4
  <1>5. /\ s.reg = <<"pull", n>> /\ s.rmw = TRUE /\ s.off = {} /\ s.on = {} /\ s.flip = {a} \X {0}
    BY DEF Flip, Change
  <1> HIDE DEF w2, P, s, e
  <1>6. \A z, j : Touches(s, <<z, j>>) <=> z = a /\ j = 0
    BY <1>5 DEF Touches
  <1>7. \A v : <<a, 0>> \in Written(s, v) <=> ~(<<a, 0>> \in v)
    BY <1>5 DEF Written
  <1>8. GoodCall(<<s>>, regs, w2)
    <2> HIDE DEF a, n
    <2>1. /\ \A q \in Pins, j \in {0, 1} : q # <<c.g, c.b>> => (<<q, j>> \in P <=> <<q, j>> \in w.pull)
          /\ \A z \in Int, j \in {0, 1} : z # c.b % 4 => ~Touches(s, <<z, j>>)
      BY <1>4, <1>6 DEF a
    <2>2. ASSUME NEW v, NEW j \in {0, 1}, <<a, j>> \in v <=> <<pin, j>> \in w.pull
          PROVE  /\ Touches(s, <<a, j>>) => (<<a, j>> \in Written(s, v) <=> <<pin, j>> \in P)
                 /\ ~Touches(s, <<a, j>>) => (<<pin, j>> \in P <=> <<pin, j>> \in w.pull)
      <3> HIDE DEF pin
      <3>1. CASE j = 0
        BY <1>4, <1>6, <1>7, <2>2, <3>1
      <3>2. CASE j = 1
        BY <1>4, <1>6, <3>2
      <3> QED
        BY <3>1, <3>2
    <2>3. s.reg = <<"pull", PullAt(c.g, c.b)>> /\ s.rmw = TRUE
      BY <1>5 DEF n
    <2>4. PullAsked(w, w2, P)
      BY <1>2 DEF PullAsked
    <2>5. P \subseteq {q \in Pins : q[1] # 4} \X {0, 1}
      BY <1>4
    <2>6. PullMade(s, w, P, c.g, c.b)
      BY <2>1, <2>2, <2>3, <2>5 DEF PullMade, a
    <2> HIDE DEF pin
    <2> QED
      BY <2>4, <2>6, PullGood, Zenon
  <1> QED
    BY <1>1, <1>8 DEF w2

\* A peripheral's pin: it is chosen before the pin is given to it.
LEMMA SetFuncGood ==
    ASSUME NEW regs, NEW w, AllDue(<<>>, regs, w), GpRecord(w),
           NEW c, c.f = "set_func", <<c.g, c.b>> \in Pins, c.v # AS_GPIO
    PROVE  GoodCall(GpSteps(c), regs, Wants(w, c))
  <1> DEFINE pin == <<c.g, c.b>>
             w2 == Wants(w, c)
             X == w.gpio \ {pin}
             M == [w.mux EXCEPT ![pin] = c.v]
             m == Assign("mux", MuxAt(c.g, c.b), {c.v})
             s == Change("func", c.g, {c.b}, {})
             L == <<m, s>>
  <1>1. GpSteps(c) = L
    BY DEF GpSteps, gpio_set_func, Turn
  <1>2. w2 = [w EXCEPT !.gpio = X, !.mux = M]
    BY DEF Wants, GpRecord
  <1>3. /\ X \in SUBSET Pins /\ \A q \in Pins : q \in X <=> q # pin /\ q \in w.gpio
        /\ M = [q \in Pins |-> M[q]] /\ \A q \in Pins : M[q] = IF q = pin THEN c.v ELSE w.mux[q]
    BY DEF GpRecord
  <1>4. /\ s.reg = <<"func", c.g>> /\ s.rmw = TRUE /\ s.off = {c.b} /\ s.on = {} /\ s.flip = {}
        /\ m.reg = <<"mux", MuxAt(c.g, c.b)>> /\ m.rmw = FALSE /\ m.on = {c.v} /\ m.flip = {}
    BY DEF Change, Assign
  <1>5. DOMAIN L = {1, 2} /\ L[1] = m /\ L[2] = s /\ Len(L) = 2 /\ L \in Seq({m, s})
    OBVIOUS
  <1> HIDE DEF w2, X, M, m, s, L
  <1>6. /\ GpRecord(w2) /\ w2.gpio = X /\ w2.mux = M
        /\ w2.high = w.high /\ w2.driven = w.driven /\ w2.read = w.read /\ w2.strong = w.strong
        /\ w2.weak = w.weak /\ w2.pull = w.pull
    <2>1. /\ w2.gpio = X /\ w2.mux = M
          /\ w2.high = w.high /\ w2.driven = w.driven /\ w2.read = w.read /\ w2.strong = w.strong
          /\ w2.weak = w.weak /\ w2.pull = w.pull
      BY <1>2 DEF GpRecord
    <2>2. w2 = [high |-> w2.high, driven |-> w2.driven, read |-> w2.read, strong |-> w2.strong,
                gpio |-> w2.gpio, weak |-> w2.weak, mux |-> w2.mux, pull |-> w2.pull]
      BY <1>2 DEF GpRecord
    <2> QED
      BY <1>3, <2>1, <2>2 DEF GpRecord
  <1>7. BitsDue(L, regs, w2)
    <2>1. ASSUME NEW kind \in BitKinds, NEW q \in Pins
          PROVE  /\ \A k \in DOMAIN L : L[k].reg = <<kind, q[1]>> /\ Touches(L[k], q[2]) =>
                      (q[2] \in L[k].on <=> q \in Ones(w2, kind))
                 /\ (\A k \in DOMAIN L : L[k].reg = <<kind, q[1]>> => ~Touches(L[k], q[2])) =>
                      (q \in Ones(w2, kind) <=> q \in Ones(w, kind))
      <3>1. q = pin <=> q[1] = c.g /\ q[2] = c.b
        BY PinsAre
      <3>2. m.reg # <<kind, q[1]>>
        BY <1>4 DEF BitKinds
      <3>3. Touches(s, q[2]) <=> q[2] = c.b
        BY <1>4 DEF Touches
      <3>4. CASE kind # "func"
        <4>1. Ones(w2, kind) = Ones(w, kind)
          BY <1>6, <3>4 DEF Ones, BitKinds
        <4> QED
          BY <1>4, <1>5, <3>2, <3>4, <4>1
      <3>5. CASE kind = "func"
        <4>1. Ones(w2, kind) = X /\ Ones(w, kind) = w.gpio
          BY <1>6, <3>5 DEF Ones
        <4> QED
          BY <1>3, <1>4, <1>5, <3>1, <3>2, <3>3, <3>5, <4>1
      <3> QED
        BY <3>4, <3>5
    <2>2. \A k \in DOMAIN L : L[k].flip = {}
      BY <1>4, <1>5
    <2> QED
      BY <2>1, <2>2, BitsSet
  <1>8. MuxDue(L, regs, w2)
    <2> SUFFICES ASSUME NEW q \in Pins, NEW x
                 PROVE  Due(L, regs, <<"mux", MuxAt(q[1], q[2])>>, x, {w2.mux[q]}, x)
      BY DEF MuxDue
    <2> DEFINE r == <<"mux", MuxAt(q[1], q[2])>>
    <2>1. x \in regs[r] <=> x \in {w.mux[q]}
      BY NowDue
    <2>2. m.reg = r <=> q = pin
      <3>1. m.reg = r => MuxAt(pin[1], pin[2]) = MuxAt(q[1], q[2])
        BY <1>4
      <3>2. pin \in Pins
        OBVIOUS
      <3>3. m.reg = r => pin = q
        <4> HIDE DEF pin, r
        <4> QED
          BY <3>1, <3>2, PinsApart
      <3> QED
        BY <1>4, <3>3
    <2>3. s.reg # r
      BY <1>4
    <2>4. Touches(m, x) /\ Written(m, regs[r]) = {c.v}
      BY <1>4 DEF Touches, Written
    <2>5. w2.mux[q] = IF q = pin THEN c.v ELSE w.mux[q]
      BY <1>3, <1>6
    <2> HIDE DEF r
    <2>6. Due(L, regs, r, x, {w2.mux[q]}, x)
      BY <1>5, <2>1, <2>2, <2>3, <2>4, <2>5 DEF Due
    <2> QED
      BY <2>6 DEF r
  <1>9. \A k \in DOMAIN L : L[k].reg[1] # "pull" /\ L[k].reg[1] # "pe"
    BY <1>4, <1>5
  <1>10. AllDue(L, regs, w2)
    BY <1>6, <1>7, <1>8, <1>9, PullKept, WeakKept DEF AllDue
  <1>11. m.reg \in Registers /\ s.reg \in Registers
    <2>1. pin \in Pins /\ pin[1] = c.g /\ pin[2] = c.b
      OBVIOUS
    <2> QED
      BY <1>4, <2>1, RegistersAre, PinsAre
  <1>12. Once(L) /\ Ordered(L)
    BY <1>4, <1>5 DEF Once, Ordered
  <1> QED
    BY <1>1, <1>5, <1>6, <1>10, <1>11, <1>12 DEF GoodCall, w2

\* A list that sets and clears pins' bits, and may end with the callback.
LEMMA BitsGood ==
    ASSUME NEW regs, NEW w, AllDue(<<>>, regs, w), NEW w2, GpRecord(w2),
           w2.pull = w.pull, w2.weak = w.weak, w2.mux = w.mux,
           NEW T, NEW L \in Seq(T), Once(L),
           \A k \in DOMAIN L :
             /\ L[k].flip = {} /\ L[k].reg \in Registers
             /\ L[k].reg[1] \in BitKinds \/ (L[k].reg = <<"blc_rf_pa_cb", 0>> /\ k = Len(L)),
           \A kind \in BitKinds, pin \in Pins :
             /\ \A k \in DOMAIN L : L[k].reg = <<kind, pin[1]>> /\ Touches(L[k], pin[2]) =>
                  (pin[2] \in L[k].on <=> pin \in Ones(w2, kind))
             /\ (\A k \in DOMAIN L : L[k].reg = <<kind, pin[1]>> => ~Touches(L[k], pin[2])) =>
                  (pin \in Ones(w2, kind) <=> pin \in Ones(w, kind))
    PROVE  GoodCall(L, regs, w2)
  <1>1. BitsDue(L, regs, w2)
    BY BitsSet
  <1>2. \A k \in DOMAIN L : L[k].reg[1] # "pull" /\ L[k].reg[1] # "pe" /\ L[k].reg[1] # "mux"
    BY DEF BitKinds
  <1>3. AllDue(L, regs, w2)
    BY <1>1, <1>2, PullKept, WeakKept, MuxKept DEF AllDue
  <1>4. Ordered(L)
    BY <1>2 DEF Ordered, BitKinds
  <1> QED
    BY <1>3, <1>4 DEF GoodCall

LEMMA WeakGood ==
    ASSUME NEW regs, NEW w, AllDue(<<>>, regs, w), GpRecord(w),
           NEW c, c.f = "pullup", <<c.g, c.b>> \in Pins, c.g = GroupC
    PROVE  GoodCall(GpSteps(c), regs, Wants(w, c))
  <1> DEFINE pin == <<GroupC, c.b>>
             w2 == Wants(w, c)
             X == w.weak \cup {pin}
             s == Change("pe", GroupC, {}, {c.b})
             L == <<s>>
  <1>1. GpSteps(c) = L
    BY DEF GpSteps, gpio_set_pullup_res_30k
  <1>2. w2 = [w EXCEPT !.weak = X]
    BY DEF Wants
  <1>3. /\ \A y \in X : y = <<GroupC, y[2]>>
        /\ \A x : <<GroupC, x>> \in X <=> x = c.b \/ <<GroupC, x>> \in w.weak
    BY DEF GpRecord
  <1>4. s.reg = <<"pe", GroupC>> /\ s.rmw = TRUE /\ s.off = {} /\ s.on = {c.b} /\ s.flip = {}
    BY DEF Change
  <1>5. DOMAIN L = {1} /\ L[1] = s
    OBVIOUS
  <1> HIDE DEF w2, X, s, L
  <1>6. /\ GpRecord(w2) /\ w2.weak = X
        /\ w2.high = w.high /\ w2.driven = w.driven /\ w2.read = w.read /\ w2.strong = w.strong
        /\ w2.gpio = w.gpio /\ w2.mux = w.mux /\ w2.pull = w.pull
    <2>1. /\ w2.weak = X
          /\ w2.high = w.high /\ w2.driven = w.driven /\ w2.read = w.read /\ w2.strong = w.strong
          /\ w2.gpio = w.gpio /\ w2.mux = w.mux /\ w2.pull = w.pull
      BY <1>2 DEF GpRecord
    <2>2. w2 = [high |-> w2.high, driven |-> w2.driven, read |-> w2.read, strong |-> w2.strong,
                gpio |-> w2.gpio, weak |-> w2.weak, mux |-> w2.mux, pull |-> w2.pull]
      BY <1>2 DEF GpRecord
    <2> QED
      BY <1>3, <2>1, <2>2 DEF GpRecord
  <1>7. WeakDue(L, regs, w2)
    <2> SUFFICES ASSUME NEW x PROVE Due(L, regs, <<"pe", GroupC>>, x, w2.weak, <<GroupC, x>>)
      BY DEF WeakDue
    <2> DEFINE r == <<"pe", GroupC>>
               e == <<GroupC, x>>
    <2>1. x \in regs[r] <=> e \in w.weak
      BY NowDue
    <2>2. s.reg = r /\ (Touches(s, x) <=> x = c.b) /\ (x \in Written(s, regs[r]) <=> x = c.b \/ x \in regs[r])
      BY <1>4 DEF Touches, Written
    <2>3. e \in w2.weak <=> x = c.b \/ e \in w.weak
      BY <1>3, <1>6
    <2> HIDE DEF r, e
    <2>4. Due(L, regs, r, x, w2.weak, e)
      BY <1>5, <2>1, <2>2, <2>3 DEF Due
    <2> QED
      BY <2>4 DEF r, e
  <1>8. BitsDue(L, regs, w2)
    <2>1. \A kind \in BitKinds : Ones(w2, kind) = Ones(w, kind)
      BY <1>6 DEF Ones, BitKinds
    <2>2. \A k \in DOMAIN L : L[k].reg[1] \notin BitKinds
      BY <1>4, <1>5 DEF BitKinds
    <2> QED
      BY <2>1, <2>2, BitsKept
  <1>9. \A k \in DOMAIN L : L[k].reg[1] # "pull" /\ L[k].reg[1] # "mux"
    BY <1>4, <1>5
  <1>10. AllDue(L, regs, w2)
    BY <1>6, <1>7, <1>8, <1>9, PullKept, MuxKept DEF AllDue
  <1>11. s.reg \in Registers
    BY <1>4, RegistersAre
  <1>12. GoodCall(L, regs, w2)
    BY <1>6, <1>10, <1>11, OneStep DEF L
  <1> QED
    BY <1>1, <1>12 DEF w2

LEMMA PullupGood ==
    ASSUME NEW regs, NEW w, AllDue(<<>>, regs, w), GpRecord(w),
           NEW c, c.f = "pullup", <<c.g, c.b>> \in Pins, c.g # GroupC
    PROVE  GoodCall(GpSteps(c), regs, Wants(w, c))
  <1> DEFINE pin == <<c.g, c.b>>
             w2 == Wants(w, c)
             X == w.driven \ {pin}
             Y == w.high \cup {pin}
             s == Change("oen", c.g, {}, {c.b})
             t == Change("out", c.g, {}, {c.b})
             L == <<s, t>>
  <1>1. GpSteps(c) = L
    BY DEF GpSteps, gpio_set_pullup_res_30k
  <1>2. w2 = [w EXCEPT !.driven = X, !.high = Y]
    BY DEF Wants
  <1>3. /\ X \in SUBSET Pins /\ Y \in SUBSET Pins
        /\ \A q \in Pins : q \in Pins \ X <=> q = pin \/ q \in Pins \ w.driven
        /\ \A q \in Pins : q \in Y <=> q = pin \/ q \in w.high
    BY DEF GpRecord
  <1>4. /\ s.reg = <<"oen", c.g>> /\ s.rmw = TRUE /\ s.off = {} /\ s.on = {c.b} /\ s.flip = {}
        /\ t.reg = <<"out", c.g>> /\ t.rmw = TRUE /\ t.off = {} /\ t.on = {c.b} /\ t.flip = {}
    BY DEF Change
  <1>5. DOMAIN L = {1, 2} /\ L[1] = s /\ L[2] = t /\ L \in Seq({s, t})
    OBVIOUS
  <1> HIDE DEF w2, X, Y, s, t, L
  <1>6. /\ GpRecord(w2) /\ w2.driven = X /\ w2.high = Y
        /\ w2.read = w.read /\ w2.strong = w.strong /\ w2.gpio = w.gpio
        /\ w2.weak = w.weak /\ w2.mux = w.mux /\ w2.pull = w.pull
    <2>1. /\ w2.driven = X /\ w2.high = Y
          /\ w2.read = w.read /\ w2.strong = w.strong /\ w2.gpio = w.gpio
          /\ w2.weak = w.weak /\ w2.mux = w.mux /\ w2.pull = w.pull
      BY <1>2 DEF GpRecord
    <2>2. w2 = [high |-> w2.high, driven |-> w2.driven, read |-> w2.read, strong |-> w2.strong,
                gpio |-> w2.gpio, weak |-> w2.weak, mux |-> w2.mux, pull |-> w2.pull]
      BY <1>2 DEF GpRecord
    <2> QED
      BY <1>3, <2>1, <2>2 DEF GpRecord
  <1>7. ASSUME NEW kind \in BitKinds, NEW q \in Pins
        PROVE  /\ \A k \in DOMAIN L : L[k].reg = <<kind, q[1]>> /\ Touches(L[k], q[2]) =>
                    (q[2] \in L[k].on <=> q \in Ones(w2, kind))
               /\ (\A k \in DOMAIN L : L[k].reg = <<kind, q[1]>> => ~Touches(L[k], q[2])) =>
                    (q \in Ones(w2, kind) <=> q \in Ones(w, kind))
    <2>1. q = pin <=> q[1] = c.g /\ q[2] = c.b
      BY PinsAre
    <2>2. (Touches(s, q[2]) <=> q[2] = c.b) /\ (Touches(t, q[2]) <=> q[2] = c.b)
      BY <1>4 DEF Touches
    <2>3. CASE kind = "oen"
      <3>1. Ones(w2, kind) = Pins \ X /\ Ones(w, kind) = Pins \ w.driven
        BY <1>6, <2>3 DEF Ones
      <3> QED
        BY <1>3, <1>4, <1>5, <2>1, <2>2, <2>3, <3>1
    <2>4. CASE kind = "out"
      <3>1. Ones(w2, kind) = Y /\ Ones(w, kind) = w.high
        BY <1>6, <2>4 DEF Ones
      <3> QED
        BY <1>3, <1>4, <1>5, <2>1, <2>2, <2>4, <3>1
    <2>5. CASE kind \notin {"oen", "out"}
      <3>1. Ones(w2, kind) = Ones(w, kind)
        BY <1>6, <2>5 DEF Ones, BitKinds
      <3> QED
        BY <1>4, <1>5, <2>5, <3>1
    <2> QED
      BY <2>3, <2>4, <2>5
  <1>8. /\ Once(L)
        /\ \A k \in DOMAIN L : L[k].flip = {} /\ L[k].reg \in Registers /\ L[k].reg[1] \in BitKinds
    BY <1>4, <1>5, RegistersAre, PinsAre DEF Once, BitKinds
  <1>9. GoodCall(L, regs, w2)
    BY <1>5, <1>6, <1>7, <1>8, BitsGood
  <1> QED
    BY <1>1, <1>9 DEF w2

LEMMA ShutdownGood ==
    ASSUME NEW regs, NEW w, AllDue(<<>>, regs, w), GpRecord(w),
           NEW c, c.f = "shutdown", <<c.g, c.b>> \in Pins
    PROVE  GoodCall(GpSteps(c), regs, Wants(w, c))
  <1> DEFINE pin == <<c.g, c.b>>
             w2 == Wants(w, c)
             own == {c.b} \ Sws(c.g)
             D == w.driven \ {pin}
             H == w.high \ {pin}
             R == w.read \ ({pin} \ {<<0, 3>>})
             F == w.gpio \cup ({pin} \ {<<0, 3>>})
             s1 == Change("out", c.g, {c.b}, {})
             s2 == Change("oen", c.g, {}, {c.b})
             s3 == Change("func", c.g, {}, own)
             s4 == Change("ie", c.g, own, {})
             L == <<s1, s2, s3, s4>>
  <1>1. GpSteps(c) = L
    BY DEF GpSteps, gpio_shutdown
  <1>2. w2 = [w EXCEPT !.high = H, !.driven = D, !.gpio = F, !.read = R]
    BY DEF Wants, Shut
  <1>3. /\ H \in SUBSET Pins /\ D \in SUBSET Pins /\ F \in SUBSET Pins /\ R \in SUBSET Pins
        /\ \A q \in Pins : q \in H <=> q # pin /\ q \in w.high
        /\ \A q \in Pins : q \in Pins \ D <=> q = pin \/ q \in Pins \ w.driven
        /\ \A q \in Pins : q \in F <=> (q = pin /\ q # <<0, 3>>) \/ q \in w.gpio
        /\ \A q \in Pins : q \in R <=> ~(q = pin /\ q # <<0, 3>>) /\ q \in w.read
    BY DEF GpRecord
  <1>4. /\ s1.reg = <<"out", c.g>> /\ s1.rmw = TRUE /\ s1.off = {c.b} /\ s1.on = {} /\ s1.flip = {}
        /\ s2.reg = <<"oen", c.g>> /\ s2.rmw = TRUE /\ s2.off = {} /\ s2.on = {c.b} /\ s2.flip = {}
        /\ s3.reg = <<"func", c.g>> /\ s3.rmw = TRUE /\ s3.off = {} /\ s3.on = own /\ s3.flip = {}
        /\ s4.reg = <<"ie", c.g>> /\ s4.rmw = TRUE /\ s4.off = own /\ s4.on = {} /\ s4.flip = {}
    BY DEF Change
  <1>5. /\ DOMAIN L = {1, 2, 3, 4} /\ L[1] = s1 /\ L[2] = s2 /\ L[3] = s3 /\ L[4] = s4
        /\ L \in Seq({s1, s2, s3, s4})
    OBVIOUS
  <1>6. \A x : x \in own <=> x = c.b /\ pin # <<0, 3>>
    BY DEF Sws
  <1> HIDE DEF w2, H, D, F, R, s1, s2, s3, s4, L, own
  <1>7. /\ GpRecord(w2) /\ w2.high = H /\ w2.driven = D /\ w2.gpio = F /\ w2.read = R
        /\ w2.strong = w.strong /\ w2.weak = w.weak /\ w2.mux = w.mux /\ w2.pull = w.pull
    <2>1. /\ w2.high = H /\ w2.driven = D /\ w2.gpio = F /\ w2.read = R
          /\ w2.strong = w.strong /\ w2.weak = w.weak /\ w2.mux = w.mux /\ w2.pull = w.pull
      BY <1>2 DEF GpRecord
    <2>2. w2 = [high |-> w2.high, driven |-> w2.driven, read |-> w2.read, strong |-> w2.strong,
                gpio |-> w2.gpio, weak |-> w2.weak, mux |-> w2.mux, pull |-> w2.pull]
      BY <1>2 DEF GpRecord
    <2> QED
      BY <1>3, <2>1, <2>2 DEF GpRecord
  <1>8. ASSUME NEW kind \in BitKinds, NEW q \in Pins
        PROVE  /\ \A k \in DOMAIN L : L[k].reg = <<kind, q[1]>> /\ Touches(L[k], q[2]) =>
                    (q[2] \in L[k].on <=> q \in Ones(w2, kind))
               /\ (\A k \in DOMAIN L : L[k].reg = <<kind, q[1]>> => ~Touches(L[k], q[2])) =>
                    (q \in Ones(w2, kind) <=> q \in Ones(w, kind))
    <2>1. q = pin <=> q[1] = c.g /\ q[2] = c.b
      BY PinsAre
    <2>2. /\ Touches(s1, q[2]) <=> q[2] = c.b
          /\ Touches(s2, q[2]) <=> q[2] = c.b
          /\ Touches(s3, q[2]) <=> q[2] \in own
          /\ Touches(s4, q[2]) <=> q[2] \in own
      BY <1>4 DEF Touches
    <2>3. CASE kind = "out"
      <3>1. Ones(w2, kind) = H /\ Ones(w, kind) = w.high
        BY <1>7, <2>3 DEF Ones
      <3> QED
        BY <1>3, <1>4, <1>5, <2>1, <2>2, <2>3, <3>1
    <2>4. CASE kind = "oen"
      <3>1. Ones(w2, kind) = Pins \ D /\ Ones(w, kind) = Pins \ w.driven
        BY <1>7, <2>4 DEF Ones
      <3> QED
        BY <1>3, <1>4, <1>5, <2>1, <2>2, <2>4, <3>1
    <2>5. CASE kind = "func"
      <3>1. Ones(w2, kind) = F /\ Ones(w, kind) = w.gpio
        BY <1>7, <2>5 DEF Ones
      <3> QED
        BY <1>3, <1>4, <1>5, <1>6, <2>1, <2>2, <2>5, <3>1
    <2>6. CASE kind = "ie"
      <3>1. Ones(w2, kind) = R /\ Ones(w, kind) = w.read
        BY <1>7, <2>6 DEF Ones
      <3> QED
        BY <1>3, <1>4, <1>5, <1>6, <2>1, <2>2, <2>6, <3>1
    <2>7. CASE kind = "ds"
      <3>1. Ones(w2, kind) = Ones(w, kind)
        BY <1>7, <2>7 DEF Ones
      <3> QED
        BY <1>4, <1>5, <2>7, <3>1
    <2> QED
      BY <2>3, <2>4, <2>5, <2>6, <2>7 DEF BitKinds
  <1>9. /\ Once(L)
        /\ \A k \in DOMAIN L : L[k].flip = {} /\ L[k].reg \in Registers /\ L[k].reg[1] \in BitKinds
    <2>1. \A j, k \in DOMAIN L : j # k => L[j].reg # L[k].reg
      BY <1>4, <1>5
    <2>2. \A k \in DOMAIN L : L[k].flip = {}
      BY <1>4, <1>5
    <2>3. c.g \in Groups
      BY PinsAre
    <2>4. s1.reg \in Registers /\ s2.reg \in Registers /\ s3.reg \in Registers /\ s4.reg \in Registers
      BY <1>4, <2>3, RegistersAre
    <2>5. s1.reg[1] \in BitKinds /\ s2.reg[1] \in BitKinds /\ s3.reg[1] \in BitKinds /\ s4.reg[1] \in BitKinds
      BY <1>4 DEF BitKinds
    <2> QED
      BY <1>5, <2>1, <2>2, <2>4, <2>5 DEF Once
  <1>10. GoodCall(L, regs, w2)
    BY <1>5, <1>7, <1>8, <1>9, BitsGood
  <1> QED
    BY <1>1, <1>10 DEF w2

\* The step of the m-th block of five for a group.
ShutAt(m, g) == 5 * m + (IF g = 5 THEN 5 ELSE g + 1)
ShutKind(m) == CASE m = 0 -> "out" [] m = 1 -> "oen" [] m = 2 -> "func" [] m = 3 -> "ie"
ShutOn(m, g) == CASE m = 0 -> {} [] m = 1 -> 0 .. 7 [] m = 2 -> (0 .. 7) \ Sws(g) [] m = 3 -> Sws(g)
ShutStep(m, g) == Assign(ShutKind(m), g, ShutOn(m, g))

LEMMA ShutSteps ==
    /\ \A m \in 0 .. 3, g \in Groups : g # 4 =>
         ShutAt(m, g) \in 1 .. 20 /\ gpio_shutdown_all[ShutAt(m, g)] = ShutStep(m, g)
    /\ \A k \in 1 .. 20 : \E m \in 0 .. 3, g \in Groups : g # 4 /\ k = ShutAt(m, g)
  <1>1. ASSUME NEW m \in 0 .. 3, NEW g \in Groups, g # 4
        PROVE  ShutAt(m, g) \in 1 .. 20 /\ gpio_shutdown_all[ShutAt(m, g)] = ShutStep(m, g)
    <2> DEFINE k == ShutAt(m, g)
    <2>1. g \in {0, 1, 2, 3, 5}
      BY <1>1 DEF Groups
    <2>2. /\ k \in 1 .. 20 /\ (m = 0 <=> k \in 1 .. 5) /\ (m = 1 <=> k \in 6 .. 10)
          /\ (m = 2 <=> k \in 11 .. 15) /\ (m = 3 <=> k \in 16 .. 20)
      BY <2>1 DEF ShutAt
    <2>3. k % 5 = IF g = 5 THEN 0 ELSE g + 1
      BY <2>1, SMT DEF ShutAt
    <2>4. (IF k % 5 = 0 THEN 5 ELSE (k % 5) - 1) = g
      BY <2>1, <2>3
    <2> HIDE DEF k
    <2>5. gpio_shutdown_all[k] =
            CASE k \in 1 .. 5   -> Assign("out", g, {})
              [] k \in 6 .. 10  -> Assign("oen", g, 0 .. 7)
              [] k \in 11 .. 15 -> Assign("func", g, (0 .. 7) \ Sws(g))
              [] k \in 16 .. 20 -> Assign("ie", g, Sws(g))
      BY <2>2, <2>4 DEF gpio_shutdown_all
    <2>6. gpio_shutdown_all[k] = Assign(ShutKind(m), g, ShutOn(m, g))
      <3>1. CASE m = 0
        BY <2>2, <2>5, <3>1 DEF ShutKind, ShutOn
      <3>2. CASE m = 1
        BY <2>2, <2>5, <3>2 DEF ShutKind, ShutOn
      <3>3. CASE m = 2
        BY <2>2, <2>5, <3>3 DEF ShutKind, ShutOn
      <3>4. CASE m = 3
        BY <2>2, <2>5, <3>4 DEF ShutKind, ShutOn
      <3> QED
        BY <3>1, <3>2, <3>3, <3>4
    <2> QED
      BY <2>2, <2>6 DEF k, ShutStep
  <1>2. ASSUME NEW k \in 1 .. 20
        PROVE  \E m \in 0 .. 3, g \in Groups : g # 4 /\ k = ShutAt(m, g)
    <2> DEFINE m == IF k <= 5 THEN 0 ELSE IF k <= 10 THEN 1 ELSE IF k <= 15 THEN 2 ELSE 3
               i == k - 5 * m
               g == IF i = 5 THEN 5 ELSE i - 1
    <2>1. m \in 0 .. 3 /\ g \in Groups /\ g # 4 /\ k = ShutAt(m, g)
      BY DEF ShutAt, Groups
    <2> QED
      BY <2>1
  <1> QED
    BY <1>1, <1>2

LEMMA ShutdownAllGood ==
    ASSUME NEW regs, NEW w, AllDue(<<>>, regs, w), GpRecord(w),
           NEW c, c.f = "shutdown_all"
    PROVE  GoodCall(GpSteps(c), regs, Wants(w, c))
  <1> DEFINE w2 == Wants(w, c)
             L == gpio_shutdown_all
             sws == <<0, 3>>
             P == {x \in Pins : x[1] # 4}
             H == w.high \ P
             D == w.driven \ P
             F == (w.gpio \cup P) \ {sws}
             R == (w.read \ P) \cup {sws}
  <1>1. GpSteps(c) = L
    BY DEF GpSteps
  <1>2. w2 = [w EXCEPT !.high = H, !.driven = D, !.gpio = F, !.read = R]
    BY DEF Wants, Shut, GpRecord
  <1>3. /\ H \in SUBSET Pins /\ D \in SUBSET Pins /\ F \in SUBSET Pins /\ R \in SUBSET Pins
        /\ \A q \in Pins : q[1] # 4 =>
             q \notin H /\ q \notin D /\ (q \in F <=> q # sws) /\ (q \in R <=> q = sws)
        /\ \A q \in Pins : q[1] = 4 =>
             /\ (q \in H <=> q \in w.high) /\ (q \in D <=> q \in w.driven)
             /\ (q \in F <=> q \in w.gpio) /\ (q \in R <=> q \in w.read)
    <2>1. sws \in Pins
      BY PinsAre DEF Groups, PinsOf
    <2> QED
      BY <2>1 DEF GpRecord
  <1>4. /\ DOMAIN L = 1 .. 20 /\ L \in Seq({L[k] : k \in 1 .. 20})
        /\ \A k \in DOMAIN L : \E m \in 0 .. 3, g \in Groups : g # 4 /\ k = ShutAt(m, g) /\ L[k] = ShutStep(m, g)
        /\ \A m \in 0 .. 3, g \in Groups : g # 4 => \E k \in DOMAIN L : L[k] = ShutStep(m, g)
    <2>1. DOMAIN L = 1 .. 20
      BY DEF gpio_shutdown_all
    <2>2. L = [k \in 1 .. 20 |-> L[k]]
      BY DEF gpio_shutdown_all
    <2> HIDE DEF L
    <2>3. L \in Seq({L[k] : k \in 1 .. 20})
      BY <2>2
    <2>4. /\ \A m \in 0 .. 3, g \in Groups : g # 4 => ShutAt(m, g) \in 1 .. 20 /\ L[ShutAt(m, g)] = ShutStep(m, g)
          /\ \A k \in 1 .. 20 : \E m \in 0 .. 3, g \in Groups : g # 4 /\ k = ShutAt(m, g)
      BY ShutSteps DEF L
    <2>5. \A k \in DOMAIN L : \E m \in 0 .. 3, g \in Groups : g # 4 /\ k = ShutAt(m, g) /\ L[k] = ShutStep(m, g)
      <3> SUFFICES ASSUME NEW k \in 1 .. 20
                   PROVE  \E m \in 0 .. 3, g \in Groups : g # 4 /\ k = ShutAt(m, g) /\ L[k] = ShutStep(m, g)
        BY <2>1
      <3>1. PICK m \in 0 .. 3, g \in Groups : g # 4 /\ k = ShutAt(m, g)
        BY <2>4
      <3>2. L[k] = ShutStep(m, g)
        BY <2>4, <3>1
      <3> QED
        BY <3>1, <3>2
    <2> QED
      BY <2>1, <2>3, <2>4, <2>5
  <1>5. \A m \in 0 .. 3, g \in Groups :
          /\ ShutStep(m, g).reg = <<ShutKind(m), g>> /\ ShutStep(m, g).rmw = FALSE
          /\ ShutStep(m, g).flip = {} /\ ShutStep(m, g).on = ShutOn(m, g)
    BY DEF ShutStep, Assign
  <1> HIDE DEF w2, H, D, F, R, L, P
  <1>6. /\ GpRecord(w2) /\ w2.high = H /\ w2.driven = D /\ w2.gpio = F /\ w2.read = R
        /\ w2.strong = w.strong /\ w2.weak = w.weak /\ w2.mux = w.mux /\ w2.pull = w.pull
    <2>1. /\ w2.high = H /\ w2.driven = D /\ w2.gpio = F /\ w2.read = R
          /\ w2.strong = w.strong /\ w2.weak = w.weak /\ w2.mux = w.mux /\ w2.pull = w.pull
      BY <1>2 DEF GpRecord
    <2>2. w2 = [high |-> w2.high, driven |-> w2.driven, read |-> w2.read, strong |-> w2.strong,
                gpio |-> w2.gpio, weak |-> w2.weak, mux |-> w2.mux, pull |-> w2.pull]
      BY <1>2 DEF GpRecord
    <2> QED
      BY <1>3, <2>1, <2>2 DEF GpRecord
  <1>7. /\ Ones(w2, "out") = H /\ Ones(w2, "oen") = Pins \ D /\ Ones(w2, "func") = F /\ Ones(w2, "ie") = R
        /\ Ones(w, "out") = w.high /\ Ones(w, "oen") = Pins \ w.driven /\ Ones(w, "func") = w.gpio
        /\ Ones(w, "ie") = w.read /\ Ones(w2, "ds") = Ones(w, "ds")
    BY <1>6 DEF Ones
  <1>8. ASSUME NEW kind \in BitKinds, NEW q \in Pins, NEW k \in DOMAIN L, L[k].reg = <<kind, q[1]>>
        PROVE  q[2] \in L[k].on <=> q \in Ones(w2, kind)
    <2>1. PICK m \in 0 .. 3, g \in Groups : g # 4 /\ L[k] = ShutStep(m, g)
      BY <1>4
    <2>2. q[1] = g /\ kind = ShutKind(m) /\ L[k].on = ShutOn(m, g)
      BY <1>5, <1>8, <2>1
    <2>3. q[2] \in 0 .. 7 /\ (q[2] \in Sws(g) <=> q = sws)
      BY <2>2, PinsAre DEF Sws
    <2>4. q \notin H /\ q \notin D /\ (q \in F <=> q # sws) /\ (q \in R <=> q = sws)
      BY <1>3, <2>1, <2>2
    <2> HIDE DEF sws
    <2> QED
      BY <1>7, <2>2, <2>3, <2>4 DEF ShutKind, ShutOn
  <1>9. ASSUME NEW kind \in BitKinds, NEW q \in Pins,
               \A k \in DOMAIN L : L[k].reg = <<kind, q[1]>> => ~Touches(L[k], q[2])
        PROVE  q \in Ones(w2, kind) <=> q \in Ones(w, kind)
    <2>1. q[1] \in Groups
      BY PinsAre
    <2>2. ASSUME q[1] # 4, NEW m \in 0 .. 3
          PROVE  kind # ShutKind(m)
      <3>1. PICK k \in DOMAIN L : L[k] = ShutStep(m, q[1])
        BY <1>4, <2>1, <2>2
      <3>2. Touches(L[k], q[2])
        BY <1>5, <2>1, <3>1 DEF Touches
      <3> QED
        BY <1>5, <1>9, <2>1, <3>1, <3>2
    <2>3. q[1] # 4 => kind # "out" /\ kind # "oen" /\ kind # "func" /\ kind # "ie"
      BY <2>2 DEF ShutKind
    <2> QED
      BY <1>3, <1>7, <2>3 DEF BitKinds
  <1>10. Once(L)
    <2> SUFFICES ASSUME NEW j \in DOMAIN L, NEW k \in DOMAIN L, L[j].reg = L[k].reg PROVE j = k
      BY DEF Once
    <2>1. PICK m \in 0 .. 3, g \in Groups : j = ShutAt(m, g) /\ L[j] = ShutStep(m, g)
      BY <1>4
    <2>2. PICK n \in 0 .. 3, h \in Groups : k = ShutAt(n, h) /\ L[k] = ShutStep(n, h)
      BY <1>4
    <2>3. m = n /\ g = h
      <3>1. ShutKind(m) = ShutKind(n) /\ g = h
        BY <1>5, <2>1, <2>2
      <3> QED
        BY <3>1 DEF ShutKind
    <2> QED
      BY <2>1, <2>2, <2>3
  <1>11. \A k \in DOMAIN L : L[k].flip = {} /\ L[k].reg \in Registers /\ L[k].reg[1] \in BitKinds
    <2> SUFFICES ASSUME NEW k \in DOMAIN L
                 PROVE  L[k].flip = {} /\ L[k].reg \in Registers /\ L[k].reg[1] \in BitKinds
      OBVIOUS
    <2>1. PICK m \in 0 .. 3, g \in Groups : L[k] = ShutStep(m, g)
      BY <1>4
    <2>2. L[k].reg[1] \in {"ie", "oen", "out", "func"} /\ L[k].reg = <<L[k].reg[1], g>> /\ L[k].flip = {}
      BY <1>5, <2>1 DEF ShutKind
    <2> QED
      BY <2>2, RegistersAre DEF BitKinds
  <1>12. GoodCall(L, regs, w2)
    BY <1>4, <1>6, <1>8, <1>9, <1>10, <1>11, BitsGood
  <1> QED
    BY <1>1, <1>12 DEF w2

LEMMA Joined ==
    ASSUME NEW T, NEW a \in Seq(T), NEW b \in Seq(T), NEW d \in Seq(T), Len(d) = Len(a) + Len(b),
           \A i \in 1 .. Len(a) : d[i] = a[i], \A i \in 1 .. Len(b) : d[Len(a) + i] = b[i]
    PROVE  a \o b = d
  <1>1. /\ a \o b \in Seq(T) /\ Len(a \o b) = Len(d)
        /\ \A i \in 1 .. Len(d) : (a \o b)[i] = IF i <= Len(a) THEN a[i] ELSE b[i - Len(a)]
    BY ConcatProperties
  <1>2. Len(a) \in Nat /\ Len(b) \in Nat
    BY LenProperties
  <1>3. ASSUME NEW i \in 1 .. Len(d) PROVE (a \o b)[i] = d[i]
    <2>1. CASE i <= Len(a)
      BY <1>1, <1>2, <1>3, <2>1
    <2>2. CASE ~(i <= Len(a))
      <3>1. i - Len(a) \in 1 .. Len(b) /\ Len(a) + (i - Len(a)) = i
        BY <1>2, <1>3, <2>2
      <3>2. d[i] = b[i - Len(a)]
        BY <3>1
      <3> QED
        BY <1>1, <2>2, <3>2
    <2> QED
      BY <2>1, <2>2
  <1> QED
    BY <1>1, <1>3, SeqEqual

LEMMA ThreeSteps ==
    ASSUME NEW x1, NEW x2, NEW x3
    PROVE  <<x1>> \o <<x2>> \o <<x3>> = <<x1, x2, x3>>
  <1> DEFINE T == {x1, x2, x3}
             a == <<x1>>
             b == <<x2>>
             d == <<x1, x2>>
             e == <<x3>>
             f == <<x1, x2, x3>>
  <1>1. /\ a \in Seq(T) /\ b \in Seq(T) /\ d \in Seq(T) /\ e \in Seq(T) /\ f \in Seq(T)
        /\ Len(a) = 1 /\ Len(b) = 1 /\ Len(d) = 2 /\ Len(e) = 1 /\ Len(f) = 3
        /\ a[1] = x1 /\ b[1] = x2 /\ d[1] = x1 /\ d[2] = x2 /\ e[1] = x3
        /\ f[1] = x1 /\ f[2] = x2 /\ f[3] = x3
    OBVIOUS
  <1> HIDE DEF T, a, b, d, e, f
  <1>2. a \o b = d
    <2>1. /\ Len(d) = Len(a) + Len(b) /\ \A i \in 1 .. Len(a) : d[i] = a[i]
          /\ \A i \in 1 .. Len(b) : d[Len(a) + i] = b[i]
      BY <1>1
    <2> QED
      BY <1>1, <2>1, Joined
  <1>3. d \o e = f
    <2>1. /\ Len(f) = Len(d) + Len(e) /\ \A i \in 1 .. Len(d) : f[i] = d[i]
          /\ \A i \in 1 .. Len(e) : f[Len(d) + i] = e[i]
      BY <1>1
    <2> QED
      BY <1>1, <2>1, Joined
  <1> QED
    BY <1>2, <1>3 DEF a, b, e, f

LEMMA SevenSteps ==
    ASSUME NEW x1, NEW x2, NEW x3, NEW x4, NEW x5, NEW x6, NEW x7
    PROVE  <<x1, x2, x3>> \o <<x4, x5, x6>> \o <<x7>> = <<x1, x2, x3, x4, x5, x6, x7>>
  <1> DEFINE T == {x1, x2, x3, x4, x5, x6, x7}
             a == <<x1, x2, x3>>
             b == <<x4, x5, x6>>
             d == <<x1, x2, x3, x4, x5, x6>>
             e == <<x7>>
             f == <<x1, x2, x3, x4, x5, x6, x7>>
  <1>1. /\ a \in Seq(T) /\ b \in Seq(T) /\ d \in Seq(T) /\ e \in Seq(T) /\ f \in Seq(T)
        /\ Len(a) = 3 /\ Len(b) = 3 /\ Len(d) = 6 /\ Len(e) = 1 /\ Len(f) = 7
        /\ a[1] = x1 /\ a[2] = x2 /\ a[3] = x3 /\ b[1] = x4 /\ b[2] = x5 /\ b[3] = x6 /\ e[1] = x7
        /\ d[1] = x1 /\ d[2] = x2 /\ d[3] = x3 /\ d[4] = x4 /\ d[5] = x5 /\ d[6] = x6
        /\ f[1] = x1 /\ f[2] = x2 /\ f[3] = x3 /\ f[4] = x4 /\ f[5] = x5 /\ f[6] = x6 /\ f[7] = x7
    OBVIOUS
  <1> HIDE DEF T, a, b, d, e, f
  <1>2. a \o b = d
    <2>1. /\ Len(d) = Len(a) + Len(b) /\ \A i \in 1 .. Len(a) : d[i] = a[i]
          /\ \A i \in 1 .. Len(b) : d[Len(a) + i] = b[i]
      BY <1>1
    <2> QED
      BY <1>1, <2>1, Joined
  <1>3. d \o e = f
    <2>1. /\ Len(f) = Len(d) + Len(e) /\ \A i \in 1 .. Len(d) : f[i] = d[i]
          /\ \A i \in 1 .. Len(e) : f[Len(d) + i] = e[i]
      BY <1>1
    <2> QED
      BY <1>1, <2>1, Joined
  <1> QED
    BY <1>2, <1>3 DEF a, b, e, f

LEMMA PaInitGood ==
    ASSUME NEW regs, NEW w, AllDue(<<>>, regs, w), GpRecord(w),
           NEW c, c.f = "pa_init"
    PROVE  GoodCall(GpSteps(c), regs, Wants(w, c))
  <1> DEFINE w2 == Wants(w, c)
             pa == {<<1, 2>>, <<1, 3>>}
             D == w.driven \cup pa
             H == w.high \ pa
             F == w.gpio \cup pa
             f2 == Change("func", 1, {}, {2})
             o2 == Change("oen", 1, {2}, {})
             h2 == Change("out", 1, {2}, {})
             f3 == Change("func", 1, {}, {3})
             o3 == Change("oen", 1, {3}, {})
             h3 == Change("out", 1, {3}, {})
             cb == Assign("blc_rf_pa_cb", 0, {1})
             L == <<f2, o2, h2, f3, o3, h3, cb>>
  <1>1. GpSteps(c) = L
    <2>1. GpSteps(c) = (<<f2>> \o <<o2>> \o <<h2>>) \o (<<f3>> \o <<o3>> \o <<h3>>) \o <<cb>>
      BY DEF GpSteps, rf_pa_init, gpio_set_func, gpio_set_output_en, gpio_write, Turn, PaGroup,
             PA_TXEN_PIN, PA_RXEN_PIN
    <2> HIDE DEF f2, o2, h2, f3, o3, h3, cb
    <2>2. <<f2>> \o <<o2>> \o <<h2>> = <<f2, o2, h2>> /\ <<f3>> \o <<o3>> \o <<h3>> = <<f3, o3, h3>>
      BY ThreeSteps
    <2>3. <<f2, o2, h2>> \o <<f3, o3, h3>> \o <<cb>> = L
      BY SevenSteps
    <2> QED
      BY <2>1, <2>2, <2>3
  <1>2. w2 = [w EXCEPT !.driven = D, !.high = H, !.gpio = F]
    BY DEF Wants, PaGroup, PA_TXEN_PIN, PA_RXEN_PIN, GpRecord
  <1>3. /\ D \in SUBSET Pins /\ H \in SUBSET Pins /\ F \in SUBSET Pins
        /\ \A q \in Pins : q \in D <=> q \in pa \/ q \in w.driven
        /\ \A q \in Pins : q \in H <=> q \notin pa /\ q \in w.high
        /\ \A q \in Pins : q \in F <=> q \in pa \/ q \in w.gpio
    <2>1. pa \subseteq Pins
      BY PinsAre DEF Groups, PinsOf
    <2> QED
      BY <2>1 DEF GpRecord
  <1>4. /\ f2.reg = <<"func", 1>> /\ f2.rmw = TRUE /\ f2.off = {} /\ f2.on = {2} /\ f2.flip = {}
        /\ o2.reg = <<"oen", 1>> /\ o2.rmw = TRUE /\ o2.off = {2} /\ o2.on = {} /\ o2.flip = {}
        /\ h2.reg = <<"out", 1>> /\ h2.rmw = TRUE /\ h2.off = {2} /\ h2.on = {} /\ h2.flip = {}
        /\ f3.reg = <<"func", 1>> /\ f3.rmw = TRUE /\ f3.off = {} /\ f3.on = {3} /\ f3.flip = {}
        /\ o3.reg = <<"oen", 1>> /\ o3.rmw = TRUE /\ o3.off = {3} /\ o3.on = {} /\ o3.flip = {}
        /\ h3.reg = <<"out", 1>> /\ h3.rmw = TRUE /\ h3.off = {3} /\ h3.on = {} /\ h3.flip = {}
        /\ cb.reg = <<"blc_rf_pa_cb", 0>> /\ cb.flip = {}
    BY DEF Change, Assign
  <1>5. /\ DOMAIN L = 1 .. 7 /\ Len(L) = 7 /\ L \in Seq({f2, o2, h2, f3, o3, h3, cb})
        /\ L[1] = f2 /\ L[2] = o2 /\ L[3] = h2 /\ L[4] = f3 /\ L[5] = o3 /\ L[6] = h3 /\ L[7] = cb
    OBVIOUS
  <1>6. \A q \in Pins : q \in pa <=> q[1] = 1 /\ (q[2] = 2 \/ q[2] = 3)
    BY PinsAre
  <1> HIDE DEF w2, D, H, F, f2, o2, h2, f3, o3, h3, cb, L, pa
  <1>7. /\ GpRecord(w2) /\ w2.high = H /\ w2.driven = D /\ w2.gpio = F
        /\ w2.read = w.read /\ w2.strong = w.strong /\ w2.weak = w.weak /\ w2.mux = w.mux /\ w2.pull = w.pull
    <2>1. /\ w2.high = H /\ w2.driven = D /\ w2.gpio = F /\ w2.read = w.read
          /\ w2.strong = w.strong /\ w2.weak = w.weak /\ w2.mux = w.mux /\ w2.pull = w.pull
      BY <1>2 DEF GpRecord
    <2>2. w2 = [high |-> w2.high, driven |-> w2.driven, read |-> w2.read, strong |-> w2.strong,
                gpio |-> w2.gpio, weak |-> w2.weak, mux |-> w2.mux, pull |-> w2.pull]
      BY <1>2 DEF GpRecord
    <2> QED
      BY <1>3, <2>1, <2>2 DEF GpRecord
  <1>8. /\ Ones(w2, "out") = H /\ Ones(w2, "oen") = Pins \ D /\ Ones(w2, "func") = F
        /\ Ones(w, "out") = w.high /\ Ones(w, "oen") = Pins \ w.driven /\ Ones(w, "func") = w.gpio
        /\ Ones(w2, "ie") = Ones(w, "ie") /\ Ones(w2, "ds") = Ones(w, "ds")
    BY <1>7 DEF Ones
  <1>9. /\ \A x : (Touches(f2, x) <=> x = 2) /\ (Touches(o2, x) <=> x = 2) /\ (Touches(h2, x) <=> x = 2)
        /\ \A x : (Touches(f3, x) <=> x = 3) /\ (Touches(o3, x) <=> x = 3) /\ (Touches(h3, x) <=> x = 3)
    BY <1>4 DEF Touches
  <1>10. ASSUME NEW kind \in BitKinds, NEW q \in Pins
         PROVE  /\ \A k \in DOMAIN L : L[k].reg = <<kind, q[1]>> /\ Touches(L[k], q[2]) =>
                     (q[2] \in L[k].on <=> q \in Ones(w2, kind))
                /\ (\A k \in DOMAIN L : L[k].reg = <<kind, q[1]>> => ~Touches(L[k], q[2])) =>
                     (q \in Ones(w2, kind) <=> q \in Ones(w, kind))
    <2> DEFINE r == <<kind, q[1]>>
    <2>1. /\ cb.reg # r
          /\ f2.reg = r <=> kind = "func" /\ q[1] = 1
          /\ f3.reg = r <=> kind = "func" /\ q[1] = 1
          /\ o2.reg = r <=> kind = "oen" /\ q[1] = 1
          /\ o3.reg = r <=> kind = "oen" /\ q[1] = 1
          /\ h2.reg = r <=> kind = "out" /\ q[1] = 1
          /\ h3.reg = r <=> kind = "out" /\ q[1] = 1
      BY <1>4 DEF BitKinds
    <2>2. ASSUME NEW k \in DOMAIN L
          PROVE  L[k] = f2 \/ L[k] = o2 \/ L[k] = h2 \/ L[k] = f3 \/ L[k] = o3 \/ L[k] = h3 \/ L[k] = cb
      BY <1>5
    <2>3. 1 \in DOMAIN L /\ 2 \in DOMAIN L /\ 3 \in DOMAIN L /\ 4 \in DOMAIN L /\ 5 \in DOMAIN L /\ 6 \in DOMAIN L
      BY <1>5
    <2> HIDE DEF r
    <2>4. ASSUME NEW k \in DOMAIN L, L[k].reg = r, Touches(L[k], q[2])
          PROVE  q[2] \in L[k].on <=> q \in Ones(w2, kind)
      <3>1. /\ (kind = "func" /\ L[k].on = {q[2]}) \/ (kind \in {"oen", "out"} /\ L[k].on = {})
            /\ q[1] = 1 /\ (q[2] = 2 \/ q[2] = 3)
        <4>1. CASE L[k] = f2 \/ L[k] = f3
          <5>1. /\ f2.on = {2} /\ f3.on = {3} /\ (Touches(f2, q[2]) => q[2] = 2) /\ (Touches(f3, q[2]) => q[2] = 3)
                /\ f2.reg = r => kind = "func" /\ q[1] = 1
                /\ f3.reg = r => kind = "func" /\ q[1] = 1
            BY <1>4, <1>9, <2>1
          <5>2. L[k].on = {q[2]} /\ kind = "func" /\ q[1] = 1 /\ (q[2] = 2 \/ q[2] = 3)
            BY <2>4, <4>1, <5>1
          <5> QED
            BY <5>2
        <4>2. CASE L[k] = o2 \/ L[k] = o3
          BY <1>4, <1>9, <2>1, <2>4, <4>2
        <4>3. CASE L[k] = h2 \/ L[k] = h3
          BY <1>4, <1>9, <2>1, <2>4, <4>3
        <4> QED
          BY <2>1, <2>2, <2>4, <4>1, <4>2, <4>3
      <3> QED
        BY <1>3, <1>6, <1>8, <3>1
    <2>5. ASSUME \A k \in DOMAIN L : L[k].reg = r => ~Touches(L[k], q[2])
          PROVE  q \in Ones(w2, kind) <=> q \in Ones(w, kind)
      <3>1. kind \in {"func", "oen", "out"} /\ q[1] = 1 => q[2] # 2 /\ q[2] # 3
        BY <1>5, <1>9, <2>1, <2>3, <2>5
      <3> QED
        BY <1>3, <1>6, <1>8, <3>1 DEF BitKinds
    <2> QED
      BY <2>4, <2>5 DEF r
  <1>11. Once(L)
    <2> SUFFICES ASSUME NEW j \in DOMAIN L, NEW k \in DOMAIN L, j # k, L[j].reg = L[k].reg,
                        NEW x, Touches(L[j], x)
                 PROVE  ~Touches(L[k], x)
      BY DEF Once
    <2>1. \/ (j = 1 /\ k = 4) \/ (j = 4 /\ k = 1) \/ (j = 2 /\ k = 5) \/ (j = 5 /\ k = 2)
          \/ (j = 3 /\ k = 6) \/ (j = 6 /\ k = 3)
      <3>1. L[j].reg[1] = L[k].reg[1]
        OBVIOUS
      <3>2. /\ L[1].reg[1] = "func" /\ L[2].reg[1] = "oen" /\ L[3].reg[1] = "out" /\ L[4].reg[1] = "func"
            /\ L[5].reg[1] = "oen" /\ L[6].reg[1] = "out" /\ L[7].reg[1] = "blc_rf_pa_cb"
        BY <1>4, <1>5
      <3>3. \A i \in 1 .. 7 :
              /\ L[i].reg[1] = "func" => i = 1 \/ i = 4
              /\ L[i].reg[1] = "oen" => i = 2 \/ i = 5
              /\ L[i].reg[1] = "out" => i = 3 \/ i = 6
              /\ L[i].reg[1] = "blc_rf_pa_cb" => i = 7
              /\ L[i].reg[1] \in {"func", "oen", "out", "blc_rf_pa_cb"}
        BY <3>2
      <3>4. j \in 1 .. 7 /\ k \in 1 .. 7
        BY <1>5
      <3>5. /\ L[j].reg[1] = "func" => (j = 1 \/ j = 4) /\ (k = 1 \/ k = 4)
            /\ L[j].reg[1] = "oen" => (j = 2 \/ j = 5) /\ (k = 2 \/ k = 5)
            /\ L[j].reg[1] = "out" => (j = 3 \/ j = 6) /\ (k = 3 \/ k = 6)
            /\ L[j].reg[1] = "blc_rf_pa_cb" => j = 7 /\ k = 7
            /\ L[j].reg[1] \in {"func", "oen", "out", "blc_rf_pa_cb"}
        BY <3>1, <3>3, <3>4
      <3> QED
        BY <3>5
    <2> QED
      BY <1>5, <1>9, <2>1
  <1>12. ASSUME NEW k \in DOMAIN L
         PROVE  /\ L[k].flip = {} /\ L[k].reg \in Registers
                /\ L[k].reg[1] \in BitKinds \/ (L[k].reg = <<"blc_rf_pa_cb", 0>> /\ k = Len(L))
    <2>1. 1 \in Groups
      BY DEF Groups
    <2>2. f2.reg \in Registers /\ o2.reg \in Registers /\ h2.reg \in Registers /\ cb.reg \in Registers
      BY <1>4, <2>1, RegistersAre
    <2>3. L[k].flip = {} /\ L[k].reg \in Registers
      <3>1. /\ f3.reg = f2.reg /\ o3.reg = o2.reg /\ h3.reg = h2.reg
            /\ \A s \in {f2, o2, h2, f3, o3, h3, cb} : s.flip = {}
        BY <1>4
      <3>2. \A s \in {f2, o2, h2, f3, o3, h3, cb} : s.reg \in Registers
        BY <2>2, <3>1
      <3>3. L[k] \in {f2, o2, h2, f3, o3, h3, cb}
        BY <1>5
      <3> QED
        BY <3>1, <3>2, <3>3
    <2>4. k = 7 \/ L[k].reg[1] \in {"func", "oen", "out"}
      BY <1>4, <1>5
    <2>5. k = 7 => L[k].reg = <<"blc_rf_pa_cb", 0>> /\ k = Len(L)
      BY <1>4, <1>5
    <2> QED
      BY <2>3, <2>4, <2>5 DEF BitKinds
  <1>13. GoodCall(L, regs, w2)
    BY <1>5, <1>7, <1>10, <1>11, <1>12, BitsGood
  <1> QED
    BY <1>1, <1>13 DEF w2

LEMMA CallGood ==
    ASSUME NEW regs, NEW w, AllDue(<<>>, regs, w), GpRecord(w), NEW c \in GpCalls
    PROVE  GoodCall(GpSteps(c), regs, Wants(w, c))
  <1>1. /\ c.f \in GpFunctions /\ <<c.g, c.b>> \in Pins
        /\ c.f \in {"output", "input", "strength", "write", "OUTPUT"} => c.v \in BOOLEAN
        /\ c.f \in {"resistor", "PULL"} => c.v \subseteq {0, 1}
        /\ c.f \in {"resistor", "PULL", "PULL_TOGGLE"} => c.g # 4
    BY GpAssumption
  <1>2. CASE c.f = "set_func"
    BY <1>1, <1>2, SetGpioGood, SetFuncGood
  <1>3. CASE c.f = "output"
    BY <1>1, <1>3, OutputGood
  <1>4. CASE c.f = "input"
    BY <1>1, <1>4, InputGood
  <1>5. CASE c.f = "strength"
    BY <1>1, <1>5, StrengthGood
  <1>6. CASE c.f = "write"
    BY <1>1, <1>6, WriteGood
  <1>7. CASE c.f = "OUTPUT"
    BY <1>1, <1>7, OUTPUTGood
  <1>8. CASE c.f = "toggle"
    BY <1>1, <1>8, ToggleGood
  <1>9. CASE c.f \in {"resistor", "PULL"}
    BY <1>1, <1>9, ResistorGood
  <1>10. CASE c.f = "PULL_TOGGLE"
    BY <1>1, <1>10, PullToggleGood
  <1>11. CASE c.f = "shutdown"
    BY <1>1, <1>11, ShutdownGood
  <1>12. CASE c.f = "shutdown_all"
    BY <1>12, ShutdownAllGood
  <1>13. CASE c.f = "pullup"
    BY <1>1, <1>13, WeakGood, PullupGood
  <1>14. CASE c.f = "pa_init"
    BY <1>14, PaInitGood
  <1> QED
    BY <1>1, <1>2, <1>3, <1>4, <1>5, <1>6, <1>7, <1>8, <1>9, <1>10, <1>11, <1>12, <1>13, <1>14
       DEF GpFunctions

----------------------------------------------------------------------------
(* The start, from power-on or from a deep sleep.                          *)

LEMMA StartGood ==
    ASSUME NEW ana \in BOOLEAN, NEW regs, IsRegs(regs), NEW pulls,
           pulls \subseteq {pin \in Pins : pin[1] # 4} \X {0, 1},
           regs[<<"pe", GroupC>>] = {}, \A n \in 0 .. 37 : regs[<<"mux", n>>] = {0},
           ana => pulls = {<<<<0, 3>>, 0>>},
           ~ana => \A pin \in Pins, j \in {0, 1} : pin[1] # 4 =>
             (<<pin[2] % 4, j>> \in regs[<<"pull", PullAt(pin[1], pin[2])>>] <=> <<pin, j>> \in pulls)
    PROVE  /\ IsRegs(gpio_init(ana, regs)) /\ GpRecord(GpStart(pulls))
           /\ AllDue(<<>>, gpio_init(ana, regs), GpStart(pulls))
  <1> DEFINE now == gpio_init(ana, regs)
             w == GpStart(pulls)
             Input == UNION {{g} \X InputDefault(g) : g \in Groups}
             Own == Pins \ UNION {{g} \X Dedicated(g) : g \in Groups}
             mux == [pin \in Pins |-> 0]
  <1>1. IsRegs(now)
    BY DEF IsRegs, gpio_init
  <1>2. \A q \in Pins : (q \in Input <=> q[2] \in InputDefault(q[1])) /\ (q \in Own <=> q[2] \notin Dedicated(q[1]))
    BY PinsAre
  <1>3. Input \subseteq Pins /\ Own \subseteq Pins
    <2>1. \A g \in Groups : InputDefault(g) \subseteq PinsOf(g)
      BY DEF InputDefault, PinsOf
    <2> QED
      BY <2>1, PinsAre
  <1>4. /\ w = [high |-> {}, driven |-> {}, read |-> Input, strong |-> Pins, gpio |-> Own,
                weak |-> {}, mux |-> mux, pull |-> pulls]
        /\ \A q \in Pins : mux[q] = 0
        /\ mux = [q \in Pins |-> mux[q]]
    BY DEF GpStart
  <1> HIDE DEF Input, Own, w, mux
  <1>5. /\ w.high = {} /\ w.driven = {} /\ w.read = Input /\ w.strong = Pins /\ w.gpio = Own
        /\ w.weak = {} /\ w.mux = mux /\ w.pull = pulls
        /\ w = [high |-> w.high, driven |-> w.driven, read |-> w.read, strong |-> w.strong,
                gpio |-> w.gpio, weak |-> w.weak, mux |-> w.mux, pull |-> w.pull]
    BY <1>4
  <1>6. GpRecord(w)
    BY <1>3, <1>4, <1>5 DEF GpRecord
  <1>7. ASSUME NEW kind \in BitKinds, NEW q \in Pins
        PROVE  q[2] \in now[<<kind, q[1]>>] <=> q \in Ones(w, kind)
    <2>1. <<kind, q[1]>> \in Registers /\ q[2] \in PinsOf(q[1])
      BY RegistersAre, PinsAre DEF BitKinds
    <2>2. CASE kind = "out"
      BY <1>5, <2>1, <2>2 DEF gpio_init, Ones
    <2>3. CASE kind = "oen"
      BY <1>5, <2>1, <2>3 DEF gpio_init, Ones
    <2>4. CASE kind = "ie"
      BY <1>2, <1>5, <2>1, <2>4 DEF gpio_init, Ones
    <2>5. CASE kind = "ds"
      BY <1>5, <2>1, <2>5 DEF gpio_init, Ones
    <2>6. CASE kind = "func"
      BY <1>2, <1>5, <2>1, <2>6 DEF gpio_init, Ones
    <2> QED
      BY <2>2, <2>3, <2>4, <2>5, <2>6 DEF BitKinds
  <1>8. ASSUME NEW q \in Pins, NEW j \in {0, 1}, q[1] # 4
        PROVE  <<q[2] % 4, j>> \in now[<<"pull", PullAt(q[1], q[2])>>] <=> <<q, j>> \in w.pull
    <2> DEFINE n == PullAt(q[1], q[2])
    <2>1. <<"pull", n>> \in Registers
      BY RegistersAre
    <2> HIDE DEF n
    <2>2. now[<<"pull", n>>] = IF ana THEN PullDefault(n) ELSE regs[<<"pull", n>>]
      BY <2>1 DEF gpio_init
    <2>3. CASE ana
      <3> DEFINE sws == <<0, 3>>
      <3>1. sws \in Pins /\ sws[1] = 0 /\ sws[2] = 3 /\ sws[2] % 4 = 3 /\ PullAt(sws[1], sws[2]) = 14
        BY PinsAre DEF Groups, PinsOf, PullAt
      <3>2. <<q[2] % 4, j>> \in now[<<"pull", n>>] <=> n = 14 /\ q[2] % 4 = 3 /\ j = 0
        BY <2>2, <2>3 DEF PullDefault
      <3>3. n = 14 /\ q[2] % 4 = 3 => q = sws
        <4> HIDE DEF sws
        <4> QED
          BY <1>8, <3>1, PinsApart DEF n
      <3>4. q = sws => n = 14 /\ q[2] % 4 = 3
        BY <3>1 DEF n
      <3>5. <<q, j>> \in w.pull <=> q = sws /\ j = 0
        BY <1>5, <2>3
      <3> QED
        BY <3>2, <3>3, <3>4, <3>5 DEF n
    <2>4. CASE ~ana
      BY <1>5, <1>8, <2>2, <2>4 DEF n
    <2> QED
      BY <2>3, <2>4
  <1>9. \A x : x \in now[<<"pe", GroupC>>] <=> <<GroupC, x>> \in w.weak
    BY <1>5, RegistersAre DEF gpio_init
  <1>10. ASSUME NEW q \in Pins, NEW x
         PROVE  x \in now[<<"mux", MuxAt(q[1], q[2])>>] <=> x \in {w.mux[q]}
    <2> DEFINE n == MuxAt(q[1], q[2])
    <2>1. <<"mux", n>> \in Registers
      BY RegistersAre
    <2> HIDE DEF n
    <2>2. n \in 0 .. 37
      BY <2>1 DEF Registers
    <2>3. now[<<"mux", n>>] = regs[<<"mux", n>>]
      BY <2>1 DEF gpio_init
    <2> QED
      BY <1>4, <1>5, <2>2, <2>3 DEF n
  <1> HIDE DEF now
  <1>11. AllDue(<<>>, now, w)
    BY <1>7, <1>8, <1>9, <1>10, NowDue
  <1> QED
    BY <1>1, <1>6, <1>11 DEF now, w

----------------------------------------------------------------------------
(* The levels of the amplifier's two pins, which only the callback changes *)
(* once it is on.                                                          *)

Amp == {PaGroup} \X PaPins

\* Two views of the pins as asked for that differ in these levels only.
Near(a, w) ==
    /\ GpRecord(a) /\ GpRecord(w) /\ a.high \ Amp = w.high \ Amp
    /\ a.driven = w.driven /\ a.read = w.read /\ a.strong = w.strong /\ a.gpio = w.gpio
    /\ a.weak = w.weak /\ a.mux = w.mux /\ a.pull = w.pull

\* No step changes them.
Free(L) == \A k \in DOMAIN L : L[k].reg = PaLevels => \A b \in PaPins : ~Touches(L[k], b)

LEMMA AmpIs ==
    /\ PaLevels \in Registers /\ PaLevels = <<"out", 1>> /\ PaPins = {2, 3}
    /\ Amp \subseteq Pins /\ \A q \in Pins : q \in Amp <=> q[1] = 1 /\ q[2] \in PaPins
    /\ \A b \in PaPins : <<PaGroup, b>> \in Amp
  <1>1. PaGroup = 1 /\ PaPins = {2, 3} /\ PaLevels = <<"out", 1>>
    BY DEF PaGroup, PaPins, PaLevels, PA_TXEN_PIN, PA_RXEN_PIN
  <1>2. <<1, 2>> \in Pins /\ <<1, 3>> \in Pins
    BY PinsAre DEF Groups, PinsOf
  <1>3. PaLevels \in Registers
    BY <1>1, RegistersAre DEF Groups
  <1>4. \A q \in Pins : q \in Amp <=> q[1] = 1 /\ q[2] \in PaPins
    BY <1>1, PinsAre DEF Amp
  <1> QED
    BY <1>1, <1>2, <1>3, <1>4 DEF Amp

LEMMA DueSame ==
    ASSUME NEW L, NEW regs, NEW regs2, NEW r, NEW x, NEW S, NEW S2, NEW e,
           x \in regs2[r] <=> x \in regs[r], e \in S2 <=> e \in S, Due(L, regs, r, x, S, e)
    PROVE  Due(L, regs2, r, x, S2, e)
  <1>1. \A k \in DOMAIN L : x \in Written(L[k], regs2[r]) <=> x \in Written(L[k], regs[r])
    BY DEF Written
  <1> QED
    BY <1>1 DEF Due

\* Registers and view may change these levels together.
LEMMA LevelsSwap ==
    ASSUME NEW L, Free(L), NEW regs, NEW regs2, NEW a, NEW a2, Near(a2, a), AllDue(L, regs, a),
           \A r \in Registers : r # PaLevels => regs2[r] = regs[r],
           \A x : x \notin PaPins => (x \in regs2[PaLevels] <=> x \in regs[PaLevels]),
           \A b \in PaPins : b \in regs2[PaLevels] <=> <<PaGroup, b>> \in a2.high
    PROVE  AllDue(L, regs2, a2)
  <1>1. BitsDue(L, regs2, a2)
    <2> SUFFICES ASSUME NEW kind \in BitKinds, NEW q \in Pins
                 PROVE  Due(L, regs2, <<kind, q[1]>>, q[2], Ones(a2, kind), q)
      BY DEF BitsDue
    <2> DEFINE r == <<kind, q[1]>>
    <2>1. Due(L, regs, r, q[2], Ones(a, kind), q)
      BY DEF AllDue, BitsDue
    <2>2. r \in Registers /\ (r = PaLevels <=> kind = "out" /\ q[1] = 1)
      BY RegistersAre, PinsAre, AmpIs DEF BitKinds
    <2>3. (kind # "out" => Ones(a2, kind) = Ones(a, kind)) /\ Ones(a2, "out") = a2.high /\ Ones(a, "out") = a.high
      BY DEF Ones, BitKinds, Near
    <2>4. q \notin Amp => (q \in a2.high <=> q \in a.high)
      BY DEF Near
    <2>5. CASE r # PaLevels
      <3>1. q \in Ones(a2, kind) <=> q \in Ones(a, kind)
        BY <2>2, <2>3, <2>4, <2>5, AmpIs
      <3>2. regs2[r] = regs[r]
        BY <2>2, <2>5
      <3> HIDE DEF r
      <3>3. Due(L, regs2, r, q[2], Ones(a2, kind), q)
        BY <2>1, <3>1, <3>2, DueSame
      <3> QED
        BY <3>3 DEF r
    <2>6. CASE r = PaLevels /\ q[2] \notin PaPins
      <3>1. q \in Ones(a2, kind) <=> q \in Ones(a, kind)
        BY <2>2, <2>3, <2>4, <2>6, AmpIs
      <3>2. q[2] \in regs2[r] <=> q[2] \in regs[r]
        BY <2>6
      <3> HIDE DEF r
      <3>3. Due(L, regs2, r, q[2], Ones(a2, kind), q)
        BY <2>1, <3>1, <3>2, DueSame
      <3> QED
        BY <3>3 DEF r
    <2>7. CASE r = PaLevels /\ q[2] \in PaPins
      <3>1. q = <<PaGroup, q[2]>>
        BY <2>2, <2>7, PinsAre DEF PaGroup
      <3>2. q[2] \in regs2[r] <=> q \in Ones(a2, kind)
        BY <2>2, <2>3, <2>7, <3>1
      <3>3. \A k \in DOMAIN L : L[k].reg = r => ~Touches(L[k], q[2])
        BY <2>7 DEF Free
      <3> HIDE DEF r
      <3>4. Due(L, regs2, r, q[2], Ones(a2, kind), q)
        BY <3>2, <3>3 DEF Due
      <3> QED
        BY <3>4 DEF r
    <2> QED
      BY <2>5, <2>6, <2>7
  <1>2. \A n, y : <<n, y>> \in Registers /\ n # "out" => regs2[<<n, y>>] = regs[<<n, y>>]
    BY AmpIs
  <1>3. a2.weak = a.weak /\ a2.mux = a.mux /\ a2.pull = a.pull
    BY DEF Near
  <1>4. PullDue(L, regs2, a2)
    <2> SUFFICES ASSUME NEW q \in Pins, NEW j \in {0, 1}, q[1] # 4
                 PROVE  Due(L, regs2, <<"pull", PullAt(q[1], q[2])>>, <<q[2] % 4, j>>, a2.pull, <<q, j>>)
      BY DEF PullDue
    <2> DEFINE r == <<"pull", PullAt(q[1], q[2])>>
               x == <<q[2] % 4, j>>
               e == <<q, j>>
    <2>1. Due(L, regs, r, x, a.pull, e) /\ regs2[r] = regs[r]
      BY <1>2, RegistersAre DEF AllDue, PullDue
    <2> HIDE DEF r, x, e
    <2>2. Due(L, regs2, r, x, a2.pull, e)
      BY <1>3, <2>1, DueSame
    <2> QED
      BY <2>2 DEF r, x, e
  <1>5. WeakDue(L, regs2, a2)
    <2>1. WeakDue(L, regs, a)
      BY DEF AllDue
    <2>2. regs2[<<"pe", GroupC>>] = regs[<<"pe", GroupC>>]
      BY <1>2, RegistersAre
    <2> QED
      BY <1>3, <2>1, <2>2, DueSame DEF WeakDue
  <1>6. MuxDue(L, regs2, a2)
    <2> SUFFICES ASSUME NEW q \in Pins, NEW x
                 PROVE  Due(L, regs2, <<"mux", MuxAt(q[1], q[2])>>, x, {a2.mux[q]}, x)
      BY DEF MuxDue
    <2> DEFINE r == <<"mux", MuxAt(q[1], q[2])>>
    <2>1. Due(L, regs, r, x, {a.mux[q]}, x) /\ regs2[r] = regs[r]
      BY <1>2, RegistersAre DEF AllDue, MuxDue
    <2> HIDE DEF r
    <2>2. Due(L, regs2, r, x, {a2.mux[q]}, x)
      BY <1>3, <2>1, DueSame
    <2> QED
      BY <2>2 DEF r
  <1> QED
    BY <1>1, <1>4, <1>5, <1>6 DEF AllDue

\* A view with these levels as a register has them.
LEMMA ViewOf ==
    ASSUME NEW a, GpRecord(a), NEW v
    PROVE  \E a2 : Near(a2, a) /\ \A b \in PaPins : b \in v <=> <<PaGroup, b>> \in a2.high
  <1> DEFINE H == (a.high \ Amp) \cup {q \in Amp : q[2] \in v}
             a2 == [a EXCEPT !.high = H]
  <1>1. /\ H \subseteq Pins /\ H \ Amp = a.high \ Amp
        /\ \A b \in PaPins : b \in v <=> <<PaGroup, b>> \in H
    BY AmpIs DEF GpRecord
  <1> HIDE DEF H
  <1>2. /\ a2.high = H
        /\ a2.driven = a.driven /\ a2.read = a.read /\ a2.strong = a.strong /\ a2.gpio = a.gpio
        /\ a2.weak = a.weak /\ a2.mux = a.mux /\ a2.pull = a.pull
    BY DEF GpRecord
  <1>3. a2 = [high |-> a2.high, driven |-> a2.driven, read |-> a2.read, strong |-> a2.strong,
              gpio |-> a2.gpio, weak |-> a2.weak, mux |-> a2.mux, pull |-> a2.pull]
    BY DEF GpRecord
  <1> HIDE DEF a2
  <1>4. Near(a2, a)
    BY <1>1, <1>2, <1>3 DEF Near, GpRecord
  <1> QED
    BY <1>1, <1>2, <1>4

\* And the registers with the levels of a view.
LEMMA RegsOf ==
    ASSUME NEW regs, IsRegs(regs), NEW a, NEW w, Near(w, a), AllDue(<<>>, regs, a)
    PROVE  \E regs2 : AllDue(<<>>, regs2, w)
  <1> DEFINE v == (regs[PaLevels] \ PaPins) \cup {b \in PaPins : <<PaGroup, b>> \in w.high}
             regs2 == [regs EXCEPT ![PaLevels] = v]
  <1>1. \A r \in Registers : regs2[r] = IF r = PaLevels THEN v ELSE regs[r]
    BY AmpIs DEF IsRegs
  <1>2. Free(<<>>)
    BY DEF Free
  <1>3. /\ \A r \in Registers : r # PaLevels => regs2[r] = regs[r]
        /\ \A x : x \notin PaPins => (x \in regs2[PaLevels] <=> x \in regs[PaLevels])
        /\ \A b \in PaPins : b \in regs2[PaLevels] <=> <<PaGroup, b>> \in w.high
    <2>1. regs2[PaLevels] = v
      BY <1>1, AmpIs
    <2>2. /\ \A x : x \notin PaPins => (x \in v <=> x \in regs[PaLevels])
          /\ \A b \in PaPins : b \in v <=> <<PaGroup, b>> \in w.high
      OBVIOUS
    <2> HIDE DEF regs2, v
    <2> QED
      BY <1>1, <2>1, <2>2
  <1> HIDE DEF regs2
  <1>4. AllDue(<<>>, regs2, w)
    BY <1>2, <1>3, LevelsSwap
  <1> QED
    BY <1>4

\* A call asks the same of two such views.
LEMMA WantsNear ==
    ASSUME NEW a, NEW w, Near(a, w), NEW c \in GpCalls,
           GpRecord(Wants(a, c)), GpRecord(Wants(w, c))
    PROVE  Near(Wants(a, c), Wants(w, c))
  <1> DEFINE a2 == Wants(a, c)
             w2 == Wants(w, c)
             pin == <<c.g, c.b>>
             Same(u, v) == /\ u.driven = v.driven /\ u.read = v.read /\ u.strong = v.strong
                           /\ u.gpio = v.gpio /\ u.weak = v.weak /\ u.mux = v.mux /\ u.pull = v.pull
  <1>1. c.f \in GpFunctions
    BY GpAssumption
  <1>2. GpRecord(a) /\ GpRecord(w) /\ Same(a, w) /\ a.high \ Amp = w.high \ Amp
    BY DEF Near
  <1>3. ASSUME a2.high \ Amp = w2.high \ Amp, Same(a2, w2)
        PROVE  Near(a2, w2)
    BY <1>3 DEF Near
  <1>4. CASE c.f = "set_func"
    <2>1. CASE c.v = AS_GPIO
      BY <1>2, <1>3, <1>4, <2>1 DEF Wants, GpRecord
    <2>2. CASE c.v # AS_GPIO
      BY <1>2, <1>3, <1>4, <2>2 DEF Wants, GpRecord
    <2> QED
      BY <2>1, <2>2
  <1>5. CASE c.f \in {"output", "input", "strength"}
    BY <1>2, <1>3, <1>5 DEF Wants, GpRecord
  <1>6. CASE c.f \in {"write", "OUTPUT", "toggle"}
    <2>1. /\ With(a.high, pin, c.v) \ Amp = With(w.high, pin, c.v) \ Amp
          /\ With(a.high, pin, pin \notin a.high) \ Amp = With(w.high, pin, pin \notin w.high) \ Amp
      BY <1>2 DEF With
    <2>2. CASE c.f \in {"write", "OUTPUT"}
      <3>1. /\ a2 = [a EXCEPT !.high = With(@, pin, c.v)]
            /\ w2 = [w EXCEPT !.high = With(@, pin, c.v)]
        BY <2>2 DEF Wants
      <3> QED
        BY <1>2, <1>3, <2>1, <3>1 DEF GpRecord
    <2>3. CASE c.f = "toggle"
      <3>1. /\ a2 = [a EXCEPT !.high = With(@, pin, pin \notin @)]
            /\ w2 = [w EXCEPT !.high = With(@, pin, pin \notin @)]
        BY <2>3 DEF Wants
      <3> QED
        BY <1>2, <1>3, <2>1, <3>1 DEF GpRecord
    <2> QED
      BY <1>6, <2>2, <2>3
  <1>7. CASE c.f \in {"resistor", "PULL", "PULL_TOGGLE"}
    BY <1>2, <1>3, <1>7 DEF Wants, GpRecord
  <1>8. CASE c.f \in {"shutdown", "shutdown_all"}
    <2>1. \A P, S : Same(Shut(a, P, S), Shut(w, P, S))
                    /\ Shut(a, P, S).high \ Amp = Shut(w, P, S).high \ Amp
      BY <1>2 DEF Shut, GpRecord
    <2>2. CASE c.f = "shutdown"
      BY <1>3, <2>1, <2>2 DEF Wants
    <2>3. CASE c.f = "shutdown_all"
      <3> DEFINE P == {x \in Pins : x[1] # 4}
                 sws == <<0, 3>>
                 H(u) == u.high \ P
                 D(u) == u.driven \ P
                 F(u) == (u.gpio \cup P) \ {sws}
                 R(u) == (u.read \ P) \cup {sws}
      <3>1. \A u : GpRecord(u) =>
              Wants(u, c) = [u EXCEPT !.high = H(u), !.driven = D(u), !.gpio = F(u), !.read = R(u)]
        <4> SUFFICES ASSUME NEW u, GpRecord(u)
                     PROVE  Wants(u, c) = [u EXCEPT !.high = H(u), !.driven = D(u), !.gpio = F(u), !.read = R(u)]
          OBVIOUS
        <4>1. Wants(u, c) = [Shut(u, P, {}) EXCEPT !.gpio = @ \ {sws}, !.read = @ \cup {sws}]
          BY <2>3 DEF Wants
        <4>2. Shut(u, P, {}) = [u EXCEPT !.high = H(u), !.driven = D(u), !.gpio = u.gpio \cup P, !.read = u.read \ P]
          <5>1. P \ {} = P
            OBVIOUS
          <5> HIDE DEF P
          <5> QED
            BY <5>1 DEF Shut, GpRecord
        <4> HIDE DEF P, sws
        <4> QED
          BY <4>1, <4>2 DEF GpRecord
      <3>2. /\ a2 = [a EXCEPT !.high = H(a), !.driven = D(a), !.gpio = F(a), !.read = R(a)]
            /\ w2 = [w EXCEPT !.high = H(w), !.driven = D(w), !.gpio = F(w), !.read = R(w)]
        BY <1>2, <3>1
      <3>3. H(a) \ Amp = H(w) \ Amp /\ D(a) = D(w) /\ F(a) = F(w) /\ R(a) = R(w)
        BY <1>2
      <3> HIDE DEF a2, w2, H, D, F, R
      <3>4. /\ a2.high = H(a) /\ a2.driven = D(a) /\ a2.gpio = F(a) /\ a2.read = R(a)
            /\ a2.strong = a.strong /\ a2.weak = a.weak /\ a2.mux = a.mux /\ a2.pull = a.pull
        BY <1>2, <3>2 DEF GpRecord
      <3>5. /\ w2.high = H(w) /\ w2.driven = D(w) /\ w2.gpio = F(w) /\ w2.read = R(w)
            /\ w2.strong = w.strong /\ w2.weak = w.weak /\ w2.mux = w.mux /\ w2.pull = w.pull
        BY <1>2, <3>2 DEF GpRecord
      <3>6. Same(a2, w2)
        BY <1>2, <3>3, <3>4, <3>5
      <3>7. a2.high \ Amp = w2.high \ Amp
        BY <3>3, <3>4, <3>5
      <3> QED
        BY <1>3, <3>6, <3>7 DEF a2, w2
    <2> QED
      BY <1>8, <2>2, <2>3
  <1>9. CASE c.f = "pullup"
    <2>1. CASE c.g = GroupC
      BY <1>2, <1>3, <1>9, <2>1 DEF Wants, GpRecord
    <2>2. CASE c.g # GroupC
      BY <1>2, <1>3, <1>9, <2>2 DEF Wants, GpRecord
    <2> QED
      BY <2>1, <2>2
  <1>10. CASE c.f = "pa_init"
    <2> DEFINE pa == {<<PaGroup, PA_TXEN_PIN>>, <<PaGroup, PA_RXEN_PIN>>}
    <2>1. /\ a2 = [a EXCEPT !.gpio = @ \cup pa, !.driven = @ \cup pa, !.high = @ \ pa]
          /\ w2 = [w EXCEPT !.gpio = @ \cup pa, !.driven = @ \cup pa, !.high = @ \ pa]
      BY <1>10 DEF Wants
    <2> HIDE DEF pa, a2, w2
    <2>2. /\ a2.high = a.high \ pa /\ a2.driven = a.driven \cup pa /\ a2.gpio = a.gpio \cup pa
          /\ a2.read = a.read /\ a2.strong = a.strong /\ a2.weak = a.weak /\ a2.mux = a.mux /\ a2.pull = a.pull
      BY <1>2, <2>1 DEF GpRecord
    <2>3. /\ w2.high = w.high \ pa /\ w2.driven = w.driven \cup pa /\ w2.gpio = w.gpio \cup pa
          /\ w2.read = w.read /\ w2.strong = w.strong /\ w2.weak = w.weak /\ w2.mux = w.mux /\ w2.pull = w.pull
      BY <1>2, <2>1 DEF GpRecord
    <2>4. Same(a2, w2)
      BY <1>2, <2>2, <2>3
    <2>5. (a.high \ pa) \ Amp = (w.high \ pa) \ Amp
      BY <1>2
    <2>6. a2.high \ Amp = w2.high \ Amp
      BY <2>2, <2>3, <2>5
    <2> QED
      BY <1>3, <2>4, <2>6 DEF a2, w2
  <1> QED
    BY <1>1, <1>4, <1>5, <1>6, <1>7, <1>8, <1>9, <1>10 DEF GpFunctions

----------------------------------------------------------------------------
(* Every bit is as asked, or a step still to make will make it so, except  *)
(* for the levels of a callback undone; and a value read is that of the    *)
(* register, until it is written back or the callback comes in between.    *)

GpInv ==
    /\ IsRegs(gp_reg)
    /\ \E T : gp_todo \in Seq(T)
    /\ \A k \in DOMAIN gp_todo :
         /\ gp_todo[k].reg \in Registers
         /\ gp_todo[k].reg[1] = "mux" => k = 1 /\ gp_first
         /\ gp_todo[k].reg = <<"blc_rf_pa_cb", 0>> => k = Len(gp_todo)
    /\ PaOn => Free(gp_todo)
    /\ Once(gp_todo)
    /\ \E a : Near(a, gp_asked) /\ AllDue(gp_todo, gp_reg, a) /\ (pa_undone \/ a = gp_asked)
    /\ gp_held # <<>> => gp_todo # <<>> /\ \E v : gp_held = <<v>> /\
         \/ v = gp_reg[Head(gp_todo).reg]
         \/ /\ pa_undone /\ Head(gp_todo).reg = PaLevels /\ Free(gp_todo)
            /\ v \ PaPins = gp_reg[PaLevels] \ PaPins

LEMMA IdleInv ==
    ASSUME IsRegs(gp_reg), GpRecord(gp_asked), gp_todo = <<>>, gp_held = <<>>,
           AllDue(<<>>, gp_reg, gp_asked)
    PROVE  GpInv
  <1>1. DOMAIN gp_todo = {} /\ gp_todo \in Seq({})
    OBVIOUS
  <1>2. Once(gp_todo) /\ Free(gp_todo)
    BY <1>1 DEF Once, Free
  <1>3. Near(gp_asked, gp_asked)
    BY DEF Near
  <1> QED
    BY <1>1, <1>2, <1>3 DEF GpInv

LEMMA GpInitInv == GpInit => GpInv
  <1> SUFFICES ASSUME GpInit PROVE GpInv
    OBVIOUS
  <1> DEFINE P == {<<<<0, 3>>, 0>>}
  <1>1. IsRegs(PowerOn) /\ PowerOn[<<"pe", GroupC>>] = {} /\ \A n \in 0 .. 37 : PowerOn[<<"mux", n>>] = {0}
    BY RegistersAre DEF PowerOn, IsRegs, Registers
  <1>2. P \subseteq {q \in Pins : q[1] # 4} \X {0, 1}
    BY PinsAre DEF Groups, PinsOf
  <1>3. /\ IsRegs(gpio_init(TRUE, PowerOn)) /\ GpRecord(GpStart(P))
        /\ AllDue(<<>>, gpio_init(TRUE, PowerOn), GpStart(P))
    BY <1>1, <1>2, StartGood
  <1> QED
    BY <1>3, IdleInv DEF GpInit

LEMMA GpWakeInv == GpInv /\ GpWake => GpInv'
  <1> SUFFICES ASSUME GpInv, GpWake PROVE GpInv'
    OBVIOUS
  <1>1. PICK ana \in BOOLEAN :
          /\ gp_reg' = gpio_init(ana,
                [r \in Registers |-> IF ~ana /\ r[1] \in {"pull", "blc_rf_pa_cb"} THEN gp_reg[r] ELSE PowerOn[r]])
          /\ gp_asked' = GpStart(IF ana THEN {<<<<0, 3>>, 0>>} ELSE gp_asked.pull)
    BY DEF GpWake
  <1> DEFINE regs == [r \in Registers |->
                        IF ~ana /\ r[1] \in {"pull", "blc_rf_pa_cb"} THEN gp_reg[r] ELSE PowerOn[r]]
             P == IF ana THEN {<<<<0, 3>>, 0>>} ELSE gp_asked.pull
  <1>2. gp_todo = <<>> /\ gp_todo' = <<>> /\ gp_held = <<>> /\ gp_held' = <<>>
    BY DEF GpWake, GpInv
  <1>3. PICK a : Near(a, gp_asked) /\ AllDue(<<>>, gp_reg, a)
    BY <1>2 DEF GpInv
  <1>4. IsRegs(regs) /\ regs[<<"pe", GroupC>>] = {} /\ \A n \in 0 .. 37 : regs[<<"mux", n>>] = {0}
    BY RegistersAre DEF PowerOn, IsRegs, Registers
  <1>5. P \subseteq {q \in Pins : q[1] # 4} \X {0, 1}
    BY <1>3, PinsAre DEF Groups, PinsOf, GpRecord, Near
  <1>6. ~ana => \A q \in Pins, j \in {0, 1} : q[1] # 4 =>
          (<<q[2] % 4, j>> \in regs[<<"pull", PullAt(q[1], q[2])>>] <=> <<q, j>> \in P)
    <2> SUFFICES ASSUME ~ana, NEW q \in Pins, NEW j \in {0, 1}, q[1] # 4
                 PROVE  <<q[2] % 4, j>> \in regs[<<"pull", PullAt(q[1], q[2])>>] <=> <<q, j>> \in P
      OBVIOUS
    <2>1. <<q[2] % 4, j>> \in gp_reg[<<"pull", PullAt(q[1], q[2])>>] <=> <<q, j>> \in gp_asked.pull
      BY <1>3, NowDue DEF Near
    <2>2. regs[<<"pull", PullAt(q[1], q[2])>>] = gp_reg[<<"pull", PullAt(q[1], q[2])>>]
      BY RegistersAre
    <2> QED
      BY <2>1, <2>2
  <1>7. gp_reg' = gpio_init(ana, regs) /\ gp_asked' = GpStart(P) /\ (ana => P = {<<<<0, 3>>, 0>>})
    BY <1>1
  <1> HIDE DEF regs, P
  <1>8. IsRegs(gp_reg') /\ GpRecord(gp_asked') /\ AllDue(<<>>, gp_reg', gp_asked')
    BY <1>4, <1>5, <1>6, <1>7, StartGood
  <1>9. DOMAIN gp_todo' = {} /\ gp_todo' \in Seq({})
    BY <1>2
  <1>10. Once(gp_todo') /\ Free(gp_todo')
    BY <1>9 DEF Once, Free
  <1>11. Near(gp_asked', gp_asked') /\ AllDue(gp_todo', gp_reg', gp_asked')
    BY <1>2, <1>8 DEF Near
  <1> QED
    BY <1>2, <1>8, <1>9, <1>10, <1>11 DEF GpInv

LEMMA GpCallInv == GpInv /\ GpCall => GpInv'
  <1> SUFFICES ASSUME GpInv, GpCall PROVE GpInv'
    OBVIOUS
  <1>1. PICK c \in GpCalls :
          /\ PaOn => \A k \in DOMAIN GpSteps(c) :
               GpSteps(c)[k].reg = PaLevels => \A b \in PaPins : ~Touches(GpSteps(c)[k], b)
          /\ gp_todo' = GpSteps(c) /\ gp_asked' = Wants(gp_asked, c)
    BY DEF GpCall
  <1>2. /\ gp_todo = <<>> /\ gp_held = <<>> /\ gp_held' = gp_held /\ gp_reg' = gp_reg
        /\ gp_first' = TRUE /\ pa_undone' = pa_undone
    BY DEF GpCall, GpInv
  <1>3. PICK a : Near(a, gp_asked) /\ AllDue(<<>>, gp_reg, a) /\ (pa_undone \/ a = gp_asked)
    BY <1>2 DEF GpInv
  <1>4. IsRegs(gp_reg) /\ GpRecord(a) /\ GpRecord(gp_asked) /\ Near(gp_asked, a)
    BY <1>3 DEF GpInv, Near
  <1>5. GoodCall(GpSteps(c), gp_reg, Wants(a, c))
    BY <1>3, <1>4, CallGood
  <1>6. GpRecord(Wants(gp_asked, c))
    <2>1. PICK regs2 : AllDue(<<>>, regs2, gp_asked)
      BY <1>3, <1>4, RegsOf
    <2> QED
      BY <1>4, <2>1, CallGood DEF GoodCall
  <1>7. Near(Wants(a, c), Wants(gp_asked, c))
    BY <1>3, <1>5, <1>6, WantsNear DEF GoodCall
  <1>8. PaOn' => Free(gp_todo')
    BY <1>1, <1>2 DEF PaOn, Free
  <1>9. AllDue(gp_todo', gp_reg', Wants(a, c)) /\ Near(Wants(a, c), gp_asked')
        /\ (pa_undone' \/ Wants(a, c) = gp_asked')
    BY <1>1, <1>2, <1>3, <1>5, <1>7 DEF GoodCall
  <1> QED
    BY <1>1, <1>2, <1>4, <1>5, <1>8, <1>9 DEF GpInv, GoodCall, Ordered

LEMMA GpReadInv == GpInv /\ GpRead => GpInv'
  <1> SUFFICES ASSUME GpInv, GpRead PROVE GpInv'
    OBVIOUS
  <1>1. /\ gp_todo # <<>> /\ gp_held' = <<gp_reg[Head(gp_todo).reg]>>
        /\ gp_reg' = gp_reg /\ gp_todo' = gp_todo /\ gp_asked' = gp_asked /\ gp_first' = gp_first
        /\ pa_undone' = pa_undone
    BY DEF GpRead
  <1>2. PaOn' <=> PaOn
    BY <1>1 DEF PaOn
  <1> QED
    BY <1>1, <1>2 DEF GpInv

LEMMA GpWriteInv == GpInv /\ GpWrite => GpInv'
  <1> SUFFICES ASSUME GpInv, GpWrite PROVE GpInv'
    OBVIOUS
  <1> DEFINE L == gp_todo
             M == Tail(L)
             h == L[1]
  <1>1. /\ L # <<>> /\ (Head(L).rmw => gp_held # <<>>)
        /\ gp_reg' = [gp_reg EXCEPT ![Head(L).reg] = Written(Head(L), IF Head(L).rmw THEN gp_held[1] ELSE {})]
        /\ gp_todo' = M /\ gp_held' = <<>> /\ gp_first' = FALSE /\ gp_asked' = gp_asked
        /\ pa_undone' = pa_undone
    BY DEF GpWrite
  <1>2. PICK T : L \in Seq(T)
    BY DEF GpInv
  <1>3. /\ Head(L) = h /\ 1 \in DOMAIN L /\ Len(M) = Len(L) - 1 /\ Len(L) \in Nat /\ M \in Seq(T)
        /\ \A k \in DOMAIN M : k + 1 \in DOMAIN L /\ k + 1 # 1 /\ M[k] = L[k + 1] /\ k \in 1 .. Len(L) - 1
    BY <1>1, <1>2
  <1>4. h.reg \in Registers /\ IsRegs(gp_reg) /\ Once(L)
    BY <1>3 DEF GpInv
  <1>5. PICK a : Near(a, gp_asked) /\ AllDue(L, gp_reg, a) /\ (pa_undone \/ a = gp_asked)
    BY DEF GpInv
  <1>6. \E a2 : Near(a2, gp_asked) /\ AllDue(M, gp_reg', a2) /\ (pa_undone \/ a2 = gp_asked)
    <2>1. CASE h.rmw => gp_held[1] = gp_reg[h.reg]
      <3> HIDE DEF L, h
      <3>1. gp_reg' = AfterHead(L, gp_reg)
        BY <1>1, <1>3, <2>1 DEF AfterHead
      <3>2. AllDue(M, AfterHead(L, gp_reg), a)
        BY <1>1, <1>2, <1>3, <1>4, <1>5, AllWriteDue
      <3> QED
        BY <1>5, <3>1, <3>2
    <2>2. CASE h.rmw /\ gp_held[1] # gp_reg[h.reg]
      <3>1. PICK v : /\ gp_held = <<v>> /\ pa_undone /\ h.reg = PaLevels /\ Free(L)
                     /\ v \ PaPins = gp_reg[PaLevels] \ PaPins
        BY <1>1, <1>3, <2>2 DEF GpInv
      <3> DEFINE mid == [gp_reg EXCEPT ![PaLevels] = v]
      <3> HIDE DEF L, h
      <3>2. IsRegs(mid) /\ \A r \in Registers : mid[r] = IF r = PaLevels THEN v ELSE gp_reg[r]
        BY <1>4, AmpIs DEF IsRegs
      <3>3. PICK a2 : Near(a2, a) /\ \A b \in PaPins : b \in v <=> <<PaGroup, b>> \in a2.high
        BY <1>5, ViewOf DEF Near
      <3>4. /\ \A r \in Registers : r # PaLevels => mid[r] = gp_reg[r]
            /\ \A x : x \notin PaPins => (x \in mid[PaLevels] <=> x \in gp_reg[PaLevels])
            /\ \A b \in PaPins : b \in mid[PaLevels] <=> <<PaGroup, b>> \in a2.high
        BY <3>1, <3>2, <3>3, AmpIs
      <3>5. AfterHead(L, mid) = gp_reg'
        <4>1. Head(L) = h /\ h.rmw /\ h.reg = PaLevels /\ mid[PaLevels] = v /\ gp_held[1] = v
          BY <1>3, <2>2, <3>1, <3>2, AmpIs
        <4>2. AfterHead(L, mid) = [mid EXCEPT ![PaLevels] = Written(h, v)]
          BY <4>1 DEF AfterHead
        <4>3. gp_reg' = [gp_reg EXCEPT ![PaLevels] = Written(h, v)]
          BY <1>1, <4>1
        <4> QED
          BY <1>4, <4>2, <4>3 DEF IsRegs
      <3> HIDE DEF mid
      <3>6. AllDue(L, mid, a2)
        BY <1>5, <3>1, <3>3, <3>4, LevelsSwap
      <3>7. AllDue(M, AfterHead(L, mid), a2)
        BY <1>1, <1>2, <1>3, <1>4, <3>2, <3>6, AllWriteDue
      <3>8. Near(a2, gp_asked)
        BY <1>5, <3>3 DEF Near
      <3> QED
        BY <3>1, <3>5, <3>7, <3>8
    <2> QED
      BY <2>1, <2>2
  <1>7. IsRegs(gp_reg') /\ (h.reg # <<"blc_rf_pa_cb", 0>> => (PaOn' <=> PaOn))
    <2>1. IsRegs(gp_reg')
      BY <1>1, <1>4 DEF IsRegs
    <2>2. h.reg # <<"blc_rf_pa_cb", 0>> => gp_reg'[<<"blc_rf_pa_cb", 0>>] = gp_reg[<<"blc_rf_pa_cb", 0>>]
      BY <1>1, <1>3, <1>4, RegistersAre DEF IsRegs
    <2> QED
      BY <2>1, <2>2 DEF PaOn
  <1>8. h.reg = <<"blc_rf_pa_cb", 0>> => DOMAIN M = {}
    <2>1. h.reg = <<"blc_rf_pa_cb", 0>> => Len(L) = 1
      BY <1>3 DEF GpInv
    <2>2. DOMAIN M = 1 .. Len(M)
      BY <1>3
    <2>3. Len(M) = Len(L) - 1
      BY <1>3
    <2> HIDE DEF L, M, h
    <2>4. h.reg = <<"blc_rf_pa_cb", 0>> => Len(M) = 0
      BY <2>1, <2>3
    <2> QED
      BY <2>2, <2>4
  <1>9. ASSUME NEW k \in DOMAIN M
        PROVE  /\ M[k].reg \in Registers /\ M[k].reg[1] # "mux"
               /\ M[k].reg = <<"blc_rf_pa_cb", 0>> => k = Len(M)
    <2>1. k + 1 \in DOMAIN L /\ k + 1 # 1 /\ M[k] = L[k + 1] /\ Len(M) = Len(L) - 1
      BY <1>3
    <2>2. /\ L[k + 1].reg \in Registers /\ L[k + 1].reg[1] # "mux"
          /\ L[k + 1].reg = <<"blc_rf_pa_cb", 0>> => k + 1 = Len(L)
      BY <2>1 DEF GpInv
    <2>3. M[k].reg = <<"blc_rf_pa_cb", 0>> => k = Len(M)
      BY <1>3, <2>1, <2>2
    <2> QED
      BY <2>1, <2>2, <2>3
  <1>10. PaOn' => Free(M)
    <2>1. CASE h.reg = <<"blc_rf_pa_cb", 0>>
      BY <1>8, <2>1 DEF Free
    <2>2. CASE h.reg # <<"blc_rf_pa_cb", 0>>
      <3>1. PaOn' => Free(L)
        BY <1>7, <2>2 DEF GpInv
      <3> HIDE DEF L, M, h
      <3> QED
        BY <1>3, <3>1 DEF Free
    <2> QED
      BY <2>1, <2>2
  <1>11. Once(M)
    <2> SUFFICES ASSUME NEW i \in DOMAIN M, NEW k \in DOMAIN M, i # k, M[i].reg = M[k].reg,
                        NEW x, Touches(M[i], x)
                 PROVE  ~Touches(M[k], x)
      BY DEF Once
    <2>1. i + 1 \in DOMAIN L /\ k + 1 \in DOMAIN L /\ i + 1 # k + 1 /\ M[i] = L[i + 1] /\ M[k] = L[k + 1]
      BY <1>3
    <2> HIDE DEF L, M
    <2> QED
      BY <1>4, <2>1 DEF Once
  <1> HIDE DEF L, M, h
  <1> QED
    BY <1>1, <1>3, <1>6, <1>7, <1>9, <1>10, <1>11 DEF GpInv

\* The callback turns off the pin of the other direction first.
LEMMA PaWrites ==
    ASSUME NEW type \in {"tx_on", "rx_on", "off"}, NEW v
    PROVE  LET step == app_rf_pa_handler(type)
           IN  \A x : x \in Written(step[2], Written(step[1], v)) <=>
                        IF x = 2 THEN type = "tx_on" ELSE IF x = 3 THEN type = "rx_on" ELSE x \in v
  <1>1. \A x1, x2 : (<<x1>> \o <<x2>>)[1] = x1 /\ (<<x1>> \o <<x2>>)[2] = x2
    <2> SUFFICES ASSUME NEW x1, NEW x2
                 PROVE  (<<x1>> \o <<x2>>)[1] = x1 /\ (<<x1>> \o <<x2>>)[2] = x2
      OBVIOUS
    <2> DEFINE T == {x1, x2}
               a == <<x1>>
               b == <<x2>>
    <2>1. a \in Seq(T) /\ b \in Seq(T) /\ Len(a) = 1 /\ Len(b) = 1 /\ a[1] = x1 /\ b[1] = x2
      OBVIOUS
    <2> HIDE DEF T, a, b
    <2>2. \A i \in 1 .. Len(a) + Len(b) : (a \o b)[i] = IF i <= Len(a) THEN a[i] ELSE b[i - Len(a)]
      BY <2>1, ConcatProperties
    <2>3. (a \o b)[1] = x1 /\ (a \o b)[2] = x2
      BY <2>1, <2>2
    <2> QED
      BY <2>3 DEF a, b
  <1> DEFINE off2 == Change("out", PaGroup, {2}, {})
             off3 == Change("out", PaGroup, {3}, {})
             on2 == Change("out", PaGroup, {}, {2})
             on3 == Change("out", PaGroup, {}, {3})
  <1>2. /\ app_rf_pa_handler("tx_on") = <<off3>> \o <<on2>>
        /\ app_rf_pa_handler("rx_on") = <<off2>> \o <<on3>>
        /\ app_rf_pa_handler("off") = <<off3>> \o <<off2>>
    BY DEF app_rf_pa_handler, gpio_write, Turn, PA_TXEN_PIN, PA_RXEN_PIN
  <1>3. \A u, x : /\ x \in Written(off2, u) <=> x # 2 /\ x \in u
                  /\ x \in Written(off3, u) <=> x # 3 /\ x \in u
                  /\ x \in Written(on2, u) <=> x = 2 \/ x \in u
                  /\ x \in Written(on3, u) <=> x = 3 \/ x \in u
    BY DEF Written, Change
  <1> HIDE DEF off2, off3, on2, on3
  <1>4. CASE type = "tx_on"
    <2>1. app_rf_pa_handler(type) = <<off3>> \o <<on2>>
      BY <1>2, <1>4
    <2>2. (<<off3>> \o <<on2>>)[1] = off3 /\ (<<off3>> \o <<on2>>)[2] = on2
      BY <1>1, Zenon
    <2>3. app_rf_pa_handler(type)[1] = off3 /\ app_rf_pa_handler(type)[2] = on2
      BY <2>1, <2>2, Zenon
    <2> QED
      BY <1>3, <1>4, <2>3
  <1>5. CASE type = "rx_on"
    <2>1. app_rf_pa_handler(type) = <<off2>> \o <<on3>>
      BY <1>2, <1>5
    <2>2. (<<off2>> \o <<on3>>)[1] = off2 /\ (<<off2>> \o <<on3>>)[2] = on3
      BY <1>1, Zenon
    <2>3. app_rf_pa_handler(type)[1] = off2 /\ app_rf_pa_handler(type)[2] = on3
      BY <2>1, <2>2, Zenon
    <2> QED
      BY <1>3, <1>5, <2>3
  <1>6. CASE type = "off"
    <2>1. app_rf_pa_handler(type) = <<off3>> \o <<off2>>
      BY <1>2, <1>6
    <2>2. (<<off3>> \o <<off2>>)[1] = off3 /\ (<<off3>> \o <<off2>>)[2] = off2
      BY <1>1, Zenon
    <2>3. app_rf_pa_handler(type)[1] = off3 /\ app_rf_pa_handler(type)[2] = off2
      BY <2>1, <2>2, Zenon
    <2> QED
      BY <1>3, <1>6, <2>3
  <1> QED
    BY <1>4, <1>5, <1>6

\* The callback sets both its pins, whatever was undone of the one before.
LEMMA PaIsrInv == GpInv /\ PaIsr => GpInv'
  <1> SUFFICES ASSUME GpInv, PaIsr PROVE GpInv'
    OBVIOUS
  <1> DEFINE tx == <<PaGroup, PA_TXEN_PIN>>
             rx == <<PaGroup, PA_RXEN_PIN>>
             w == gp_asked
             w2 == gp_asked'
  <1>1. PICK type \in {"tx_on", "rx_on", "off"} :
          /\ LET step == app_rf_pa_handler(type)
             IN  gp_reg' = [gp_reg EXCEPT ![PaLevels] = Written(step[2], Written(step[1], @))]
          /\ gp_asked' = [gp_asked EXCEPT !.high = With(With(@, tx, type = "tx_on"), rx, type = "rx_on")]
    BY DEF PaIsr
  <1>2. /\ gp_todo' = gp_todo /\ gp_held' = gp_held /\ gp_first' = gp_first /\ PaOn
        /\ pa_undone' = (gp_held # <<>> /\ Head(gp_todo).reg = PaLevels)
    BY DEF PaIsr
  <1> DEFINE H == With(With(w.high, tx, type = "tx_on"), rx, type = "rx_on")
  <1>3. PICK a : Near(a, w) /\ AllDue(gp_todo, gp_reg, a)
    BY DEF GpInv
  <1>4. IsRegs(gp_reg) /\ Free(gp_todo) /\ GpRecord(w)
    BY <1>2, <1>3 DEF GpInv, Near
  <1>5. tx = <<1, 2>> /\ rx = <<1, 3>> /\ PaGroup = 1 /\ Amp = {tx, rx} /\ Amp \subseteq Pins
    <2>1. tx = <<1, 2>> /\ rx = <<1, 3>> /\ PaGroup = 1
      BY DEF PaGroup, PA_TXEN_PIN, PA_RXEN_PIN
    <2>2. Amp = {tx, rx}
      BY <2>1 DEF Amp, PaPins, PA_TXEN_PIN, PA_RXEN_PIN
    <2> QED
      BY <2>1, <2>2, AmpIs
  <1>6. /\ IsRegs(gp_reg') /\ \A r \in Registers : r # PaLevels => gp_reg'[r] = gp_reg[r]
        /\ \A x : x \in gp_reg'[PaLevels] <=>
             IF x = 2 THEN type = "tx_on" ELSE IF x = 3 THEN type = "rx_on" ELSE x \in gp_reg[PaLevels]
    <2> DEFINE V == Written(app_rf_pa_handler(type)[2], Written(app_rf_pa_handler(type)[1], gp_reg[PaLevels]))
    <2>1. \A x : x \in V <=>
             IF x = 2 THEN type = "tx_on" ELSE IF x = 3 THEN type = "rx_on" ELSE x \in gp_reg[PaLevels]
      BY PaWrites
    <2>2. gp_reg' = [gp_reg EXCEPT ![PaLevels] = V]
      BY <1>1
    <2> HIDE DEF V
    <2>3. IsRegs(gp_reg') /\ gp_reg'[PaLevels] = V /\ \A r \in Registers : r # PaLevels => gp_reg'[r] = gp_reg[r]
      BY <1>4, <2>2, AmpIs DEF IsRegs
    <2> QED
      BY <2>1, <2>3
  <1>7. /\ H \subseteq Pins /\ H \ Amp = w.high \ Amp
        /\ (<<1, 2>> \in H <=> type = "tx_on") /\ (<<1, 3>> \in H <=> type = "rx_on")
    <2>1. w.high \subseteq Pins /\ <<1, 2>> # <<1, 3>>
      BY <1>4 DEF GpRecord
    <2> HIDE DEF tx, rx, w
    <2> QED
      BY <1>5, <2>1 DEF With
  <1>8. w2 = [w EXCEPT !.high = H]
    BY <1>1
  <1> HIDE DEF H, tx, rx, w, w2
  <1>9. Near(w2, w) /\ w2.high = H
    <2>1. /\ w2.high = H
          /\ w2.driven = w.driven /\ w2.read = w.read /\ w2.strong = w.strong /\ w2.gpio = w.gpio
          /\ w2.weak = w.weak /\ w2.mux = w.mux /\ w2.pull = w.pull
      BY <1>4, <1>8 DEF GpRecord
    <2>2. w2 = [high |-> w2.high, driven |-> w2.driven, read |-> w2.read, strong |-> w2.strong,
                gpio |-> w2.gpio, weak |-> w2.weak, mux |-> w2.mux, pull |-> w2.pull]
      BY <1>4, <1>8 DEF GpRecord
    <2> QED
      BY <1>4, <1>7, <2>1, <2>2 DEF GpRecord, Near
  <1>10. Near(w2, a) /\ Near(w2, w2)
    BY <1>3, <1>9 DEF Near
  <1>11. /\ \A x : x \notin PaPins => (x \in gp_reg'[PaLevels] <=> x \in gp_reg[PaLevels])
         /\ \A b \in PaPins : b \in gp_reg'[PaLevels] <=> <<PaGroup, b>> \in w2.high
    BY <1>5, <1>6, <1>7, <1>9, AmpIs
  <1>12. AllDue(gp_todo', gp_reg', w2)
    BY <1>2, <1>3, <1>4, <1>6, <1>10, <1>11, LevelsSwap
  <1>13. ASSUME gp_held # <<>>
         PROVE  gp_todo # <<>> /\ \E v : gp_held = <<v>> /\
                  \/ v = gp_reg'[Head(gp_todo).reg]
                  \/ /\ pa_undone' /\ Head(gp_todo).reg = PaLevels /\ Free(gp_todo)
                     /\ v \ PaPins = gp_reg'[PaLevels] \ PaPins
    <2>1. PICK v : /\ gp_todo # <<>> /\ gp_held = <<v>>
                   /\ \/ v = gp_reg[Head(gp_todo).reg]
                      \/ Head(gp_todo).reg = PaLevels /\ v \ PaPins = gp_reg[PaLevels] \ PaPins
      BY <1>13 DEF GpInv
    <2>2. Head(gp_todo).reg \in Registers
      <3>1. PICK T : gp_todo \in Seq(T)
        BY DEF GpInv
      <3>2. 1 \in DOMAIN gp_todo /\ Head(gp_todo) = gp_todo[1]
        BY <2>1, <3>1
      <3> QED
        BY <3>2 DEF GpInv
    <2>3. CASE Head(gp_todo).reg # PaLevels
      BY <1>6, <2>1, <2>2, <2>3
    <2>4. CASE Head(gp_todo).reg = PaLevels
      <3>1. v \ PaPins = gp_reg[PaLevels] \ PaPins
        BY <2>1, <2>4
      <3>2. v \ PaPins = gp_reg'[PaLevels] \ PaPins
        BY <1>11, <3>1
      <3> QED
        BY <1>2, <1>4, <1>13, <2>1, <2>4, <3>2
    <2> QED
      BY <2>3, <2>4
  <1>14. PaOn' => Free(gp_todo')
    BY <1>2, <1>4
  <1>15. \E a2 : Near(a2, gp_asked') /\ AllDue(gp_todo', gp_reg', a2) /\ (pa_undone' \/ a2 = gp_asked')
    BY <1>10, <1>12 DEF w2
  <1> HIDE DEF GpInv
  <1>16. /\ \E T : gp_todo \in Seq(T)
         /\ Once(gp_todo)
         /\ \A k \in DOMAIN gp_todo :
              /\ gp_todo[k].reg \in Registers
              /\ gp_todo[k].reg[1] = "mux" => k = 1 /\ gp_first
              /\ gp_todo[k].reg = <<"blc_rf_pa_cb", 0>> => k = Len(gp_todo)
    BY DEF GpInv
  <1> QED
    BY <1>2, <1>6, <1>13, <1>14, <1>15, <1>16 DEF GpInv

LEMMA GpStutter == GpInv /\ UNCHANGED gpVars => GpInv'
  <1> SUFFICES ASSUME GpInv, UNCHANGED gpVars PROVE GpInv'
    OBVIOUS
  <1>1. /\ gp_reg' = gp_reg /\ gp_todo' = gp_todo /\ gp_held' = gp_held
        /\ gp_asked' = gp_asked /\ gp_first' = gp_first /\ pa_undone' = pa_undone
    BY DEF gpVars
  <1>2. PaOn' <=> PaOn
    BY <1>1 DEF PaOn
  <1> QED
    BY <1>1, <1>2 DEF GpInv

LEMMA GpInvPins == GpInv => PinsAsAsked
  <1> SUFFICES ASSUME GpInv PROVE PinsAsAsked
    OBVIOUS
  <1> DEFINE On(kind) == {q \in Pins : q[2] \in gp_reg[<<kind, q[1]>>]}
             PullBit(q, k) == <<q[2] % 4, k>> \in gp_reg[<<"pull", PullAt(q[1], q[2])>>]
             open == IF pa_undone THEN {PaGroup} \X PaPins ELSE {}
  <1>1. PICK w : Near(w, gp_asked) /\ AllDue(gp_todo, gp_reg, w) /\ GpRecord(w)
                 /\ (pa_undone \/ w = gp_asked)
    BY DEF GpInv, Near
  <1>2. ASSUME gp_todo = <<>>
        PROVE  /\ w.high = On("out") /\ w.driven = Pins \ On("oen")
               /\ w.read = On("ie") /\ w.strong = On("ds") /\ w.gpio = On("func")
               /\ w.weak = {GroupC} \X gp_reg[<<"pe", GroupC>>]
               /\ w.pull = {x \in {q \in Pins : q[1] # 4} \X {0, 1} : PullBit(x[1], x[2])}
    <2>1. AllDue(<<>>, gp_reg, w)
      BY <1>1, <1>2
    <2>2. \A kind \in BitKinds, q \in Pins : q[2] \in gp_reg[<<kind, q[1]>>] <=> q \in Ones(w, kind)
      BY <2>1, NowDue
    <2>3. \A q \in Pins, j \in {0, 1} : q[1] # 4 =>
            (<<q[2] % 4, j>> \in gp_reg[<<"pull", PullAt(q[1], q[2])>>] <=> <<q, j>> \in w.pull)
      BY <2>1, NowDue
    <2>4. \A x : x \in gp_reg[<<"pe", GroupC>>] <=> <<GroupC, x>> \in w.weak
      BY <2>1, NowDue
    <2>5. \A kind \in BitKinds : On(kind) = Pins \cap Ones(w, kind)
      BY <2>2
    <2>6. w.high = On("out")
      BY <1>1, <2>5 DEF BitKinds, Ones, GpRecord
    <2>7. w.driven = Pins \ On("oen")
      BY <1>1, <2>5 DEF BitKinds, Ones, GpRecord
    <2>8. w.read = On("ie")
      BY <1>1, <2>5 DEF BitKinds, Ones, GpRecord
    <2>9. w.strong = On("ds")
      BY <1>1, <2>5 DEF BitKinds, Ones, GpRecord
    <2>10. w.gpio = On("func")
      BY <1>1, <2>5 DEF BitKinds, Ones, GpRecord
    <2>11. w.weak = {GroupC} \X gp_reg[<<"pe", GroupC>>]
      BY <1>1, <2>4 DEF GpRecord
    <2>12. w.pull = {x \in {q \in Pins : q[1] # 4} \X {0, 1} : PullBit(x[1], x[2])}
      <3>1. w.pull \subseteq {q \in Pins : q[1] # 4} \X {0, 1}
        BY <1>1 DEF GpRecord
      <3>2. ASSUME NEW x \in {q \in Pins : q[1] # 4} \X {0, 1}
            PROVE  PullBit(x[1], x[2]) <=> x \in w.pull
        <4>1. x = <<x[1], x[2]>> /\ x[1] \in Pins /\ x[1][1] # 4 /\ x[2] \in {0, 1}
          OBVIOUS
        <4> QED
          BY <2>3, <4>1
      <3> HIDE DEF PullBit
      <3> QED
        BY <3>1, <3>2
    <2> QED
      BY <2>6, <2>7, <2>8, <2>9, <2>10, <2>11, <2>12
  <1>3. ASSUME gp_todo = <<>> \/ ~gp_first, NEW q \in Pins
        PROVE  gp_reg[<<"mux", MuxAt(q[1], q[2])>>] = {w.mux[q]}
    <2> DEFINE r == <<"mux", MuxAt(q[1], q[2])>>
    <2>1. \A k \in DOMAIN gp_todo : gp_todo[k].reg # r
      BY <1>3 DEF GpInv
    <2>2. \A x : Due(gp_todo, gp_reg, r, x, {w.mux[q]}, x)
      BY <1>1 DEF AllDue, MuxDue
    <2> HIDE DEF r
    <2>3. \A x : x \in gp_reg[r] <=> x \in {w.mux[q]}
      BY <2>1, <2>2 DEF Due
    <2>4. gp_reg[r] = {w.mux[q]}
      BY <2>3
    <2> QED
      BY <2>4 DEF r
  <1>4. /\ w.high \ open = gp_asked.high \ open
        /\ w.driven = gp_asked.driven /\ w.read = gp_asked.read /\ w.strong = gp_asked.strong
        /\ w.gpio = gp_asked.gpio /\ w.weak = gp_asked.weak /\ w.mux = gp_asked.mux /\ w.pull = gp_asked.pull
    BY <1>1 DEF Near, Amp
  <1> HIDE DEF On, PullBit, open
  <1>5. gp_todo = <<>> =>
          /\ gp_asked.high \ open = On("out") \ open /\ gp_asked.driven = Pins \ On("oen")
          /\ gp_asked.read = On("ie") /\ gp_asked.strong = On("ds") /\ gp_asked.gpio = On("func")
          /\ gp_asked.weak = {GroupC} \X gp_reg[<<"pe", GroupC>>]
          /\ gp_asked.pull = {x \in {q \in Pins : q[1] # 4} \X {0, 1} : PullBit(x[1], x[2])}
    BY <1>2, <1>4
  <1>6. (gp_todo = <<>> \/ ~gp_first) => \A q \in Pins \ On("func") :
          gp_reg[<<"mux", MuxAt(q[1], q[2])>>] = {gp_asked.mux[q]}
    BY <1>3, <1>4
  <1> QED
    BY <1>5, <1>6 DEF PinsAsAsked, On, PullBit, open

\* Between two calls every pin is as the calls made and the amplifier's callback,
\* which comes between any two accesses, ask for, and no pin carries the signal
\* of a peripheral nobody chose for it (gpio.c, gpio.h, software_pa.c).  While the
\* callback is on the main program asks for no level of the amplifier's two pins;
\* and if it changes another of their group, a callback between its read and its
\* write may be undone until the next.
THEOREM PinsCorrect == DriversSpec => []PinsAsAsked
  <1>1. DriversInit => GpInv
    BY GpInitInv DEF DriversInit
  <1>2. GpInv /\ [DriversNext]_driversVars => GpInv'
    <2>1. GpInv /\ GpNext => GpInv'
      BY GpWakeInv, GpCallInv, GpReadInv, GpWriteInv, PaIsrInv DEF GpNext
    <2>2. [DriversNext]_driversVars => GpNext \/ UNCHANGED gpVars
      BY DEF DriversNext, driversVars
    <2> QED
      BY <2>1, <2>2, GpStutter
  <1> QED
    BY <1>1, <1>2, GpInvPins, PTL DEF DriversSpec
=============================================================================
