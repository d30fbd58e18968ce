------------------------------- MODULE Timers -------------------------------
(***************************************************************************)
(* The three hardware timers and the timer watchdog (drivers/timer.c,      *)
(* timer.h, watchdog.h).  Their enable, mode and capture fields share      *)
(* reg_tmr_ctrl with their interrupt statuses: its last byte is            *)
(* reg_tmr_sta, where a bit is cleared by writing it as 1.  A call reads   *)
(* the register, changes some bits and writes it back.                     *)
(***************************************************************************)
EXTENDS Naturals, Sequences, SequencesExt

CONSTANTS
    MainTmrCalls, IsrTmrCalls   \* the calls made by the main program and by the handler

TmrFunctions == {"set_mode", "start", "stop", "ack", "interval", "wd_start", "wd_stop"}

ASSUME TmrAssumption == \A c \in MainTmrCalls \cup IsrTmrCalls : c.f \in TmrFunctions

Timers == {"tmr0", "tmr1", "tmr2"}
Capture == {"c0", "c1"}         \* two bits stand for those of FLD_TMR_WD_CAPT
Watchdog == {"wd"} \X ({"en"} \cup Capture)
CtrlBits == (Timers \X {"en", "m0", "m1"}) \cup Watchdog

VARIABLES
    tmr,        \* reg_tmr_ctrl: the bits set, and the timers whose status is set
    tmr_todo,   \* what the main program's call has still to write
    tmr_held,   \* the value that call has read and not yet written back, if any
    tmr_call,   \* observer: that call
    tmr_asked   \* observer: the bits as the calls made ask for

tmrVars == <<tmr, tmr_todo, tmr_held, tmr_call, tmr_asked>>

----------------------------------------------------------------------------
(* What the calls write.                                                   *)

Nothing == [ctrl |-> {}, pend |-> {}]
Ack(t) == [rmw |-> FALSE, ack |-> {t}, clear |-> {}, set |-> {}]
Rmw(clear, set) == [rmw |-> TRUE, ack |-> {}, clear |-> clear, set |-> set]

\* Mutant: the mode is written over the other timers' fields.
SetModeWhole(t, m) == <<Ack(t), Rmw(CtrlBits \ {<<t, "en">>}, {}), Rmw({}, {t} \X m)>>

\* A mode is the set of its two bits that are 1.
timer_set_mode(t, m) == <<Ack(t), Rmw({t} \X {"m0", "m1"}, {}), Rmw({}, {t} \X m)>>

timer_start(t) == <<Rmw({}, {<<t, "en">>})>>
timer_stop(t) == <<Rmw({<<t, "en">>}, {})>>
timer_clear_interrupt_status(t) == <<Ack(t)>>
wd_set_interval_ms(capt) == <<Rmw({"wd"} \X Capture, {"wd"} \X capt)>>
wd_start == <<Rmw({}, {<<"tmr2", "en">>}), Rmw({}, {<<"wd", "en">>})>>
wd_stop == <<Rmw({<<"wd", "en">>}, {})>>

TmrWrites(c) ==
    CASE c.f = "set_mode"  -> timer_set_mode(c.t, c.mode)
      [] c.f = "start"     -> timer_start(c.t)
      [] c.f = "stop"      -> timer_stop(c.t)
      [] c.f = "ack"       -> timer_clear_interrupt_status(c.t)
      [] c.f = "interval"  -> wd_set_interval_ms(c.mode)
      [] c.f = "wd_start"  -> wd_start
      [] c.f = "wd_stop"   -> wd_stop

----------------------------------------------------------------------------
(* What they are for.                                                      *)

SetTo(bits, t, fields, on) == (bits \ ({t} \X fields)) \cup ({t} \X on)

Asks(bits, c) ==
    CASE c.f = "set_mode"  -> SetTo(bits, c.t, {"m0", "m1"}, c.mode)
      [] c.f = "start"     -> SetTo(bits, c.t, {"en"}, {"en"})
      [] c.f = "stop"      -> SetTo(bits, c.t, {"en"}, {})
      [] c.f = "ack"       -> bits
      [] c.f = "interval"  -> SetTo(bits, "wd", Capture, c.mode)
      [] c.f = "wd_start"  -> bits \cup {<<"tmr2", "en">>, <<"wd", "en">>}
      [] c.f = "wd_stop"   -> SetTo(bits, "wd", {"en"}, {})

----------------------------------------------------------------------------

NoTmrCall == [f |-> "none", t |-> "none", mode |-> {}]

TmrInit ==
    tmr = Nothing /\ tmr_todo = <<>> /\ tmr_held = <<>> /\ tmr_call = NoTmrCall /\ tmr_asked = {}

\* The bits of a status that were read as 1 are written as 1.
WriteBack(read, now, step) ==
    IF step.rmw THEN [ctrl |-> (read.ctrl \ step.clear) \cup step.set,
                      pend |-> now.pend \ read.pend]
    ELSE [now EXCEPT !.pend = @ \ step.ack]

\* A write of the handler, which nothing comes into.
Undisturbed(now, step) == WriteBack(now, now, step)

TmrCall ==
    /\ tmr_todo = <<>>
    /\ \E c \in MainTmrCalls :
         tmr_call' = c /\ tmr_todo' = TmrWrites(c) /\ tmr_asked' = Asks(tmr_asked, c)
    /\ UNCHANGED <<tmr, tmr_held>>

TmrRead ==
    /\ tmr_todo # <<>> /\ Head(tmr_todo).rmw /\ tmr_held = <<>>
    /\ tmr_held' = <<tmr>>
    /\ UNCHANGED <<tmr, tmr_todo, tmr_call, tmr_asked>>

TmrWrite ==
    /\ tmr_todo # <<>> /\ (Head(tmr_todo).rmw => tmr_held # <<>>)
    /\ tmr' = WriteBack(IF Head(tmr_todo).rmw THEN tmr_held[1] ELSE tmr, tmr, Head(tmr_todo))
    /\ tmr_todo' = Tail(tmr_todo) /\ tmr_held' = <<>>
    /\ UNCHANGED <<tmr_call, tmr_asked>>

\* The handler comes between any two accesses and is not preempted.
TmrIsr ==
    /\ \E c \in IsrTmrCalls :
         /\ tmr' = FoldLeft(Undisturbed, tmr, TmrWrites(c))
         /\ tmr_asked' = Asks(tmr_asked, c)
    /\ UNCHANGED <<tmr_todo, tmr_held, tmr_call>>

Expire(t) ==
    /\ <<t, "en">> \in tmr.ctrl
    /\ tmr' = [tmr EXCEPT !.pend = @ \cup {t}]
    /\ UNCHANGED <<tmr_todo, tmr_held, tmr_call, tmr_asked>>

TmrNext == TmrCall \/ TmrRead \/ TmrWrite \/ TmrIsr \/ \E t \in Timers : Expire(t)

----------------------------------------------------------------------------

\* What SettingsKept needs of the handler: a change of it that falls between
\* the main program's read and write would be undone.
HandlerOnlyAcks == \A c \in IsrTmrCalls : c.f = "ack"

\* Between two calls every enable, mode and capture field is what the calls
\* asked for, whatever timer they named and though each writes the whole
\* register, as long as the handler only acknowledges interrupts.
SettingsKept == tmr_todo = <<>> => tmr.ctrl = tmr_asked

\* timer.c:288 and :310: the calls concern "the specifed timer".  The status of
\* an expired timer is cleared by calls about that timer only, so no call makes
\* the handler of another miss its interrupt.
TickKept ==
    [][tmr_todo # <<>> => tmr.pend \ tmr'.pend \subseteq {tmr_call.t}]_tmrVars
=============================================================================
