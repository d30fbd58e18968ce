-------------------------------- MODULE Gpio --------------------------------
(***************************************************************************)
(* The pins (drivers/gpio.c, gpio.h, gpio_default.h), and the callback that*)
(* switches the power amplifier's (software_pa.c).                         *)
(*                                                                         *)
(* A register holds a bit for each pin of a group, so every call reads a   *)
(* register, changes its pins' bits and writes it back; the callback, an   *)
(* interrupt, comes between any two accesses.  Group C's input enables and *)
(* strengths, and every group's pull resistors, are analog registers, four *)
(* pins of two bits in each of the latter: those keep their values in deep *)
(* sleep with retention, from which the program starts again.              *)
(***************************************************************************)
EXTENDS Integers, Sequences

CONSTANTS
    GpCalls,    \* the calls made by the main program
    MaxGpCalls  \* how many of them after a start

Groups == 0 .. 5                \* GPIO_GROUPA to GPIO_GROUPF
GroupC == 2
PinsOf(g) == CASE g = 4 -> 0 .. 3 [] g = 5 -> 0 .. 1 [] OTHER -> 0 .. 7
Pins == UNION {{g} \X PinsOf(g) : g \in Groups}
GpFunctions ==
    {"set_func", "output", "input", "strength", "write", "toggle", "resistor", "PULL", "PULL_TOGGLE",
     "OUTPUT", "shutdown", "shutdown_all", "pullup", "pa_init"}

\* A call names a pin; the flash's have no pull resistors.
ASSUME GpAssumption ==
    \A c \in GpCalls :
      /\ c.f \in GpFunctions /\ <<c.g, c.b>> \in Pins
      /\ c.f \in {"output", "input", "strength", "write", "OUTPUT"} => c.v \in BOOLEAN
      /\ c.f \in {"resistor", "PULL"} => c.v \subseteq {0, 1}
      /\ c.f \in {"resistor", "PULL", "PULL_TOGGLE"} => c.g # 4

AS_GPIO == 255
PaGroup == 1
PA_TXEN_PIN == 2
PA_RXEN_PIN == 3

VARIABLES
    gp_reg,     \* the registers
    gp_todo,    \* what the main program's call has still to write
    gp_held,    \* the value it has read and not yet written back, if any
    gp_count,   \* calls since the start
    gp_asked,   \* observer: the pins as the calls made ask for
    gp_first,   \* observer: the current call has written nothing yet
    pa_undone   \* observer: the callback's last change may have been undone

gpVars == <<gp_reg, gp_todo, gp_held, gp_count, gp_asked, gp_first, pa_undone>>

----------------------------------------------------------------------------
(* Registers and what is written to them.                                  *)

MuxAt(g, b) == (IF g = 5 THEN 8 * (g - 1) + 4 ELSE 8 * g) + b
PullAt(g, b) == IF g = 5 THEN 22 ELSE 14 + 2 * g + b \div 4

Registers ==
    ({"ie", "oen", "out", "ds", "func"} \X Groups) \cup {<<"pe", GroupC>>, <<"blc_rf_pa_cb", 0>>}
      \cup ({"mux"} \X (0 .. 37)) \cup ({"pull"} \X (14 .. 22))

Assign(kind, n, value) == [reg |-> <<kind, n>>, rmw |-> FALSE, off |-> {}, on |-> value, flip |-> {}]
Change(kind, n, off, on) == [reg |-> <<kind, n>>, rmw |-> TRUE, off |-> off, on |-> on, flip |-> {}]
Flip(kind, n, bits) == [Change(kind, n, {}, {}) EXCEPT !.flip = bits]
Turn(kind, g, bits, on) == Change(kind, g, IF on THEN {} ELSE bits, IF on THEN bits ELSE {})

Written(step, read) ==
    LET v == IF step.rmw THEN (read \ step.off) \cup step.on ELSE step.on
    IN  (v \ step.flip) \cup (step.flip \ v)

\* Whether a step may change bit x of its register.
Touches(step, x) == step.rmw => x \in step.off \cup step.on \cup step.flip

\* Mutant: the pin is given to the peripheral before the peripheral is chosen.
SetFuncFirst(g, b, func) ==
    IF func = AS_GPIO THEN <<Turn("func", g, {b}, TRUE)>>
    ELSE <<Turn("func", g, {b}, FALSE), Assign("mux", MuxAt(g, b), {func})>>

gpio_set_func(g, b, func) ==
    IF func = AS_GPIO THEN <<Turn("func", g, {b}, TRUE)>>
    ELSE <<Assign("mux", MuxAt(g, b), {func}), Turn("func", g, {b}, FALSE)>>

gpio_set_output_en(g, bits, value) == <<Turn("oen", g, bits, ~value)>>
gpio_set_input_en(g, bits, value) == <<Turn("ie", g, bits, value)>>
gpio_set_data_strength(g, bits, value) == <<Turn("ds", g, bits, value)>>
gpio_write(g, bits, value) == <<Turn("out", g, bits, value)>>
gpio_toggle(g, bits) == <<Flip("out", g, bits)>>

\* A resistor is the set of its two bits that are 1.
gpio_setup_up_down_resistor(g, b, up_down) ==
    <<Change("pull", PullAt(g, b), {b % 4} \X {0, 1}, {b % 4} \X up_down)>>

\* Macros that do the same without a call.
OUTPUT(g, b, value) == <<Turn("out", g, {b}, value)>>
PULL(g, b, up_down) ==
    <<Change("pull", PullAt(g, b), {b % 4} \X ({0, 1} \ up_down), {b % 4} \X up_down)>>
PULL_TOGGLE(g, b) == <<Flip("pull", PullAt(g, b), {b % 4} \X {0})>>

\* PA3 is the debugger's.
Sws(g) == IF g = 0 THEN {3} ELSE {}

gpio_shutdown(g, bits) ==
    <<Change("out", g, bits, {}), Change("oen", g, {}, bits),
      Change("func", g, {}, bits \ Sws(g)), Change("ie", g, bits \ Sws(g), {})>>

\* Group E, the flash's, is left out.
gpio_shutdown_all ==
    [k \in 1 .. 20 |->
       LET g == IF k % 5 = 0 THEN 5 ELSE (k % 5) - 1
       IN  CASE k \in 1 .. 5   -> Assign("out", g, {})
             [] k \in 6 .. 10  -> Assign("oen", g, 0 .. 7)
             [] k \in 11 .. 15 -> Assign("func", g, (0 .. 7) \ Sws(g))
             [] k \in 16 .. 20 -> Assign("ie", g, Sws(g))]

gpio_set_pullup_res_30k(g, bits) ==
    IF g = GroupC THEN <<Change("pe", g, {}, bits)>>
    ELSE <<Change("oen", g, {}, bits), Change("out", g, {}, bits)>>

rf_pa_init ==
    LET Pin(b) == gpio_set_func(PaGroup, b, AS_GPIO) \o gpio_set_output_en(PaGroup, {b}, TRUE)
                    \o gpio_write(PaGroup, {b}, FALSE)
    IN  Pin(PA_TXEN_PIN) \o Pin(PA_RXEN_PIN) \o <<Assign("blc_rf_pa_cb", 0, {1})>>

app_rf_pa_handler(type) ==
    LET Pa(b, value) == gpio_write(PaGroup, {b}, value)
    IN  CASE type = "tx_on" -> Pa(PA_RXEN_PIN, FALSE) \o Pa(PA_TXEN_PIN, TRUE)
          [] type = "rx_on" -> Pa(PA_TXEN_PIN, FALSE) \o Pa(PA_RXEN_PIN, TRUE)
          [] type = "off"   -> Pa(PA_RXEN_PIN, FALSE) \o Pa(PA_TXEN_PIN, FALSE)

\* The pins that are not the program's: USB, debugger, SPI and flash.
Dedicated(g) ==
    CASE g = 0 -> {1, 2, 3} [] g = 1 -> {3} [] g = 3 -> {4} [] g = 4 -> PinsOf(4) [] OTHER -> {}
InputDefault(g) == CASE g = 0 -> {3} [] g = 4 -> PinsOf(4) [] OTHER -> {}
PullDefault(n) == IF n = 14 THEN {<<3, 0>>} ELSE {}

\* Each register is assigned once, before the callback can come in between.
gpio_init(anaRes_init_en, regs) ==
    [r \in Registers |->
       CASE r[1] = "ie"   -> InputDefault(r[2])
         [] r[1] = "oen"  -> PinsOf(r[2])
         [] r[1] = "out"  -> {}
         [] r[1] = "ds"   -> PinsOf(r[2])
         [] r[1] = "func" -> PinsOf(r[2]) \ Dedicated(r[2])
         [] r[1] = "pull" /\ anaRes_init_en -> PullDefault(r[2])
         [] OTHER -> regs[r]]

GpSteps(c) ==
    CASE c.f = "set_func" -> gpio_set_func(c.g, c.b, c.v)
      [] c.f = "output"   -> gpio_set_output_en(c.g, {c.b}, c.v)
      [] c.f = "input"    -> gpio_set_input_en(c.g, {c.b}, c.v)
      [] c.f = "strength" -> gpio_set_data_strength(c.g, {c.b}, c.v)
      [] c.f = "write"    -> gpio_write(c.g, {c.b}, c.v)
      [] c.f = "toggle"   -> gpio_toggle(c.g, {c.b})
      [] c.f = "resistor" -> gpio_setup_up_down_resistor(c.g, c.b, c.v)
      [] c.f = "PULL"     -> PULL(c.g, c.b, c.v)
      [] c.f = "PULL_TOGGLE" -> PULL_TOGGLE(c.g, c.b)
      [] c.f = "OUTPUT"   -> OUTPUT(c.g, c.b, c.v)
      [] c.f = "shutdown" -> gpio_shutdown(c.g, {c.b})
      [] c.f = "shutdown_all" -> gpio_shutdown_all
      [] c.f = "pullup"   -> gpio_set_pullup_res_30k(c.g, {c.b})
      [] c.f = "pa_init"  -> rf_pa_init

----------------------------------------------------------------------------
(* What the calls are for.                                                 *)

\* The pins high, driven, read, strong, in the program's hands and pulled up
\* by the small resistor, the peripheral chosen and the pull resistor of each.
GpStart(pulls) ==
    [high |-> {}, driven |-> {}, read |-> UNION {{g} \X InputDefault(g) : g \in Groups},
     strong |-> Pins, gpio |-> Pins \ UNION {{g} \X Dedicated(g) : g \in Groups},
     weak |-> {}, mux |-> [pin \in Pins |-> 0], pull |-> pulls]

With(S, pin, on) == IF on THEN S \cup {pin} ELSE S \ {pin}

Shut(w, P, S) ==
    [w EXCEPT !.high = @ \ P, !.driven = @ \ P, !.gpio = @ \cup (P \ S), !.read = @ \ (P \ S)]

Wants(w, c) ==
    LET pin == <<c.g, c.b>>
        sws == <<0, 3>>
        Pa(b) == <<PaGroup, b>>
    IN  CASE c.f = "set_func" /\ c.v = AS_GPIO -> [w EXCEPT !.gpio = @ \cup {pin}]
          [] c.f = "set_func" /\ c.v # AS_GPIO ->
               [w EXCEPT !.gpio = @ \ {pin}, !.mux[pin] = c.v]
          [] c.f = "output"   -> [w EXCEPT !.driven = With(@, pin, c.v)]
          [] c.f = "input"    -> [w EXCEPT !.read = With(@, pin, c.v)]
          [] c.f = "strength" -> [w EXCEPT !.strong = With(@, pin, c.v)]
          [] c.f \in {"write", "OUTPUT"} -> [w EXCEPT !.high = With(@, pin, c.v)]
          [] c.f = "toggle"   -> [w EXCEPT !.high = With(@, pin, pin \notin @)]
          [] c.f \in {"resistor", "PULL"} -> [w EXCEPT !.pull = {x \in @ : x[1] # pin} \cup ({pin} \X c.v)]
          [] c.f = "PULL_TOGGLE" -> [w EXCEPT !.pull = With(@, <<pin, 0>>, <<pin, 0>> \notin @)]
          [] c.f = "shutdown" -> Shut(w, {pin}, {sws})
          [] c.f = "shutdown_all" ->
               [Shut(w, {x \in Pins : x[1] # 4}, {}) EXCEPT !.gpio = @ \ {sws}, !.read = @ \cup {sws}]
          [] c.f = "pullup"   ->
               IF c.g = GroupC THEN [w EXCEPT !.weak = @ \cup {pin}]
               ELSE [w EXCEPT !.driven = @ \ {pin}, !.high = @ \cup {pin}]
          [] c.f = "pa_init"  ->
               LET pa == {Pa(PA_TXEN_PIN), Pa(PA_RXEN_PIN)}
               IN  [w EXCEPT !.gpio = @ \cup pa, !.driven = @ \cup pa, !.high = @ \ pa]

----------------------------------------------------------------------------

PowerOn == [r \in Registers |-> IF r[1] = "mux" THEN {0} ELSE {}]

GpInit ==
    /\ gp_reg = gpio_init(TRUE, PowerOn) /\ gp_asked = GpStart({<<<<0, 3>>, 0>>})
    /\ gp_todo = <<>> /\ gp_held = <<>> /\ gp_count = 0
    /\ gp_first = FALSE /\ pa_undone = FALSE

\* Deep sleep, with retention of the pull resistors and of the callback or
\* without, and the start from it.  The radio, and with it the callback, is
\* off until gpio_init has returned.
GpWake ==
    /\ gp_todo = <<>> /\ gp_count > 0
    /\ \E ana \in BOOLEAN :
         /\ gp_reg' = gpio_init(ana,
                [r \in Registers |-> IF ~ana /\ r[1] \in {"pull", "blc_rf_pa_cb"} THEN gp_reg[r] ELSE PowerOn[r]])
         /\ gp_asked' = GpStart(IF ana THEN {<<<<0, 3>>, 0>>} ELSE gp_asked.pull)
    /\ gp_count' = 0 /\ pa_undone' = FALSE
    /\ UNCHANGED <<gp_todo, gp_held, gp_first>>

PaOn == gp_reg[<<"blc_rf_pa_cb", 0>>] # {}

PaLevels == <<"out", PaGroup>>
PaPins == {PA_TXEN_PIN, PA_RXEN_PIN}

\* Once the callback is on, the main program asks for no level of its two pins.
GpCall ==
    /\ gp_todo = <<>> /\ gp_count < MaxGpCalls
    /\ \E c \in GpCalls :
         /\ PaOn => \A k \in DOMAIN GpSteps(c) :
              GpSteps(c)[k].reg = PaLevels => \A b \in PaPins : ~Touches(GpSteps(c)[k], b)
         /\ gp_todo' = GpSteps(c) /\ gp_asked' = Wants(gp_asked, c)
    /\ gp_count' = gp_count + 1 /\ gp_first' = TRUE
    /\ UNCHANGED <<gp_reg, gp_held, pa_undone>>

GpRead ==
    /\ gp_todo # <<>> /\ Head(gp_todo).rmw /\ gp_held = <<>>
    /\ gp_held' = <<gp_reg[Head(gp_todo).reg]>>
    /\ UNCHANGED <<gp_reg, gp_todo, gp_count, gp_asked, gp_first, pa_undone>>

GpWrite ==
    /\ gp_todo # <<>> /\ (Head(gp_todo).rmw => gp_held # <<>>)
    /\ LET step == Head(gp_todo)
       IN  gp_reg' = [gp_reg EXCEPT ![step.reg] = Written(step, IF step.rmw THEN gp_held[1] ELSE {})]
    /\ gp_todo' = Tail(gp_todo) /\ gp_held' = <<>> /\ gp_first' = FALSE
    /\ UNCHANGED <<gp_count, gp_asked, pa_undone>>

\* It writes both its pins; a write of the main program under way undoes that.
PaIsr ==
    /\ PaOn
    /\ \E type \in {"tx_on", "rx_on", "off"} :
         /\ LET step == app_rf_pa_handler(type)
            IN  gp_reg' = [gp_reg EXCEPT ![PaLevels] = Written(step[2], Written(step[1], @))]
         /\ gp_asked' = [gp_asked EXCEPT !.high =
              With(With(@, <<PaGroup, PA_TXEN_PIN>>, type = "tx_on"),
                   <<PaGroup, PA_RXEN_PIN>>, type = "rx_on")]
    /\ pa_undone' = (gp_held # <<>> /\ Head(gp_todo).reg = PaLevels)
    /\ UNCHANGED <<gp_todo, gp_held, gp_count, gp_first>>

GpNext == GpWake \/ GpCall \/ GpRead \/ GpWrite \/ PaIsr

----------------------------------------------------------------------------

\* Between two calls every pin has the level, direction, strength, function and
\* resistor that the calls made ask for, those named for other pins of its
\* registers included, and the callback's: shutting a pin down spares the
\* debugger's and the flash's, and a resistor outlasts a deep sleep with
\* retention.  A call that changes levels in the amplifier's group may undo a
\* callback between its read and write, but only that one and on no other pins:
\* the next sets both right.  And at no time does a pin carry the signal of a
\* peripheral nobody chose for it ("Failure to follow the above steps may
\* result in risks", gpio.c:187-190).
PinsAsAsked ==
    LET On(kind) == {pin \in Pins : pin[2] \in gp_reg[<<kind, pin[1]>>]}
        PullBit(pin, k) == <<pin[2] % 4, k>> \in gp_reg[<<"pull", PullAt(pin[1], pin[2])>>]
        open == IF pa_undone THEN {PaGroup} \X PaPins ELSE {}
    IN  /\ gp_todo = <<>> =>
             /\ gp_asked.high \ open = On("out") \ open /\ gp_asked.driven = Pins \ On("oen")
             /\ gp_asked.read = On("ie") /\ gp_asked.strong = On("ds") /\ gp_asked.gpio = On("func")
             /\ gp_asked.weak = {GroupC} \X gp_reg[<<"pe", GroupC>>]
             /\ gp_asked.pull = {x \in {pin \in Pins : pin[1] # 4} \X {0, 1} : PullBit(x[1], x[2])}
        /\ (gp_todo = <<>> \/ ~gp_first) => \A pin \in Pins \ On("func") :
             gp_reg[<<"mux", MuxAt(pin[1], pin[2])>>] = {gp_asked.mux[pin]}
=============================================================================
