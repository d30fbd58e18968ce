---------------------------- MODULE FlashMemory ----------------------------
(***************************************************************************)
(* What the flash functions promise their callers: a call programs or      *)
(* erases the cells it names and no others, piece by piece, unless they    *)
(* are protected; a loss of power leaves the cells of one call torn and    *)
(* the others as they were.                                                *)
(*                                                                         *)
(* A byte is the set of its bits that are 1: programming clears bits,      *)
(* erasing sets them all.                                                  *)
(***************************************************************************)
CONSTANTS
    Bits,           \* the bits of a byte
    Cells,          \* the addresses
    Contexts        \* who calls

VARIABLES
    mem,            \* the bytes
    todo,           \* by context, what its call has still to do, by cell
    protected,      \* the cells that refuse to change
    powered         \* there is power

vars == <<mem, todo, protected, powered>>

Byte == SUBSET Bits

\* What is to become of a byte: the bits to keep and those to set.
Change == [keep : Byte, set : Byte]
Program(byte) == [keep |-> byte, set |-> {}]
Erase == [keep |-> {}, set |-> Bits]
Changed(byte, change) == (byte \cap change.keep) \cup change.set

IsJob(job) == DOMAIN job \subseteq Cells /\ job \in [DOMAIN job -> Change]
Without(job, S) == [c \in DOMAIN job \ S |-> job[c]]
Idle(job) == DOMAIN job = {}

Init ==
    /\ mem \in [Cells -> Byte]
    /\ todo = [x \in Contexts |-> <<>>]
    /\ protected \in SUBSET Cells /\ powered \in BOOLEAN

Start(x) ==
    /\ powered /\ Idle(todo[x]) /\ IsJob(todo'[x])
    /\ todo' = [todo EXCEPT ![x] = todo'[x]]
    /\ UNCHANGED <<mem, protected, powered>>

\* The cells S are done: changed, or refused where they are protected.
Piece(x, S) ==
    /\ powered /\ S # {}
    /\ todo' = [todo EXCEPT ![x] = Without(@, S)]
    /\ mem' = [c \in Cells |-> IF c \in S /\ S \cap protected = {}
                                 THEN Changed(mem[c], todo[x][c]) ELSE mem[c]]
    /\ UNCHANGED <<protected, powered>>

Protect == protected' \in SUBSET Cells /\ UNCHANGED <<mem, todo, powered>>

Between(v, old, new) == old \cap new \subseteq v /\ v \subseteq old \cup new

PowerLoss ==
    /\ powered /\ ~powered'
    /\ mem' \in [Cells -> Byte]
    /\ \E x \in Contexts : \A c \in Cells :
         IF c \in DOMAIN todo[x] \ protected
           THEN Between(mem'[c], mem[c], Changed(mem[c], todo[x][c]))
           ELSE mem'[c] = mem[c]
    /\ todo' = [x \in Contexts |-> <<>>]
    /\ protected' \in SUBSET Cells

PowerOn == ~powered /\ powered' /\ UNCHANGED <<mem, todo, protected>>

Next ==
    \/ \E x \in Contexts : Start(x) \/ \E S \in SUBSET DOMAIN todo[x] : Piece(x, S)
    \/ Protect \/ PowerLoss \/ PowerOn

Spec == Init /\ [][Next]_vars
=============================================================================
