---------------------------------- MODULE Kbd ----------------------------------
(***************************************************************************)
(* kernel/kbd.c: kbdgetc(), fed with the bytes that a keyboard sends when  *)
(* keys go down and up.                                                    *)
(***************************************************************************)
EXTENDS Integers, Sequences, FiniteSets

CONSTANTS Keys,    \* the keys of the keyboard
          MaxDown  \* how many are down at a time

VARIABLES
    shift,      \* the flags of the static variable
    led,        \* led_status: the lamps that are lit
    down,       \* the keys that are down
    bytes,      \* what the keyboard has sent and kbdgetc() has not read
    char        \* what it returned last

kbdVars == <<shift, led, down, bytes, char>>

KbdInit == shift = {} /\ led = {} /\ down = {} /\ bytes = <<>> /\ char = "NO"

\* The code of a key, and whether 0xE0 comes before it.  A byte is its code and
\* whether bit 7, the release, is set.
Code == [LShift |-> "2A", RShift |-> "36", LCtl |-> "1D", RCtl |-> "1D", LAlt |-> "38",
         RAlt |-> "38", Caps |-> "3A", Num |-> "45", Scroll |-> "46", a |-> "1E", Up |-> "48"]
Extended == {"RCtl", "RAlt", "Up"}

\* shiftcode and togglecode, for a code with and without the bit 0x80 that stands
\* for the prefix.
Shiftcode(code, hi) ==
    CASE code = "1D" -> {"CTL"} [] code = "38" -> {"ALT"}
      [] code \in {"2A", "36"} /\ ~hi -> {"SHIFT"} [] OTHER -> {}
Togglecode(code, hi) ==
    CASE code = "3A" /\ ~hi -> {"CAPSLOCK"} [] code = "45" /\ ~hi -> {"NUMLOCK"}
      [] code = "46" /\ ~hi -> {"SCROLLLOCK"} [] OTHER -> {}

Xor(S, T) == (S \ T) \cup (T \ S)

\* normalmap, shiftmap and ctlmap, and the case of a letter.
Charcode(flags, code, hi) ==
    CASE code = "1E" /\ ~hi ->
            IF "CTL" \in flags THEN "C-a"
            ELSE IF ("SHIFT" \in flags) # ("CAPSLOCK" \in flags) THEN "A" ELSE "a"
      [] code = "48" /\ hi -> "KEY_UP"
      [] OTHER -> "NO"

-------------------------------------------------------------------------------
(* The keyboard *)

Sends(k, up) ==
    (IF k \in Extended THEN <<[code |-> "E0", up |-> FALSE]>> ELSE <<>>)
    \o <<[code |-> Code[k], up |-> up]>>

Press(k) ==
    /\ bytes = <<>> /\ k \notin down
    /\ Cardinality(down) < MaxDown
    /\ down' = down \cup {k}
    /\ bytes' = Sends(k, FALSE)
    /\ UNCHANGED <<shift, led, char>>

\* A key that stays down is sent again.
Repeat(k) ==
    /\ bytes = <<>> /\ k \in down
    /\ bytes' = Sends(k, FALSE)
    /\ UNCHANGED <<shift, led, down, char>>

Release(k) ==
    /\ bytes = <<>> /\ k \in down
    /\ down' = down \ {k}
    /\ bytes' = Sends(k, TRUE)
    /\ UNCHANGED <<shift, led, char>>

-------------------------------------------------------------------------------
(* kbdgetc() *)

\* Mutant: a release does not end the escape.
Released_KeepsEsc(code) == shift \ Shiftcode(code, "E0ESC" \in shift)

\* shift &= ~(shiftcode[data] | E0ESC);
Released(code) == shift \ (Shiftcode(code, "E0ESC" \in shift) \cup {"E0ESC"})

Kbdgetc ==
    LET b == Head(bytes)
        hi == "E0ESC" \in shift
        pressed == Xor((shift \ {"E0ESC"}) \cup Shiftcode(b.code, hi), Togglecode(b.code, hi)) IN
    /\ bytes # <<>>
    /\ bytes' = Tail(bytes)
    /\ \/ b.code = "E0" /\ shift' = shift \cup {"E0ESC"} /\ UNCHANGED <<led, char>>
       \/ b.code # "E0" /\ b.up /\ shift' = Released(b.code) /\ UNCHANGED <<led, char>>
       \/ /\ b.code # "E0" /\ ~b.up
          /\ shift' = pressed
          /\ char' = Charcode(pressed, b.code, hi)
          /\ led' = Xor(led, Togglecode(b.code, hi))
    /\ UNCHANGED down

KbdNext == Kbdgetc \/ \E k \in Keys : Press(k) \/ Repeat(k) \/ Release(k)

\* kbdgetc(): no shift, control or alt key sticks, whatever prefixed and plain codes
\* come in between, no prefix is left over, and the lamps show the locks.
NoStuckKey ==
    bytes = <<>> =>
        /\ "E0ESC" \notin shift
        /\ "SHIFT" \in shift => down \cap {"LShift", "RShift"} # {}
        /\ "CTL" \in shift => down \cap {"LCtl", "RCtl"} # {}
        /\ "ALT" \in shift => down \cap {"LAlt", "RAlt"} # {}
        /\ led = shift \cap {"CAPSLOCK", "NUMLOCK", "SCROLLLOCK"}
===============================================================================
