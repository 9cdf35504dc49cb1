----------------------------- MODULE LineEditor -----------------------------
(***************************************************************************)
(* What the line editor of the shell promises: a line of bytes with a      *)
(* cursor between two of them.  Typing puts a byte at the cursor, the      *)
(* backspace key takes the one before it and ENTER clears the line.  Once  *)
(* the start of an arrow key has been read the next byte moves the cursor, *)
(* puts a line of the history in place of the line, or does nothing.       *)
(***************************************************************************)
EXTENDS Integers, Sequences

CONSTANTS Byte, Capacity

VARIABLES line, at, arrow

Before == SubSeq(line, 1, at)
After == SubSeq(line, at + 1, Len(line))

Init == line = << >> /\ at = 0 /\ arrow = FALSE

Type(c) ==
    /\ ~arrow /\ Len(line) < Capacity
    /\ line' = Append(Before, c) \o After
    /\ at' = at + 1
    /\ UNCHANGED arrow

Erase ==
    /\ ~arrow /\ at > 0
    /\ line' = SubSeq(line, 1, at - 1) \o After
    /\ at' = at - 1
    /\ UNCHANGED arrow

Clear ==
    /\ ~arrow
    /\ line' = << >> /\ at' = 0
    /\ UNCHANGED arrow

StartArrow ==
    /\ ~arrow /\ arrow'
    /\ UNCHANGED <<line, at>>

Arrow ==
    /\ arrow /\ ~arrow'
    /\ \/ UNCHANGED line /\ at' \in 0 .. Len(line) /\ at' \in at - 1 .. at + 1
       \/ Len(line') <= Capacity /\ at' = Len(line')

Next ==
    \/ \E c \in Byte : Type(c)
    \/ Erase
    \/ Clear
    \/ StartArrow
    \/ Arrow

Spec == Init /\ [][Next]_<<line, at, arrow>>
=============================================================================
