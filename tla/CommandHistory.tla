--------------------------- MODULE CommandHistory ---------------------------
(***************************************************************************)
(* CommandHistory of kernel/src/shell/command/history.rs, as operators on  *)
(* a record of its two mutable fields.  A command is a sequence of bytes.  *)
(* previous and next are given by the step of current_index they make and  *)
(* the entry it then stands at, if any.                                    *)
(***************************************************************************)
EXTENDS Integers, Sequences

CONSTANTS max_size,   \* 100 in the shell
          Blank       \* the bytes that trim() strips

ASSUME MaxSizeAssumption == max_size \in Nat \ {0}

NewHistory == [history |-> << >>, current_index |-> 0]

IsBlank(cmd) == \A i \in 1 .. Len(cmd) : cmd[i] \in Blank

\* Mutant: the oldest command is dropped one command too late.
Full_Late(h) == Len(h) > max_size

Full(h) == Len(h) >= max_size

Worthy(h, cmd) == ~IsBlank(cmd) /\ (h = << >> \/ h[Len(h)] # cmd)

\* The list after add_command.
Recorded(h, cmd) ==
    IF Worthy(h, cmd) THEN Append(IF Full(h) THEN Tail(h) ELSE h, cmd) ELSE h

add_command(h, cmd) ==
    [history |-> Recorded(h.history, cmd),
     current_index |-> Len(Recorded(h.history, cmd))]

\* Vec::get on a 0-based index.
HasEntry(h) == h.current_index < Len(h.history)
Entry(h) == h.history[h.current_index + 1]

StepPrevious(h) ==
    IF h.current_index > 0 THEN [h EXCEPT !.current_index = @ - 1] ELSE h
StepNext(h) ==
    IF h.current_index < Len(h.history) THEN [h EXCEPT !.current_index = @ + 1] ELSE h
=============================================================================
