------------------------------- MODULE Console -------------------------------
(***************************************************************************)
(* The line editor of the shell: console_init of kernel/src/shell/mod.rs,  *)
(* one action per key, over the fixed buffer, the cursor, the escape       *)
(* sequence state and the command history.  screen is what the terminal    *)
(* shows after the prompt and the column of its cursor there.              *)
(***************************************************************************)
EXTENDS CommandHistory

CONSTANTS MAX_LINE_LEN,  \* 256 in the code
          Char,          \* bytes that are valid UTF-8 on their own
          Raw            \* bytes above 31 that are valid UTF-8 nowhere (16#ff#)

ASSUME LineAssumption == MAX_LINE_LEN \in Nat \ {0}
ASSUME ByteAssumption == Char \cap Raw = {} /\ 0 \notin Char \cup Raw

VARIABLES buf, cursor, line_len, input_state, history, screen

vars == <<buf, cursor, line_len, input_state, history, screen>>
lineVars == <<buf, cursor, line_len, history, screen>>

Byte == Char \cup Raw
Index == 0 .. MAX_LINE_LEN - 1
NUL == 0

\* buf[..n] as a sequence, and as a str: unwrap_or("") on invalid UTF-8.
Bytes(b, n) == [i \in 1 .. n |-> b[i - 1]]
Utf8(s) == IF \A i \in 1 .. Len(s) : s[i] \in Char THEN s ELSE << >>

\* clear_line_and_redraw.
redraw(content, at) ==
    [text |-> content, col |-> IF at < Len(content) THEN at ELSE Len(content)]
Prompt == [text |-> << >>, col |-> 0]

Init ==
    /\ buf = [i \in Index |-> NUL]
    /\ cursor = 0
    /\ line_len = 0
    /\ input_state = "Normal"
    /\ history = NewHistory
    /\ screen = Prompt

\* The line becomes the first n bytes of b.
SetLine(b, n, at) ==
    /\ buf' = b
    /\ line_len' = n
    /\ cursor' = at

Cleared(b, n) == [i \in Index |-> IF i < n THEN NUL ELSE b[i]]

-----------------------------------------------------------------------------
(* InputState::Normal.                                                     *)

Enter ==
    /\ input_state = "Normal"
    /\ IF line_len > 0
         THEN /\ history' = add_command(history, Utf8(Bytes(buf, line_len)))
              /\ SetLine(Cleared(buf, line_len), 0, 0)
         ELSE UNCHANGED <<buf, cursor, line_len, history>>
    /\ screen' = Prompt
    /\ UNCHANGED input_state

\* Mutant: the byte past the new end keeps its old value.
DeletedAt_NotCleared(b, n, at) ==
    [i \in Index |-> IF at - 1 <= i /\ i < n - 1 THEN b[i + 1] ELSE b[i]]

\* The loop moves the bytes from the cursor on one place forward, and the byte
\* past the new end is cleared.
DeletedAt(b, n, at) ==
    [i \in Index |-> IF i = n - 1 THEN NUL
                     ELSE IF at - 1 <= i /\ i < n - 1 THEN b[i + 1] ELSE b[i]]

Backspace ==
    /\ input_state = "Normal"
    /\ cursor > 0
    /\ SetLine(DeletedAt(buf, line_len, cursor), line_len - 1, cursor - 1)
    /\ screen' = redraw(Utf8(Bytes(buf', line_len')), cursor')
    /\ UNCHANGED <<input_state, history>>

Esc ==
    /\ input_state = "Normal"
    /\ input_state' = "Escape"
    /\ UNCHANGED lineVars

\* Mutant: the loop runs from the cursor up and smears the byte there.
InsertedAt_Forward(b, n, at, c) ==
    [i \in Index |-> IF i = at THEN c ELSE IF at < i /\ i <= n THEN b[at] ELSE b[i]]

InsertedAt(b, n, at, c) ==
    [i \in Index |-> IF i = at THEN c
                     ELSE IF at < i /\ i <= n THEN b[i - 1] ELSE b[i]]

HasRoom == line_len < MAX_LINE_LEN - 1

Insert(c) ==
    /\ input_state = "Normal"
    /\ HasRoom
    /\ SetLine(InsertedAt(buf, line_len, cursor, c), line_len + 1, cursor + 1)
    /\ screen' = redraw(Utf8(Bytes(buf', line_len')), cursor')
    /\ UNCHANGED <<input_state, history>>

-----------------------------------------------------------------------------
(* InputState::Escape and InputState::EscapeSeq.                           *)

EscapeKey(bracket) ==
    /\ input_state = "Escape"
    /\ input_state' = IF bracket THEN "EscapeSeq" ELSE "Normal"
    /\ UNCHANGED lineVars

\* A history entry is copied into the cleared buffer, cut to its size.
copy_len(cmd) == IF Len(cmd) < MAX_LINE_LEN - 1 THEN Len(cmd) ELSE MAX_LINE_LEN - 1
Recalled(cmd) ==
    [i \in Index |-> IF i < copy_len(cmd) THEN cmd[i + 1] ELSE Cleared(buf, line_len)[i]]
Recall(cmd) ==
    /\ SetLine(Recalled(cmd), copy_len(cmd), copy_len(cmd))
    /\ screen' = redraw(cmd, copy_len(cmd))

Up ==
    /\ input_state = "EscapeSeq"
    /\ IF history.current_index > 0 /\ HasEntry(StepPrevious(history))
         THEN Recall(Entry(StepPrevious(history)))
         ELSE UNCHANGED <<buf, cursor, line_len, screen>>
    /\ history' = StepPrevious(history)
    /\ input_state' = "Normal"

Down ==
    /\ input_state = "EscapeSeq"
    /\ IF HasEntry(StepNext(history))
         THEN Recall(Entry(StepNext(history)))
         ELSE /\ SetLine(Cleared(buf, line_len), 0, 0)
              /\ screen' = Prompt
    /\ history' = StepNext(history)
    /\ input_state' = "Normal"

\* Mutant: the cursor moves one place past the end of the line.
CanMoveRight_Past == cursor <= line_len

CanMoveRight == cursor < line_len

Right ==
    /\ input_state = "EscapeSeq"
    /\ IF CanMoveRight
         THEN cursor' = cursor + 1 /\ screen' = [screen EXCEPT !.col = @ + 1]
         ELSE UNCHANGED <<cursor, screen>>
    /\ input_state' = "Normal"
    /\ UNCHANGED <<buf, line_len, history>>

\* Mutant: the terminal's cursor is not moved.
Left_Silent ==
    /\ input_state = "EscapeSeq"
    /\ cursor' = IF cursor > 0 THEN cursor - 1 ELSE cursor
    /\ input_state' = "Normal"
    /\ UNCHANGED <<buf, line_len, history, screen>>

Left ==
    /\ input_state = "EscapeSeq"
    /\ IF cursor > 0
         THEN cursor' = cursor - 1 /\ screen' = [screen EXCEPT !.col = @ - 1]
         ELSE UNCHANGED <<cursor, screen>>
    /\ input_state' = "Normal"
    /\ UNCHANGED <<buf, line_len, history>>

\* `3' of ESC[3~ and every other byte.
EscapeSeqOther ==
    /\ input_state = "EscapeSeq"
    /\ input_state' = "Normal"
    /\ UNCHANGED lineVars

Next ==
    \/ Enter \/ Backspace \/ Esc
    \/ \E c \in Byte : Insert(c)
    \/ \E bracket \in BOOLEAN : EscapeKey(bracket)
    \/ Up \/ Down \/ Right \/ Left \/ EscapeSeqOther

Spec == Init /\ [][Next]_vars

-----------------------------------------------------------------------------
\* Types of the editor's state.
TypeOK ==
    /\ buf \in [Index -> Byte \cup {NUL}]
    /\ cursor \in Nat
    /\ line_len \in Nat
    /\ input_state \in {"Normal", "Escape", "EscapeSeq"}
    /\ history \in [history : Seq(Seq(Char)), current_index : Nat]
    /\ screen \in [text : Seq(Char), col : Int]

\* The cursor stays within the line and the line within the buffer with one
\* place to spare, so no index of console_init is out of bounds.
InBounds == cursor <= line_len /\ line_len <= MAX_LINE_LEN - 1

\* The line is made of typed bytes and the rest of the buffer is zero: nothing
\* of an earlier, longer line is left behind it.
CleanTail ==
    \A i \in Index : (buf[i] = NUL) = (i >= line_len)

\* The history holds at most max_size commands, none blank, none equal to the
\* one before it, each short enough for the buffer, and the position of
\* UP/DOWN stays within it or one past its end.
HistoryOK ==
    LET h == history.history
    IN  /\ Len(h) <= max_size
        /\ history.current_index <= Len(h)
        /\ \A i \in 1 .. Len(h) : ~IsBlank(h[i]) /\ Len(h[i]) <= MAX_LINE_LEN - 1
        /\ \A i \in 1 .. Len(h) - 1 : h[i] # h[i + 1]

\* The terminal shows the line and the cursor where the editor has them, as
\* long as the line is valid UTF-8 of one byte per character.
ScreenMatches ==
    LET line == Bytes(buf, line_len)
    IN  Utf8(line) = line => screen = [text |-> line, col |-> cursor]

Editor == INSTANCE LineEditor WITH
    line <- Bytes(buf, line_len), at <- cursor, arrow <- input_state = "EscapeSeq",
    Capacity <- MAX_LINE_LEN - 1

\* The loops of console_init over the fixed buffer edit the line as LineEditor
\* says: no byte is lost, doubled or moved past another, and only ENTER and the
\* history replace the line as a whole.
EditsLine == Editor!Spec
=============================================================================
