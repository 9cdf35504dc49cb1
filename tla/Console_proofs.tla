--------------------------- MODULE Console_proofs ---------------------------
(***************************************************************************)
(* Proofs about Console, for every length of the buffer and of the         *)
(* history: no index is out of bounds, the buffer behind the line is       *)
(* clear, the history keeps its shape, the screen of the terminal shows    *)
(* the line, and the console implements LineEditor.  And about Tokenizer:  *)
(* what is typed between quotes is cut into the tokens that were meant.    *)
(***************************************************************************)
EXTENDS Console, Tokenizer, SequenceTheorems, WellFoundedInduction, TLAPS

ConsoleInv == TypeOK /\ InBounds /\ CleanTail /\ HistoryOK

Commands == Seq(Seq(Char))
History == [history : Commands, current_index : Nat]

-----------------------------------------------------------------------------
(* The operators of CommandHistory and of the editor.                      *)

\* What HistoryOK says of a history value.
Kept(h) ==
    /\ Len(h) <= max_size
    /\ \A i \in 1 .. Len(h) : ~IsBlank(h[i]) /\ Len(h[i]) <= MAX_LINE_LEN - 1
    /\ \A i \in 1 .. Len(h) - 1 : h[i] # h[i + 1]

\* Recording a line that fits in the buffer keeps the shape of the history.
LEMMA RecordedKept ==
  ASSUME NEW h \in Commands, Kept(h), NEW cmd \in Seq(Char), Len(cmd) <= MAX_LINE_LEN - 1
  PROVE  Recorded(h, cmd) \in Commands /\ Kept(Recorded(h, cmd))
<1>1. CASE ~Worthy(h, cmd)
  BY <1>1 DEF Recorded
<1>2. CASE Worthy(h, cmd)
  <2> DEFINE base == IF Full(h) THEN Tail(h) ELSE h
  <2>1. /\ base \in Commands
        /\ Len(base) <= max_size - 1
        /\ Full(h) => Len(base) = Len(h) - 1 /\ \A i \in 1 .. Len(base) : base[i] = h[i + 1]
    BY MaxSizeAssumption DEF Full, Commands, Kept
  <2>2. \A i \in 1 .. Len(base) : ~IsBlank(base[i]) /\ Len(base[i]) <= MAX_LINE_LEN - 1
    <3>1. CASE Full(h)
      BY <2>1, <3>1 DEF Kept, Commands
    <3>2. CASE ~Full(h)
      BY <3>2 DEF Kept
    <3> QED BY Zenon, <3>1, <3>2
  <2>3. \A i \in 1 .. Len(base) - 1 : base[i] # base[i + 1]
    <3>1. CASE Full(h)
      BY <2>1, <3>1 DEF Kept, Commands
    <3>2. CASE ~Full(h)
      BY <3>2 DEF Kept
    <3> QED BY Zenon, <3>1, <3>2
  <2>4. Len(base) > 0 => base[Len(base)] # cmd
    <3>1. CASE Full(h)
      BY <1>2, <2>1, <3>1 DEF Worthy, Commands
    <3>2. CASE ~Full(h)
      BY <1>2, <3>2 DEF Worthy, Commands
    <3> QED BY <3>1, <3>2
  <2>5. Recorded(h, cmd) = Append(base, cmd)
    BY <1>2 DEF Recorded
  <2>6. ~IsBlank(cmd)
    BY <1>2 DEF Worthy
  <2> HIDE DEF base
  <2> DEFINE r == Append(base, cmd)
  <2>7. /\ r \in Commands /\ Len(r) = Len(base) + 1 /\ r[Len(r)] = cmd
        /\ \A i \in 1 .. Len(base) : r[i] = base[i]
    BY <2>1 DEF Commands
  <2>8. Len(base) \in Nat
    BY <2>1 DEF Commands
  <2> HIDE DEF r
  <2>9. Kept(r)
    <3>1. Len(r) <= max_size
      BY <2>1, <2>7, <2>8, MaxSizeAssumption
    <3>2. \A i \in 1 .. Len(r) : ~IsBlank(r[i]) /\ Len(r[i]) <= MAX_LINE_LEN - 1
      <4> SUFFICES ASSUME NEW i \in 1 .. Len(r)
                   PROVE  ~IsBlank(r[i]) /\ Len(r[i]) <= MAX_LINE_LEN - 1
        OBVIOUS
      <4>1. CASE i = Len(r)
        BY <2>6, <2>7, <4>1
      <4>2. CASE i \in 1 .. Len(base)
        BY <2>2, <2>7, <4>2
      <4> QED
        BY <2>7, <2>8, <4>1, <4>2
    <3>3. \A i \in 1 .. Len(r) - 1 : r[i] # r[i + 1]
      <4> SUFFICES ASSUME NEW i \in 1 .. Len(base) PROVE r[i] # r[i + 1]
        BY <2>7, <2>8
      <4>1. CASE i = Len(base)
        BY <2>4, <2>7, <2>8, <4>1
      <4>2. CASE i \in 1 .. Len(base) - 1
        BY <2>3, <2>7, <2>8, <4>2
      <4> QED
        BY <2>8, <4>1, <4>2
    <3> QED
      BY <3>1, <3>2, <3>3 DEF Kept
  <2> QED
    BY <2>5, <2>7, <2>9 DEF r
<1> QED BY <1>1, <1>2

Buffer == [Index -> Byte \cup {NUL}]
Screen == [text : Seq(Char), col : Int]

\* What from_utf8 makes of the buffer is text, no longer than the line.
LEMMA Utf8Type ==
  ASSUME NEW b \in Buffer, NEW n \in Nat, n <= MAX_LINE_LEN
  PROVE  /\ Utf8(Bytes(b, n)) \in Seq(Char)
         /\ Len(Utf8(Bytes(b, n))) <= n
<1> DEFINE s == Bytes(b, n)
<1>1. \A i \in 1 .. n : i - 1 \in Index
  BY LineAssumption DEF Index
<1>2. s \in Seq(Byte \cup {NUL}) /\ Len(s) = n
  BY <1>1 DEF Bytes, Buffer
<1> HIDE DEF s
<1>3. CASE \A i \in 1 .. Len(s) : s[i] \in Char
  BY <1>2, <1>3 DEF Utf8, s
<1>4. CASE ~\A i \in 1 .. Len(s) : s[i] \in Char
  BY <1>2, <1>4 DEF Utf8, s
<1> QED BY <1>3, <1>4

\* What is redrawn is a screen.
LEMMA RedrawType ==
  ASSUME NEW content \in Seq(Char), NEW at \in Nat
  PROVE  redraw(content, at) \in Screen
  BY DEF redraw, Screen

\* An empty prompt is a screen.
LEMMA PromptType == Prompt \in Screen
  BY DEF Prompt, Screen

\* The part of ConsoleInv that is about the line.
LineOK(b, n, at) ==
    /\ b \in Buffer /\ n \in Nat /\ at \in Nat
    /\ at <= n /\ n <= MAX_LINE_LEN - 1
    /\ \A i \in Index : (b[i] = NUL) <=> (i >= n)

HistOK(h) ==
    /\ h \in History /\ h.current_index <= Len(h.history)
    /\ Kept(h.history)

\* ConsoleInv is about the line, the history, the input state and the screen,
LEMMA InvParts ==
  ConsoleInv <=> /\ LineOK(buf, line_len, cursor)
                 /\ HistOK(history)
                 /\ input_state \in {"Normal", "Escape", "EscapeSeq"}
                 /\ screen \in Screen
  BY DEF ConsoleInv, TypeOK, InBounds, CleanTail, HistoryOK, LineOK, HistOK, Kept,
     Buffer, Screen, History, Commands

\* and so it is after a step.
LEMMA InvPartsNext ==
  ConsoleInv' <=> /\ LineOK(buf', line_len', cursor')
                  /\ HistOK(history')
                  /\ input_state' \in {"Normal", "Escape", "EscapeSeq"}
                  /\ screen' \in Screen
  BY DEF ConsoleInv, TypeOK, InBounds, CleanTail, HistoryOK, LineOK, HistOK, Kept,
     Buffer, Screen, History, Commands

\* Clearing the line leaves an empty one in a clean buffer.
LEMMA ClearedOK ==
  ASSUME NEW b, NEW n, NEW at, LineOK(b, n, at)
  PROVE  LineOK(Cleared(b, n), 0, 0)
  BY LineAssumption DEF LineOK, Cleared, Buffer, Index

\* Deleting a byte keeps the line in its bounds and the rest clean.
LEMMA DeletedOK ==
  ASSUME NEW b, NEW n, NEW at, LineOK(b, n, at), at > 0
  PROVE  LineOK(DeletedAt(b, n, at), n - 1, at - 1)
<1> DEFINE d == DeletedAt(b, n, at)
<1>1. \A i \in Index : /\ i \in Nat /\ i <= MAX_LINE_LEN - 1
                       /\ i < n - 1 => i + 1 \in Index
  BY LineAssumption DEF Index, LineOK
<1>2. d \in Buffer
  BY <1>1 DEF DeletedAt, LineOK, Buffer
<1>3. \A i \in Index : (d[i] = NUL) <=> (i >= n - 1)
  BY <1>1 DEF DeletedAt, LineOK
<1> QED
  BY <1>2, <1>3, LineAssumption DEF LineOK

\* Inserting a byte keeps the line in its bounds and the rest clean.
LEMMA InsertedOK ==
  ASSUME NEW b, NEW n, NEW at, LineOK(b, n, at), n < MAX_LINE_LEN - 1, NEW c \in Byte
  PROVE  LineOK(InsertedAt(b, n, at, c), n + 1, at + 1)
<1> DEFINE d == InsertedAt(b, n, at, c)
<1>1. \A i \in Index : /\ i \in Nat /\ i <= MAX_LINE_LEN - 1
                       /\ i > at => i - 1 \in Index
  BY LineAssumption DEF Index, LineOK
<1>2. d \in Buffer
  BY <1>1 DEF InsertedAt, LineOK, Buffer
<1>3. c # NUL
  BY ByteAssumption DEF Byte, NUL
<1>4. \A i \in Index : (d[i] = NUL) <=> (i >= n + 1)
  BY <1>1, <1>3 DEF InsertedAt, LineOK
<1> QED
  BY <1>2, <1>4, LineAssumption DEF LineOK

\* Recalling a command replaces the line by what fits of it.
LEMMA RecalledOK ==
  ASSUME LineOK(buf, line_len, cursor), NEW cmd \in Seq(Char)
  PROVE  LineOK(Recalled(cmd), copy_len(cmd), copy_len(cmd)) /\ copy_len(cmd) \in Nat
<1>1. copy_len(cmd) \in Nat /\ copy_len(cmd) <= Len(cmd) /\ copy_len(cmd) <= MAX_LINE_LEN - 1
  BY LineAssumption DEF copy_len
<1>2. \A i \in Index : i < copy_len(cmd) => i + 1 \in 1 .. Len(cmd) /\ cmd[i + 1] \in Char
  BY <1>1, LineAssumption DEF Index
<1>3. \A i \in Index : Cleared(buf, line_len)[i] = NUL
  BY LineAssumption DEF LineOK, Cleared, Index
<1>4. \A x \in Char : x \in Byte /\ x # NUL
  BY ByteAssumption DEF Byte, NUL
<1>5. Recalled(cmd) \in Buffer
  BY <1>2, <1>3, <1>4 DEF Recalled, Buffer
<1>6. \A i \in Index : (Recalled(cmd)[i] = NUL) <=> (i >= copy_len(cmd))
  <2> SUFFICES ASSUME NEW i \in Index
               PROVE  (Recalled(cmd)[i] = NUL) <=> (i >= copy_len(cmd))
    OBVIOUS
  <2>1. i \in Nat
    BY LineAssumption DEF Index
  <2>2. CASE i < copy_len(cmd)
    BY <1>1, <1>2, <1>4, <2>1, <2>2 DEF Recalled
  <2>3. CASE ~(i < copy_len(cmd))
    BY <1>1, <1>3, <2>1, <2>3 DEF Recalled
  <2> QED BY <2>2, <2>3
<1> QED
  BY <1>1, <1>5, <1>6 DEF LineOK

\* add_command keeps the shape of the history.
LEMMA AddOK ==
  ASSUME NEW h, HistOK(h), NEW cmd \in Seq(Char), Len(cmd) <= MAX_LINE_LEN - 1
  PROVE  HistOK(add_command(h, cmd))
<1> DEFINE r == Recorded(h.history, cmd)
<1>1. r \in Commands /\ Kept(r)
  BY RecordedKept DEF HistOK, History
<1>2. add_command(h, cmd) = [history |-> r, current_index |-> Len(r)]
  BY DEF add_command
<1> HIDE DEF r
<1>3. Len(r) \in Nat
  BY <1>1 DEF Commands
<1> QED
  BY <1>1, <1>2, <1>3 DEF HistOK, History

\* A command that a line of the buffer can hold.
Fits(cmd) == cmd \in Seq(Char) /\ Len(cmd) <= MAX_LINE_LEN - 1

\* UP and DOWN keep the shape of the history and find whole commands.
LEMMA StepOK ==
  ASSUME NEW h, HistOK(h)
  PROVE  /\ HistOK(StepPrevious(h)) /\ HistOK(StepNext(h))
         /\ HasEntry(StepPrevious(h)) => Fits(Entry(StepPrevious(h)))
         /\ HasEntry(StepNext(h)) => Fits(Entry(StepNext(h)))
<1>1. ASSUME NEW g, HistOK(g), HasEntry(g) PROVE Fits(Entry(g))
  <2>1. g.history \in Commands /\ g.current_index + 1 \in 1 .. Len(g.history)
    BY <1>1 DEF HistOK, HasEntry, History, Commands
  <2>2. Kept(g.history)
    BY <1>1 DEF HistOK
  <2> QED
    BY <2>1, <2>2 DEF Entry, Kept, Fits, Commands
<1>2. Len(h.history) \in Nat
  BY DEF HistOK, History, Commands
<1>3. ASSUME NEW n \in Nat, n <= Len(h.history)
      PROVE  HistOK([h EXCEPT !.current_index = n])
  BY <1>3 DEF HistOK, History
<1>4. h.current_index \in Nat /\ h.current_index <= Len(h.history)
  BY DEF HistOK, History
<1>5. HistOK(StepPrevious(h))
  <2>1. CASE h.current_index > 0
    <3>1. h.current_index - 1 \in Nat /\ h.current_index - 1 <= Len(h.history)
      BY <1>2, <1>4, <2>1
    <3> QED
      BY <1>3, <2>1, <3>1 DEF StepPrevious
  <2>2. CASE ~(h.current_index > 0)
    BY <2>2 DEF StepPrevious
  <2> QED BY <2>1, <2>2
<1>6. HistOK(StepNext(h))
  <2>1. CASE h.current_index < Len(h.history)
    <3>1. h.current_index + 1 \in Nat /\ h.current_index + 1 <= Len(h.history)
      BY <1>2, <1>4, <2>1
    <3> QED
      BY <1>3, <2>1, <3>1 DEF StepNext
  <2>2. CASE ~(h.current_index < Len(h.history))
    BY <2>2 DEF StepNext
  <2> QED BY <2>1, <2>2
<1> QED
  BY <1>1, <1>5, <1>6

-----------------------------------------------------------------------------
(* The keys.                                                               *)

\* The invariant holds when the shell starts,
LEMMA ConsoleInit == Init => ConsoleInv
<1> SUFFICES ASSUME Init PROVE ConsoleInv
  OBVIOUS
<1>1. LineOK(buf, line_len, cursor)
  BY LineAssumption DEF Init, LineOK, Buffer, Index
<1>2. HistOK(history)
  BY MaxSizeAssumption DEF Init, NewHistory, HistOK, History, Commands, Kept
<1> QED
  BY <1>1, <1>2, PromptType, InvParts DEF Init

\* after every key,
LEMMA ConsoleStep == ASSUME ConsoleInv, [Next]_vars PROVE ConsoleInv'
<1>0. /\ LineOK(buf, line_len, cursor) /\ HistOK(history)
      /\ input_state \in {"Normal", "Escape", "EscapeSeq"} /\ screen \in Screen
  BY InvParts
<1>1. line_len \in Nat /\ line_len <= MAX_LINE_LEN - 1 /\ line_len <= MAX_LINE_LEN
      /\ cursor \in Nat /\ cursor <= line_len /\ buf \in Buffer
  BY <1>0, LineAssumption DEF LineOK
<1>2. ASSUME LineOK(buf', line_len', cursor')
      PROVE  redraw(Utf8(Bytes(buf', line_len')), cursor') \in Screen
  <2>1. buf' \in Buffer /\ line_len' \in Nat /\ line_len' <= MAX_LINE_LEN /\ cursor' \in Nat
    BY <1>2, LineAssumption DEF LineOK
  <2>2. Utf8(Bytes(buf', line_len')) \in Seq(Char)
    BY <2>1, Utf8Type
  <2> QED
    BY <2>1, <2>2, RedrawType
<1>3. ASSUME NEW cmd \in Seq(Char), Recall(cmd)
      PROVE  LineOK(buf', line_len', cursor') /\ screen' \in Screen
  BY <1>0, <1>3, RecalledOK, RedrawType DEF Recall, SetLine
<1>4. CASE Enter
  <2>1. CASE line_len > 0
    <3>1. /\ history' = add_command(history, Utf8(Bytes(buf, line_len)))
          /\ buf' = Cleared(buf, line_len) /\ line_len' = 0 /\ cursor' = 0
      BY <1>4, <2>1 DEF Enter, SetLine
    <3>2. /\ Utf8(Bytes(buf, line_len)) \in Seq(Char)
          /\ Len(Utf8(Bytes(buf, line_len))) <= line_len
      BY <1>1, Utf8Type
    <3>3. Len(Utf8(Bytes(buf, line_len))) <= MAX_LINE_LEN - 1
      BY <1>1, <3>2, LineAssumption
    <3>4. HistOK(history')
      BY <1>0, <3>1, <3>2, <3>3, AddOK
    <3>5. LineOK(buf', line_len', cursor')
      BY <1>0, <3>1, ClearedOK
    <3> QED
      BY <1>0, <1>4, <3>4, <3>5, PromptType, InvPartsNext DEF Enter
  <2>2. CASE ~(line_len > 0)
    BY <1>0, <1>4, <2>2, PromptType, InvPartsNext DEF Enter
  <2> QED BY <2>1, <2>2
<1>5. CASE Backspace
  <2>1. LineOK(buf', line_len', cursor')
    BY <1>0, <1>5, DeletedOK DEF Backspace, SetLine
  <2> QED
    BY <1>0, <1>2, <1>5, <2>1, InvPartsNext DEF Backspace
<1>6. ASSUME NEW c \in Byte, Insert(c) PROVE ConsoleInv'
  <2>1. LineOK(buf', line_len', cursor')
    BY <1>0, <1>6, InsertedOK DEF Insert, HasRoom, SetLine
  <2> QED
    BY <1>0, <1>2, <1>6, <2>1, InvPartsNext DEF Insert
<1>7. CASE Esc
  BY <1>0, <1>7, InvPartsNext DEF Esc, lineVars
<1>8. ASSUME NEW bracket \in BOOLEAN, EscapeKey(bracket) PROVE ConsoleInv'
  BY <1>0, <1>8, InvPartsNext DEF EscapeKey, lineVars
<1>9. CASE Up
  <2>1. HistOK(history') /\ input_state' = "Normal"
    BY <1>0, <1>9, StepOK DEF Up
  <2>2. LineOK(buf', line_len', cursor') /\ screen' \in Screen
    <3>1. CASE history.current_index > 0 /\ HasEntry(StepPrevious(history))
      <4>1. Entry(StepPrevious(history)) \in Seq(Char)
        BY <1>0, <3>1, StepOK DEF Fits
      <4> QED
        BY <1>3, <1>9, <3>1, <4>1 DEF Up
    <3>2. CASE ~(history.current_index > 0 /\ HasEntry(StepPrevious(history)))
      BY <1>0, <1>9, <3>2 DEF Up
    <3> QED BY <3>1, <3>2
  <2> QED
    BY <2>1, <2>2, InvPartsNext
<1>10. CASE Down
  <2>1. HistOK(history') /\ input_state' = "Normal"
    BY <1>0, <1>10, StepOK DEF Down
  <2>2. LineOK(buf', line_len', cursor') /\ screen' \in Screen
    <3>1. CASE HasEntry(StepNext(history))
      <4>1. Entry(StepNext(history)) \in Seq(Char)
        BY <1>0, <3>1, StepOK DEF Fits
      <4> QED
        BY <1>3, <1>10, <3>1, <4>1 DEF Down
    <3>2. CASE ~HasEntry(StepNext(history))
      BY <1>0, <1>10, <3>2, ClearedOK, PromptType DEF Down, SetLine
    <3> QED BY <3>1, <3>2
  <2> QED
    BY <2>1, <2>2, InvPartsNext
<1>11. CASE Right \/ Left
  <2>1. /\ UNCHANGED <<buf, line_len, history>> /\ input_state' = "Normal"
        /\ cursor' \in Nat /\ cursor' <= line_len
    BY <1>1, <1>11 DEF Right, Left, CanMoveRight
  <2>2. screen' \in Screen
    BY <1>0, <1>11 DEF Right, Left, Screen
  <2>3. LineOK(buf', line_len', cursor')
    BY <1>0, <2>1 DEF LineOK
  <2> QED
    BY <1>0, <2>1, <2>2, <2>3, InvPartsNext
<1>12. CASE EscapeSeqOther
  BY <1>0, <1>12, InvPartsNext DEF EscapeSeqOther, lineVars
<1>13. CASE UNCHANGED vars
  BY <1>0, <1>13, InvPartsNext DEF vars
<1> QED
  BY <1>4, <1>5, <1>6, <1>7, <1>8, <1>9, <1>10, <1>11, <1>12, <1>13 DEF Next

\* and so always.
LEMMA ConsoleInvariant == Spec => []ConsoleInv
  BY ConsoleInit, ConsoleStep, PTL DEF Spec

\* No key makes console_init index its buffer out of bounds, for every size of
\* the buffer.
THEOREM ConsoleInBounds == Spec => []InBounds
<1>1. ConsoleInv => InBounds
  BY DEF ConsoleInv
<1> QED
  BY <1>1, ConsoleInvariant, PTL

\* Behind the line the buffer is zero: no byte of an earlier line can come back
\* by typing, deleting or recalling a shorter command.
THEOREM ConsoleCleanTail == Spec => []CleanTail
<1>1. ConsoleInv => CleanTail
  BY DEF ConsoleInv
<1> QED
  BY <1>1, ConsoleInvariant, PTL

\* The history never exceeds max_size, holds no blank command and no command
\* twice in a row, and its position never leaves it, for every max_size.
THEOREM ConsoleHistory == Spec => []HistoryOK
<1>1. ConsoleInv => HistoryOK
  BY DEF ConsoleInv
<1> QED
  BY <1>1, ConsoleInvariant, PTL
-----------------------------------------------------------------------------
(* The line as a sequence of bytes.                                        *)

Text == Seq(Byte \cup {NUL})

\* The bytes of the line are a text of its length.
LEMMA BytesType ==
  ASSUME NEW b \in Buffer, NEW n \in Nat, n <= MAX_LINE_LEN
  PROVE  /\ Bytes(b, n) \in Text /\ Len(Bytes(b, n)) = n
         /\ \A i \in 1 .. n : Bytes(b, n)[i] = b[i - 1]
<1>1. \A i \in 1 .. n : i - 1 \in Index
  BY LineAssumption DEF Index
<1> QED
  BY <1>1 DEF Bytes, Buffer, Text

\* Texts with the same bytes are the same.
LEMMA SameText ==
  ASSUME NEW s \in Text, NEW t \in Text, Len(s) = Len(t),
         \A i \in 1 .. Len(s) : s[i] = t[i]
  PROVE  s = t
  BY SeqEqual DEF Text

\* The text before a place,
LEMMA TextBefore ==
  ASSUME NEW s \in Text, NEW k \in Nat, k <= Len(s)
  PROVE  /\ SubSeq(s, 1, k) \in Text /\ Len(SubSeq(s, 1, k)) = k
         /\ \A i \in 1 .. k : SubSeq(s, 1, k)[i] = s[i]
  BY DEF Text

\* the text from it on,
LEMMA TextAfter ==
  ASSUME NEW s \in Text, NEW k \in Nat, k <= Len(s)
  PROVE  /\ SubSeq(s, k + 1, Len(s)) \in Text /\ Len(SubSeq(s, k + 1, Len(s))) = Len(s) - k
         /\ \A i \in 1 .. Len(s) - k : SubSeq(s, k + 1, Len(s))[i] = s[k + i]
<1> DEFINE t == SubSeq(s, k + 1, Len(s))
<1>1. Len(s) \in Nat
  BY DEF Text
<1>2. t \in Text
  BY <1>1 DEF Text
<1>3. Len(t) = Len(s) - k
  BY <1>1 DEF Text
<1>4. ASSUME NEW i \in 1 .. Len(s) - k PROVE t[i] = s[k + i]
  BY <1>1 DEF Text
<1> QED
  BY <1>2, <1>3, <1>4

\* and the two put together.
LEMMA TextJoined ==
  ASSUME NEW s \in Text, NEW t \in Text, NEW k \in Nat, NEW n \in Nat,
         Len(s) = k, Len(t) = n - k
  PROVE  /\ s \o t \in Text /\ Len(s \o t) = n
         /\ \A i \in 1 .. n : (s \o t)[i] = IF i <= k THEN s[i] ELSE t[i - k]
<1>1. /\ s \o t \in Text /\ Len(s \o t) = Len(s) + Len(t)
      /\ \A i \in 1 .. Len(s) + Len(t) : (s \o t)[i] = IF i <= Len(s) THEN s[i] ELSE t[i - Len(s)]
  BY ConcatProperties, Zenon DEF Text
<1>2. Len(s) + Len(t) = n
  OBVIOUS
<1> QED
  BY <1>1, <1>2, Zenon

\* What the terminal shows when it shows the line.
Shows(s, b, n, at) ==
    Utf8(Bytes(b, n)) = Bytes(b, n) => s = [text |-> Bytes(b, n), col |-> at]

\* Redrawing shows the line.
LEMMA RedrawShows ==
  ASSUME NEW b, NEW n, NEW at, LineOK(b, n, at)
  PROVE  Shows(redraw(Utf8(Bytes(b, n)), at), b, n, at)
<1>1. b \in Buffer /\ n \in Nat /\ at \in Nat /\ at <= n /\ n <= MAX_LINE_LEN
  BY LineAssumption DEF LineOK
<1>2. Len(Bytes(b, n)) = n
  BY <1>1, BytesType
<1> QED
  BY <1>1, <1>2 DEF Shows, redraw

\* A fresh prompt shows the empty line.
LEMMA PromptShows ==
  ASSUME NEW b \in Buffer
  PROVE  Bytes(b, 0) = << >> /\ Shows(Prompt, b, 0, 0)
<1>1. Bytes(b, 0) = << >>
  BY BytesType, LineAssumption DEF Text
<1> QED
  BY <1>1 DEF Shows, Prompt

\* A command of the history fits in the buffer and is recalled as a whole.
LEMMA RecalledLine ==
  ASSUME LineOK(buf, line_len, cursor), NEW cmd \in Seq(Char), Len(cmd) <= MAX_LINE_LEN - 1
  PROVE  /\ copy_len(cmd) = Len(cmd)
         /\ Bytes(Recalled(cmd), Len(cmd)) = cmd
         /\ Shows(redraw(cmd, copy_len(cmd)), Recalled(cmd), copy_len(cmd), copy_len(cmd))
<1>1. copy_len(cmd) = Len(cmd) /\ Len(cmd) \in Nat
  BY LineAssumption DEF copy_len
<1>2. Recalled(cmd) \in Buffer
  BY RecalledOK DEF LineOK
<1>3. \A i \in 1 .. Len(cmd) : Recalled(cmd)[i - 1] = cmd[i]
  BY <1>1, LineAssumption DEF Recalled, Index
<1>4. cmd \in Text
  BY DEF Text, Byte
<1> DEFINE r == Bytes(Recalled(cmd), Len(cmd))
<1>5. r \in Text /\ Len(r) = Len(cmd) /\ \A i \in 1 .. Len(cmd) : r[i] = cmd[i]
  BY <1>1, <1>2, <1>3, BytesType, LineAssumption
<1> HIDE DEF r
<1>6. r = cmd
  BY <1>4, <1>5, SameText
<1>7. redraw(cmd, Len(cmd)) = [text |-> cmd, col |-> Len(cmd)]
  BY <1>1 DEF redraw
<1> QED
  BY <1>1, <1>6, <1>7 DEF r, Shows

\* The loop of Insert puts one byte at the cursor and keeps all the others in
\* their order.
LEMMA InsertedLine ==
  ASSUME NEW b, NEW n, NEW at, LineOK(b, n, at), n < MAX_LINE_LEN - 1, NEW c \in Byte
  PROVE  LET line == Bytes(b, n)
         IN  Bytes(InsertedAt(b, n, at, c), n + 1)
               = Append(SubSeq(line, 1, at), c) \o SubSeq(line, at + 1, Len(line))
<1> DEFINE line == Bytes(b, n)
           new == Bytes(InsertedAt(b, n, at, c), n + 1)
           head == SubSeq(line, 1, at)
           tail == SubSeq(line, at + 1, Len(line))
           typed == Append(head, c)
<1>1. b \in Buffer /\ n \in Nat /\ at \in Nat /\ at <= n /\ n + 1 <= MAX_LINE_LEN
      /\ n <= MAX_LINE_LEN
  BY LineAssumption DEF LineOK
<1>2. line \in Text /\ Len(line) = n /\ \A i \in 1 .. n : line[i] = b[i - 1]
  BY <1>1, BytesType
<1>3. InsertedAt(b, n, at, c) \in Buffer
  BY Zenon, InsertedOK DEF LineOK
<1>4. /\ new \in Text /\ Len(new) = n + 1
      /\ \A i \in 1 .. n + 1 : new[i] = InsertedAt(b, n, at, c)[i - 1]
  BY <1>1, <1>3, BytesType
<1>5. \A i \in 1 .. n + 1 : new[i] = IF i = at + 1 THEN c ELSE IF i > at + 1 THEN b[i - 2] ELSE b[i - 1]
  <2>1. \A i \in 1 .. n + 1 : i - 1 \in Index /\ (i - 1) - 1 = i - 2
    BY <1>1, LineAssumption DEF Index
  <2> QED
    BY <1>1, <1>4, <2>1 DEF InsertedAt
<1> HIDE DEF line, new
<1>6. head \in Text /\ Len(head) = at /\ \A i \in 1 .. at : head[i] = line[i]
  BY <1>1, <1>2, TextBefore
<1>7. tail \in Text /\ Len(tail) = n - at /\ \A i \in 1 .. n - at : tail[i] = line[at + i]
  BY <1>1, <1>2, TextAfter
<1> HIDE DEF head, tail
<1>8. /\ typed \in Text /\ Len(typed) = at + 1 /\ typed[at + 1] = c
      /\ \A i \in 1 .. at : typed[i] = line[i]
  BY <1>1, <1>6, AppendProperties DEF Text
<1> HIDE DEF typed
<1> DEFINE all == typed \o tail
<1>9. /\ all \in Text /\ Len(all) = n + 1
      /\ \A i \in 1 .. n + 1 : all[i] = IF i <= at + 1 THEN typed[i] ELSE tail[i - (at + 1)]
  <2>1. at + 1 \in Nat /\ n + 1 \in Nat /\ Len(tail) = (n + 1) - (at + 1)
    BY <1>1, <1>7
  <2>2. typed \in Text /\ tail \in Text /\ Len(typed) = at + 1
    BY <1>7, <1>8
  <2> QED
    BY SMTT(30), <2>1, <2>2, TextJoined
<1> HIDE DEF all
<1>10. \A i \in 1 .. n + 1 : new[i] = all[i]
  <2> SUFFICES ASSUME NEW i \in 1 .. n + 1 PROVE new[i] = all[i]
    OBVIOUS
  <2>1. CASE i <= at
    <3>1. i <= at + 1 /\ i \in 1 .. at /\ i \in 1 .. n /\ ~(i > at + 1) /\ i # at + 1
      BY <1>1, <2>1
    <3> QED
      BY SMTT(30), <1>2, <1>5, <1>8, <1>9, <3>1
  <2>2. CASE i = at + 1
    BY <1>1, <1>5, <1>8, <1>9, <2>2
  <2>3. CASE i > at + 1
    <3>1. i - (at + 1) \in 1 .. n - at /\ at + (i - (at + 1)) = i - 1
          /\ i - 1 \in 1 .. n /\ (i - 1) - 1 = i - 2
      BY <1>1, <2>3
    <3>2. tail[i - (at + 1)] = line[i - 1]
      BY <1>7, <3>1
    <3>3. line[i - 1] = b[i - 2]
      BY <1>2, <3>1
    <3> QED
      BY <1>1, <1>5, <1>9, <2>3, <3>2, <3>3
  <2> QED
    BY <1>1, <2>1, <2>2, <2>3
<1>11. new = all
  BY <1>4, <1>9, <1>10, SameText
<1> QED
  BY Zenon, <1>11 DEF new, all, typed, head, tail, line

\* The loop of Backspace takes out one byte and keeps all the others.
LEMMA DeletedLine ==
  ASSUME NEW b, NEW n, NEW at, LineOK(b, n, at), at > 0
  PROVE  LET line == Bytes(b, n)
         IN  Bytes(DeletedAt(b, n, at), n - 1)
               = SubSeq(line, 1, at - 1) \o SubSeq(line, at + 1, Len(line))
<1> DEFINE line == Bytes(b, n)
           new == Bytes(DeletedAt(b, n, at), n - 1)
           head == SubSeq(line, 1, at - 1)
           tail == SubSeq(line, at + 1, Len(line))
<1>1. b \in Buffer /\ n \in Nat /\ at \in Nat /\ at <= n /\ n - 1 \in Nat
      /\ n <= MAX_LINE_LEN /\ n - 1 <= MAX_LINE_LEN
  BY LineAssumption DEF LineOK
<1>2. line \in Text /\ Len(line) = n /\ \A i \in 1 .. n : line[i] = b[i - 1]
  BY <1>1, BytesType
<1>3. DeletedAt(b, n, at) \in Buffer
  BY DeletedOK DEF LineOK
<1>4. /\ new \in Text /\ Len(new) = n - 1
      /\ \A i \in 1 .. n - 1 : new[i] = DeletedAt(b, n, at)[i - 1]
  BY <1>1, <1>3, BytesType
<1>5. \A i \in 1 .. n - 1 : new[i] = IF i >= at THEN b[i] ELSE b[i - 1]
  <2>1. \A i \in 1 .. n - 1 : i - 1 \in Index /\ (i - 1) + 1 = i
    BY <1>1, LineAssumption DEF Index
  <2> QED
    BY <1>1, <1>4, <2>1 DEF DeletedAt
<1> HIDE DEF line, new
<1>6. head \in Text /\ Len(head) = at - 1 /\ \A i \in 1 .. at - 1 : head[i] = line[i]
  BY <1>1, <1>2, TextBefore
<1>7. tail \in Text /\ Len(tail) = n - at /\ \A i \in 1 .. n - at : tail[i] = line[at + i]
  BY <1>1, <1>2, TextAfter
<1> HIDE DEF head, tail
<1> DEFINE all == head \o tail
<1>8. /\ all \in Text /\ Len(all) = n - 1
      /\ \A i \in 1 .. n - 1 : all[i] = IF i <= at - 1 THEN head[i] ELSE tail[i - (at - 1)]
  <2>1. at - 1 \in Nat /\ n - 1 \in Nat /\ Len(tail) = (n - 1) - (at - 1)
    BY <1>1, <1>7
  <2> QED
    BY ZenonT(40), <1>6, <1>7, <2>1, TextJoined
<1> HIDE DEF all
<1>9. \A i \in 1 .. n - 1 : new[i] = all[i]
  <2> SUFFICES ASSUME NEW i \in 1 .. n - 1 PROVE new[i] = all[i]
    OBVIOUS
  <2>1. CASE i < at
    <3>1. i <= at - 1 /\ i \in 1 .. at - 1 /\ i \in 1 .. n /\ ~(i >= at)
      BY <1>1, <2>1
    <3> QED
      BY <1>2, <1>5, <1>6, <1>8, <3>1
  <2>2. CASE i >= at
    <3>1. i - (at - 1) \in 1 .. n - at /\ at + (i - (at - 1)) = i + 1
          /\ i + 1 \in 1 .. n /\ (i + 1) - 1 = i
      BY <1>1, <2>2
    <3>2. tail[i - (at - 1)] = line[i + 1]
      BY <1>7, <3>1
    <3>3. line[i + 1] = b[i]
      BY <1>2, <3>1
    <3> QED
      BY <1>1, <1>5, <1>8, <2>2, <3>2, <3>3
  <2> QED
    BY <1>1, <2>1, <2>2
<1>10. new = all
  BY <1>4, <1>8, <1>9, SameText
<1> QED
  BY Zenon, <1>10 DEF new, all, head, tail, line

-----------------------------------------------------------------------------
(* The terminal.                                                           *)

\* Every key that redraws does so from the buffer it leaves, and LEFT and RIGHT
\* move both cursors.
LEMMA ScreenStep ==
  ASSUME ConsoleInv, ConsoleInv', ScreenMatches, [Next]_vars
  PROVE  ScreenMatches'
<1>0. /\ LineOK(buf, line_len, cursor) /\ HistOK(history)
      /\ LineOK(buf', line_len', cursor')
  BY InvParts, InvPartsNext
<1>1. line_len \in Nat /\ cursor \in Nat /\ buf \in Buffer /\ buf' \in Buffer /\ cursor <= line_len
  BY <1>0 DEF LineOK
<1>2. /\ ScreenMatches <=> Shows(screen, buf, line_len, cursor)
      /\ ScreenMatches' <=> Shows(screen', buf', line_len', cursor')
  BY DEF ScreenMatches, Shows
<1> SUFFICES Shows(screen', buf', line_len', cursor')
  BY <1>2
<1>3. ASSUME UNCHANGED <<buf, line_len, cursor, screen>>
      PROVE  Shows(screen', buf', line_len', cursor')
  BY <1>2, <1>3
<1>4. ASSUME NEW cmd, Fits(cmd), Recall(cmd)
      PROVE  Shows(screen', buf', line_len', cursor')
  <2>1. /\ buf' = Recalled(cmd) /\ line_len' = copy_len(cmd) /\ cursor' = copy_len(cmd)
        /\ screen' = redraw(cmd, copy_len(cmd))
    BY <1>4 DEF Recall, SetLine
  <2> QED
    BY <1>0, <1>4, <2>1, RecalledLine DEF Fits
<1>5. CASE Enter
  <2>1. line_len' = 0 /\ cursor' = 0 /\ screen' = Prompt
    BY <1>1, <1>5 DEF Enter, SetLine
  <2> QED
    BY <1>1, <2>1, PromptShows
<1>6. CASE Backspace
  BY <1>0, <1>6, RedrawShows DEF Backspace
<1>7. ASSUME NEW c \in Byte, Insert(c) PROVE Shows(screen', buf', line_len', cursor')
  BY <1>0, <1>7, RedrawShows DEF Insert
<1>8. CASE Up
  <2>1. CASE history.current_index > 0 /\ HasEntry(StepPrevious(history))
    BY <1>0, <1>4, <1>8, <2>1, StepOK DEF Up
  <2>2. CASE ~(history.current_index > 0 /\ HasEntry(StepPrevious(history)))
    BY <1>3, <1>8, <2>2 DEF Up
  <2> QED BY <2>1, <2>2
<1>9. CASE Down
  <2>1. CASE HasEntry(StepNext(history))
    BY <1>0, <1>4, <1>9, <2>1, StepOK DEF Down
  <2>2. CASE ~HasEntry(StepNext(history))
    BY <1>1, <1>9, <2>2, PromptShows DEF Down, SetLine
  <2> QED BY <2>1, <2>2
<1>10. CASE Right \/ Left
  <2>1. buf' = buf /\ line_len' = line_len
    BY <1>10 DEF Right, Left
  <2> SUFFICES ASSUME Utf8(Bytes(buf, line_len)) = Bytes(buf, line_len)
               PROVE  screen' = [text |-> Bytes(buf, line_len), col |-> cursor']
    BY <2>1 DEF Shows
  <2> DEFINE line == Bytes(buf, line_len)
  <2>2. screen = [text |-> line, col |-> cursor]
    BY <1>2 DEF Shows
  <2> HIDE DEF line
  <2>3. screen' = [text |-> line, col |-> cursor']
    BY <1>10, <2>2 DEF Right, Left
  <2> QED
    BY <2>3 DEF line
<1>11. CASE Esc \/ (\E bracket \in BOOLEAN : EscapeKey(bracket)) \/ EscapeSeqOther \/ UNCHANGED vars
  BY <1>3, <1>11 DEF Esc, EscapeKey, EscapeSeqOther, lineVars, vars
<1> QED
  BY <1>5, <1>6, <1>7, <1>8, <1>9, <1>10, <1>11 DEF Next

\* The terminal shows the line and the cursor of the editor after every key,
\* for every size of the buffer and of the history, as long as the line is
\* valid UTF-8.
THEOREM ConsoleScreen == Spec => []ScreenMatches
<1>1. Init => ScreenMatches
  <2> SUFFICES ASSUME Init PROVE ScreenMatches
    OBVIOUS
  <2>1. buf \in Buffer /\ line_len = 0 /\ cursor = 0 /\ screen = Prompt
    BY ConsoleInit, InvParts DEF Init, LineOK
  <2> QED
    BY <2>1, PromptShows DEF ScreenMatches, Shows
<1>2. ConsoleInv /\ ConsoleInv' /\ ScreenMatches /\ [Next]_vars => ScreenMatches'
  BY ScreenStep
<1> QED
  BY <1>1, <1>2, ConsoleInvariant, PTL DEF Spec

-----------------------------------------------------------------------------
(* The editor implements LineEditor.                                       *)

\* A key changes the line as one step of LineEditor, or leaves it alone.
LEMMA EditorStep ==
  ASSUME ConsoleInv, ConsoleInv', [Next]_vars
  PROVE  Editor!Next \/ UNCHANGED <<Bytes(buf, line_len), cursor, input_state = "EscapeSeq">>
<1> DEFINE line == Bytes(buf, line_len)
           same == UNCHANGED <<line, cursor, input_state = "EscapeSeq">>
<1>0. /\ LineOK(buf, line_len, cursor) /\ HistOK(history)
      /\ LineOK(buf', line_len', cursor')
  BY InvParts, InvPartsNext
<1>1. /\ line_len \in Nat /\ cursor \in Nat /\ cursor <= line_len /\ line_len <= MAX_LINE_LEN
      /\ line_len' \in Nat /\ cursor' \in Nat /\ cursor' <= line_len' /\ line_len' <= MAX_LINE_LEN
      /\ line_len' <= MAX_LINE_LEN - 1 /\ buf \in Buffer /\ buf' \in Buffer
  BY <1>0, LineAssumption DEF LineOK
<1>2. Len(line) = line_len /\ Len(line') = line_len'
  BY <1>1, BytesType
<1>3. CASE Enter
  <2>1. /\ line_len' = 0 /\ cursor' = 0
        /\ input_state = "Normal" /\ input_state' = "Normal"
    BY <1>1, <1>3 DEF Enter, SetLine
  <2>2. line' = << >>
    BY <1>1, <2>1, PromptShows
  <2>3. Editor!Clear
    BY <2>1, <2>2 DEF Editor!Clear
  <2> QED
    BY <2>3 DEF Editor!Next
<1>4. CASE Backspace
  <2>1. /\ buf' = DeletedAt(buf, line_len, cursor) /\ line_len' = line_len - 1
        /\ cursor > 0 /\ cursor' = cursor - 1
        /\ input_state = "Normal" /\ input_state' = "Normal"
    BY <1>4 DEF Backspace, SetLine
  <2>2. line' = SubSeq(line, 1, cursor - 1) \o SubSeq(line, cursor + 1, Len(line))
    BY Zenon, <1>0, <2>1, DeletedLine
  <2>3. Editor!Erase
    BY Zenon, <2>1, <2>2 DEF Editor!Erase, Editor!After
  <2> QED
    BY <2>3 DEF Editor!Next
<1>5. ASSUME NEW c \in Byte, Insert(c) PROVE Editor!Next
  <2>1. /\ buf' = InsertedAt(buf, line_len, cursor, c) /\ line_len' = line_len + 1
        /\ line_len < MAX_LINE_LEN - 1 /\ cursor' = cursor + 1
        /\ input_state = "Normal" /\ input_state' = "Normal"
    BY <1>5 DEF Insert, HasRoom, SetLine
  <2>2. line' = Append(SubSeq(line, 1, cursor), c) \o SubSeq(line, cursor + 1, Len(line))
    BY Zenon, <1>0, <2>1, InsertedLine
  <2>3. Editor!Type(c)
    BY Zenon, <1>2, <2>1, <2>2 DEF Editor!Type, Editor!Before, Editor!After
  <2> QED
    BY <2>3 DEF Editor!Next
<1>6. CASE Esc
  BY <1>6 DEF Esc, lineVars
<1>7. ASSUME NEW bracket \in BOOLEAN, EscapeKey(bracket) PROVE Editor!Next \/ same
  <2>1. /\ input_state = "Escape" /\ input_state' = IF bracket THEN "EscapeSeq" ELSE "Normal"
        /\ line' = line /\ cursor' = cursor
    BY <1>7 DEF EscapeKey, lineVars
  <2>2. CASE bracket
    BY <2>1, <2>2 DEF Editor!Next, Editor!StartArrow
  <2>3. CASE ~bracket
    BY <2>1, <2>3
  <2> QED BY <2>2, <2>3
<1>8. ASSUME input_state = "EscapeSeq", input_state' = "Normal",
             \/ line' = line /\ cursor' \in 0 .. line_len /\ cursor' \in cursor - 1 .. cursor + 1
             \/ cursor' = line_len'
      PROVE  Editor!Next
  BY <1>1, <1>2, <1>8 DEF Editor!Next, Editor!Arrow
<1>9. ASSUME input_state = "EscapeSeq", input_state' = "Normal", UNCHANGED <<buf, cursor, line_len>>
      PROVE  Editor!Next
  <2>1. line' = line /\ cursor' \in 0 .. line_len /\ cursor' \in cursor - 1 .. cursor + 1
    BY <1>1, <1>9
  <2> QED
    BY <1>8, <1>9, <2>1
<1>10. CASE Up
  BY <1>8, <1>9, <1>10 DEF Up, Recall, SetLine
<1>11. CASE Down
  BY <1>8, <1>11 DEF Down, Recall, SetLine
<1>12. CASE Right \/ Left
  <2>1. /\ input_state = "EscapeSeq" /\ input_state' = "Normal"
        /\ line' = line /\ line_len' = line_len /\ cursor' \in cursor - 1 .. cursor + 1
    BY <1>1, <1>12 DEF Right, Left
  <2> QED
    BY <1>1, <1>8, <2>1
<1>13. CASE EscapeSeqOther
  BY <1>9, <1>13 DEF EscapeSeqOther, lineVars
<1>14. CASE UNCHANGED vars
  BY <1>14 DEF vars
<1> QED
  BY <1>3, <1>4, <1>5, <1>6, <1>7, <1>10, <1>11, <1>12, <1>13, <1>14 DEF Next

\* For every size of the buffer, the loops of console_init implement LineEditor:
\* no byte is lost, doubled or moved past another, and only ENTER and the
\* history replace the line as a whole.
THEOREM ConsoleEditsLine == Spec => EditsLine
<1>1. Init => Editor!Init
  <2> SUFFICES ASSUME Init PROVE Editor!Init
    OBVIOUS
  <2>1. buf \in Buffer
    BY ConsoleInit, InvParts DEF LineOK
  <2> QED
    BY <2>1, PromptShows DEF Init, Editor!Init
<1>2. ConsoleInv /\ ConsoleInv' /\ [Next]_vars
        => [Editor!Next]_<<Bytes(buf, line_len), cursor, input_state = "EscapeSeq">>
  BY EditorStep
<1> QED
  BY <1>1, <1>2, ConsoleInvariant, PTL DEF Spec, EditsLine, Editor!Spec

-----------------------------------------------------------------------------
(* Induction over the length of a line.                                    *)

\* The order of the numbers.
Less == {ss \in Nat \X Nat : ss[1] < ss[2]}

\* It is well founded.
LEMMA LessWellFounded == IsWellFoundedOn(Less, Nat)
  BY NatLessThanWellFounded DEF OpToRel, Less

\* What holds for 0, and for n + 1 if it holds for n, holds up to N.  The
\* induction hypothesis is the set T of the numbers it holds for.
LEMMA Rounds ==
    ASSUME NEW N \in Nat, NEW T, 0 \in T, \A n \in 0 .. N - 1 : n \in T => n + 1 \in T
    PROVE  0 .. N \subseteq T
  <1> DEFINE Others == (0 .. N) \ T
  <1> SUFFICES ASSUME Others # {} PROVE FALSE
    OBVIOUS
  <1>1. Others \subseteq Nat
    OBVIOUS
  <1> HIDE DEF Others
  <1>2. PICK x \in Others : \A y \in Others : ~(<<y, x>> \in Less)
    BY Zenon, <1>1, LessWellFounded, WFMin
  <1>3. \A y \in Others : ~(y < x)
    BY Zenon, <1>1, <1>2 DEF Less
  <1>4. x \in 0 .. N /\ x \notin T
    BY Zenon, <1>2 DEF Others
  <1>5. x # 0 /\ x - 1 \in 0 .. N - 1 /\ x - 1 + 1 = x /\ x - 1 < x
    BY <1>4
  <1>6. x - 1 \in T
    BY <1>3, <1>5 DEF Others
  <1> QED
    BY <1>4, <1>5, <1>6

-----------------------------------------------------------------------------
(* Loops.  The loops of Tokenizer as one operator, so that the values they *)
(* go through are shown to exist once.                                     *)

\* One round of a loop over the sequence items.
Loop(loop, items, acc, n) ==
    CASE loop = "scan" -> TokenStep(acc, items[n])
      [] loop = "token" -> TypeSymbol(acc, items[n])
      [] OTHER -> TypeToken(acc, items[n])

\* The values after each of the first n rounds.
Unfolds(loop, items, base, n, h) ==
    h = [k \in 0 .. n |-> IF k = 0 THEN base ELSE Loop(loop, items, h[k - 1], k)]

\* There are such values for every n.
LEMMA UnfoldingExists ==
    ASSUME NEW loop, NEW items, NEW base, NEW N \in Nat
    PROVE  \E h : Unfolds(loop, items, base, N, h)
  <1> DEFINE T == {n \in Nat : \E h : Unfolds(loop, items, base, n, h)}
  <1>1. 0 \in T
    <2> DEFINE h == [k \in 0 .. 0 |-> base]
    <2>1. Unfolds(loop, items, base, 0, h)
      BY DEF Unfolds
    <2> QED
      BY <2>1
  <1>2. ASSUME NEW n \in Nat, NEW f, Unfolds(loop, items, base, n, f)
        PROVE  \E h : Unfolds(loop, items, base, n + 1, h)
    <2> DEFINE h == [k \in 0 .. n + 1 |->
                       IF k = n + 1 THEN Loop(loop, items, f[n], n + 1) ELSE f[k]]
    <2>1. ASSUME NEW k \in 0 .. n + 1
          PROVE  h[k] = IF k = 0 THEN base ELSE Loop(loop, items, h[k - 1], k)
      <3>1. CASE k = n + 1
        <4>1. h[k - 1] = f[n] /\ k # 0
          BY <3>1
        <4> QED
          BY <3>1, <4>1
      <3>2. CASE k # n + 1
        <4>1. k \in 0 .. n /\ h[k] = f[k] /\ (k # 0 => h[k - 1] = f[k - 1])
          BY <3>2
        <4>2. f[k] = IF k = 0 THEN base ELSE Loop(loop, items, f[k - 1], k)
          BY <1>2, <4>1 DEF Unfolds
        <4> QED
          BY <4>1, <4>2
      <3> QED
        BY <3>1, <3>2
    <2>2. h = [k \in 0 .. n + 1 |-> h[k]]
      OBVIOUS
    <2> HIDE DEF h
    <2>3. Unfolds(loop, items, base, n + 1, h)
      BY Zenon, <2>1, <2>2 DEF Unfolds
    <2> QED
      BY <2>3
  <1>3. \A n \in 0 .. N - 1 : n \in T => n + 1 \in T
    BY <1>2
  <1> HIDE DEF T
  <1>4. N \in T
    BY <1>1, <1>3, Rounds
  <1> QED
    BY <1>4 DEF T

\* The loop of tokenize takes the characters of the line one by one.
LEMMA ScanLoop ==
    ASSUME NEW Symbol, NEW input \in Seq(Symbol), NEW n \in Nat, n = Len(input)
    PROVE  \E f : /\ f[0] = NoToken(<< >>) /\ f[n] = Scanned(input)
                  /\ \A k \in 0 .. n - 1 : f[k + 1] = TokenStep(f[k], input[k + 1])
  <1> DEFINE base == NoToken(<< >>)
             U(f) == f = [i \in 0 .. n |-> IF i = 0 THEN base ELSE TokenStep(f[i - 1], input[i])]
             h == CHOOSE f : U(f)
  <1>1. Scanned(input) = h[n]
    BY DEF Scanned
  <1>2. \A acc, k : Loop("scan", input, acc, k) = TokenStep(acc, input[k])
    BY DEF Loop
  <1> HIDE DEF base
  <1>3. \E f : U(f)
    <2>1. PICK f : Unfolds("scan", input, base, n, f)
      BY UnfoldingExists, Zenon
    <2>2. \A k \in 0 .. n : (IF k = 0 THEN base ELSE Loop("scan", input, f[k - 1], k))
                             = IF k = 0 THEN base ELSE TokenStep(f[k - 1], input[k])
      BY <1>2
    <2>3. U(f)
      BY Zenon, <2>1, <2>2 DEF Unfolds
    <2> QED
      BY <2>3, Zenon
  <1> HIDE DEF U
  <1>4. U(h)
    BY <1>3
  <1> HIDE DEF h
  <1>5. h[0] = base /\ \A k \in 0 .. n - 1 : h[k + 1] = TokenStep(h[k], input[k + 1])
    BY <1>4 DEF U
  <1> QED
    BY Zenon, <1>1, <1>5 DEF base

\* The values after each symbol that is typed for the token t.
TokenRounds(line, t, n, f) ==
    /\ f[0] = Append(Append(line, Space), Quote)
    /\ TypeToken(line, t) = Append(f[n], Quote)
    /\ \A k \in 0 .. n - 1 : f[k + 1] = TypeSymbol(f[k], t[k + 1])

\* A token is typed symbol by symbol.
LEMMA TokenLoop ==
    ASSUME NEW line, NEW Symbol, NEW t \in Seq(Symbol), NEW n \in Nat, n = Len(t)
    PROVE  \E f : TokenRounds(line, t, n, f)
  <1> DEFINE base == Append(Append(line, Space), Quote)
             U(f) == f = [i \in 0 .. n |-> IF i = 0 THEN base ELSE TypeSymbol(f[i - 1], t[i])]
             h == CHOOSE f : U(f)
  <1>1. TypeToken(line, t) = Append(h[n], Quote)
    BY DEF TypeToken
  <1>2. \A acc, k : Loop("token", t, acc, k) = TypeSymbol(acc, t[k])
    BY DEF Loop
  <1> HIDE DEF base
  <1>3. \E f : U(f)
    <2>1. PICK f : Unfolds("token", t, base, n, f)
      BY UnfoldingExists, Zenon
    <2>2. \A k \in 0 .. n : (IF k = 0 THEN base ELSE Loop("token", t, f[k - 1], k))
                             = IF k = 0 THEN base ELSE TypeSymbol(f[k - 1], t[k])
      BY <1>2
    <2>3. U(f)
      BY Zenon, <2>1, <2>2 DEF Unfolds
    <2> QED
      BY <2>3, Zenon
  <1> HIDE DEF U
  <1>4. U(h)
    BY <1>3
  <1> HIDE DEF h
  <1>5. h[0] = base /\ \A k \in 0 .. n - 1 : h[k + 1] = TypeSymbol(h[k], t[k + 1])
    BY <1>4 DEF U
  <1> QED
    BY Zenon, <1>1, <1>5 DEF base, TokenRounds

\* A line is typed token by token.
LEMMA LineLoop ==
    ASSUME NEW S, NEW ts \in Seq(S), NEW n \in Nat, n = Len(ts)
    PROVE  \E f : /\ f[0] = << >> /\ f[n] = Typed(ts)
                  /\ \A k \in 0 .. n - 1 : f[k + 1] = TypeToken(f[k], ts[k + 1])
  <1> DEFINE U(f) == f = [i \in 0 .. n |-> IF i = 0 THEN << >> ELSE TypeToken(f[i - 1], ts[i])]
             h == CHOOSE f : U(f)
  <1>1. Typed(ts) = h[n]
    BY DEF Typed
  <1>2. \A acc, k : Loop("line", ts, acc, k) = TypeToken(acc, ts[k])
    BY DEF Loop
  <1>3. \E f : U(f)
    <2>1. PICK f : Unfolds("line", ts, << >>, n, f)
      BY UnfoldingExists, Zenon
    <2>2. \A k \in 0 .. n : (IF k = 0 THEN << >> ELSE Loop("line", ts, f[k - 1], k))
                             = IF k = 0 THEN << >> ELSE TypeToken(f[k - 1], ts[k])
      BY <1>2
    <2>3. U(f)
      BY Zenon, <2>1, <2>2 DEF Unfolds
    <2> QED
      BY <2>3, Zenon
  <1> HIDE DEF U
  <1>4. U(h)
    BY <1>3
  <1> HIDE DEF h
  <1>5. h[0] = << >> /\ \A k \in 0 .. n - 1 : h[k + 1] = TypeToken(h[k], ts[k + 1])
    BY <1>4 DEF U
  <1> QED
    BY Zenon, <1>1, <1>5

-----------------------------------------------------------------------------
(* Quoting.                                                                *)

\* One more character at the end of a line is one more round of the loop.
LEMMA ScanAppend ==
    ASSUME NEW Symbol, NEW w \in Seq(Symbol), NEW c \in Symbol
    PROVE  Scanned(Append(w, c)) = TokenStep(Scanned(w), c)
  <1> DEFINE n == Len(w)
             v == Append(w, c)
  <1>1. n \in Nat /\ v \in Seq(Symbol) /\ Len(v) = n + 1 /\ v[n + 1] = c
        /\ \A k \in 1 .. n : v[k] = w[k]
    OBVIOUS
  <1> HIDE DEF n, v
  <1>2. PICK f : /\ f[0] = NoToken(<< >>) /\ f[n] = Scanned(w)
                 /\ \A k \in 0 .. n - 1 : f[k + 1] = TokenStep(f[k], w[k + 1])
    BY Zenon, <1>1, ScanLoop DEF n
  <1> DEFINE m == n + 1
  <1>3. m \in Nat /\ m = Len(v) /\ m - 1 = n
    BY <1>1
  <1> HIDE DEF m
  <1>4. PICK g : /\ g[0] = NoToken(<< >>) /\ g[m] = Scanned(v)
                 /\ \A k \in 0 .. m - 1 : g[k + 1] = TokenStep(g[k], v[k + 1])
    BY Zenon, <1>1, <1>3, ScanLoop
  <1> DEFINE T == {k \in 0 .. n : f[k] = g[k]}
  <1>5. 0 \in T
    BY <1>1, <1>2, <1>4
  <1>6. ASSUME NEW k \in 0 .. n - 1, k \in T PROVE k + 1 \in T
    <2>1. k \in 0 .. m - 1 /\ k + 1 \in 0 .. n /\ v[k + 1] = w[k + 1]
      BY <1>1, <1>3
    <2>2. f[k + 1] = TokenStep(f[k], w[k + 1]) /\ g[k + 1] = TokenStep(g[k], v[k + 1])
      BY Zenon, <1>2, <1>4, <2>1
    <2> QED
      BY Zenon, <1>6, <2>1, <2>2
  <1>7. n \in T
    <2> HIDE DEF T
    <2>1. 0 .. n \subseteq T
      BY Zenon, <1>1, <1>5, <1>6, Rounds
    <2>2. n \in 0 .. n
      BY <1>1
    <2> QED
      BY Zenon, <2>1, <2>2
  <1>8. n \in 0 .. m - 1
    BY <1>1, <1>3
  <1>9. g[m] = TokenStep(g[n], v[m])
    BY Zenon, <1>4, <1>8 DEF m
  <1> QED
    BY Zenon, <1>1, <1>2, <1>4, <1>7, <1>9 DEF v, m

\* The state of the loop between two characters of which the first is not a
\* backslash that escapes the second.
Between(toks, cur, quoted) ==
    [tokens |-> toks, current |-> cur, in_quotes |-> quoted, escape_next |-> FALSE]
Reads(w, toks, cur, quoted) == Scanned(w) = Between(toks, cur, quoted)

\* The symbols with a meaning differ.
LEMMA Distinct == Quote # Backslash /\ Space # Backslash /\ Space # Quote
  BY Zenon DEF Quote, Backslash, Space

\* A quote opens or closes, whatever is in hand.
LEMMA QuoteStep ==
    ASSUME NEW toks, NEW cur, NEW quoted \in BOOLEAN
    PROVE  TokenStep(Between(toks, cur, quoted), Quote) = Between(toks, cur, ~quoted)
  BY Zenon, Distinct DEF TokenStep, Between

\* A blank outside quotes ends the token.
LEMMA SpaceStep ==
    ASSUME NEW toks, NEW cur
    PROVE  TokenStep(Between(toks, cur, FALSE), Space)
             = Between(Flushed(Between(toks, cur, FALSE)), << >>, FALSE)
  BY Distinct DEF TokenStep, Between, NoToken

\* What is typed for a symbol between quotes adds the symbol to the token.
LEMMA SymbolScanned ==
    ASSUME NEW Symbol, Space \in Symbol, Quote \in Symbol, Backslash \in Symbol,
           NEW w \in Seq(Symbol), NEW c \in Symbol, NEW toks, NEW cur,
           Reads(w, toks, cur, TRUE)
    PROVE  /\ TypeSymbol(w, c) \in Seq(Symbol)
           /\ Reads(TypeSymbol(w, c), toks, Append(cur, c), TRUE)
  <1>1. CASE c \in {Quote, Backslash}
    <2> DEFINE v == Append(w, Backslash)
               escaping == [Between(toks, cur, TRUE) EXCEPT !.escape_next = TRUE]
    <2>1. v \in Seq(Symbol) /\ Append(v, c) \in Seq(Symbol)
      OBVIOUS
    <2>2. Scanned(v) = TokenStep(Between(toks, cur, TRUE), Backslash)
      BY Zenon, ScanAppend DEF Reads
    <2>3. TokenStep(Between(toks, cur, TRUE), Backslash) = escaping
      BY Zenon DEF TokenStep, Between
    <2>4. TokenStep(escaping, c) = Between(toks, Append(cur, c), TRUE)
      BY Zenon DEF TokenStep, Between
    <2> HIDE DEF v, escaping
    <2>5. Scanned(Append(v, c)) = TokenStep(Scanned(v), c)
      BY Zenon, <2>1, ScanAppend
    <2>6. TypeSymbol(w, c) = Append(v, c)
      BY Zenon, <1>1 DEF TypeSymbol, v
    <2> QED
      BY Zenon, <2>1, <2>2, <2>3, <2>4, <2>5, <2>6 DEF Reads
  <1>2. CASE c \notin {Quote, Backslash}
    <2>1. TypeSymbol(w, c) = Append(w, c)
      BY Zenon, <1>2 DEF TypeSymbol
    <2>2. Scanned(Append(w, c)) = TokenStep(Between(toks, cur, TRUE), c)
      BY Zenon, ScanAppend DEF Reads
    <2>3. TokenStep(Between(toks, cur, TRUE), c) = Between(toks, Append(cur, c), TRUE)
      BY Zenon, <1>2 DEF TokenStep, Between
    <2>4. Append(w, c) \in Seq(Symbol)
      OBVIOUS
    <2> QED
      BY Zenon, <2>1, <2>2, <2>3, <2>4 DEF Reads
  <1> QED
    BY Zenon, <1>1, <1>2

\* What is typed for a token ends the token before it and leaves it in hand.
LEMMA TokenScanned ==
    ASSUME NEW Symbol, Space \in Symbol, Quote \in Symbol, Backslash \in Symbol,
           NEW w \in Seq(Symbol), NEW t \in Seq(Symbol), NEW toks, NEW cur,
           Reads(w, toks, cur, FALSE)
    PROVE  /\ TypeToken(w, t) \in Seq(Symbol)
           /\ Reads(TypeToken(w, t), Flushed(Between(toks, cur, FALSE)), t, FALSE)
  <1> DEFINE n == Len(t)
             before == Flushed(Between(toks, cur, FALSE))
             open == Append(Append(w, Space), Quote)
  <1>1. n \in Nat /\ n = Len(t)
    OBVIOUS
  <1> HIDE DEF n
  <1>2. PICK f : TokenRounds(w, t, n, f)
    BY Zenon, <1>1, TokenLoop
  <1>3. open \in Seq(Symbol) /\ Reads(open, before, << >>, TRUE)
    <2> DEFINE v == Append(w, Space)
    <2>0. v \in Seq(Symbol)
      OBVIOUS
    <2>1. Scanned(v) = TokenStep(Between(toks, cur, FALSE), Space)
      BY Zenon, ScanAppend DEF Reads
    <2>2. Scanned(v) = Between(before, << >>, FALSE)
      BY Zenon, <2>1, SpaceStep
    <2> HIDE DEF v, before
    <2>3. Append(v, Quote) \in Seq(Symbol)
      BY <2>0
    <2>4. Scanned(Append(v, Quote)) = TokenStep(Scanned(v), Quote)
      BY Zenon, <2>0, ScanAppend
    <2>5. TokenStep(Between(before, << >>, FALSE), Quote) = Between(before, << >>, TRUE)
      BY Zenon, QuoteStep
    <2> QED
      BY Zenon, <2>2, <2>3, <2>4, <2>5 DEF v, Reads
  <1> HIDE DEF before, open
  <1> DEFINE T == {k \in 0 .. n : /\ f[k] \in Seq(Symbol)
                                  /\ Reads(f[k], before, SubSeq(t, 1, k), TRUE)}
  <1>4. 0 \in T
    <2>1. SubSeq(t, 1, 0) = << >> /\ 0 \in 0 .. n
      BY <1>1
    <2> QED
      BY Zenon, <1>2, <1>3, <2>1 DEF TokenRounds, open
  <1>5. ASSUME NEW k \in 0 .. n - 1, k \in T PROVE k + 1 \in T
    <2>1. t[k + 1] \in Symbol /\ Append(SubSeq(t, 1, k), t[k + 1]) = SubSeq(t, 1, k + 1)
      BY <1>1
    <2>2. f[k] \in Seq(Symbol) /\ Reads(f[k], before, SubSeq(t, 1, k), TRUE)
      BY Zenon, <1>5
    <2>3. k + 1 \in 0 .. n
      BY <1>1
    <2>4. /\ TypeSymbol(f[k], t[k + 1]) \in Seq(Symbol)
          /\ Reads(TypeSymbol(f[k], t[k + 1]), before, Append(SubSeq(t, 1, k), t[k + 1]), TRUE)
      <3> HIDE DEF T
      <3> QED
        BY Zenon, <2>1, <2>2, SymbolScanned
    <2> QED
      BY Zenon, <1>2, <2>1, <2>3, <2>4 DEF TokenRounds
  <1>6. n \in T
    <2> HIDE DEF T
    <2>1. 0 .. n \subseteq T
      BY Zenon, <1>1, <1>4, <1>5, Rounds
    <2>2. n \in 0 .. n
      BY <1>1
    <2> QED
      BY Zenon, <2>1, <2>2
  <1>7. f[n] \in Seq(Symbol) /\ Reads(f[n], before, t, TRUE)
    <2>1. SubSeq(t, 1, n) = t
      BY <1>1
    <2> QED
      BY Zenon, <1>6, <2>1
  <1>8. Append(f[n], Quote) \in Seq(Symbol)
    BY <1>7
  <1>9. Scanned(Append(f[n], Quote)) = TokenStep(Between(before, t, TRUE), Quote)
    BY Zenon, <1>7, ScanAppend DEF Reads
  <1>10. TokenStep(Between(before, t, TRUE), Quote) = Between(before, t, FALSE)
    BY Zenon, QuoteStep
  <1> QED
    BY Zenon, <1>2, <1>8, <1>9, <1>10 DEF before, TokenRounds, Reads

\* Whatever tokens a user wants to give to a command, blanks, quotes and
\* backslashes in them included: typed between quotes with a backslash before
\* each quote and backslash, they are what tokenize makes of the line.
THEOREM QuotedTokens ==
    ASSUME NEW Symbol, Space \in Symbol, Quote \in Symbol, Backslash \in Symbol,
           NEW ts \in Seq(Seq(Symbol) \ {<< >>})
    PROVE  tokenize(Typed(ts)) = ts
  <1> DEFINE n == Len(ts)
  <1>1. n \in Nat /\ n = Len(ts)
    OBVIOUS
  <1> HIDE DEF n
  <1>2. PICK f : /\ f[0] = << >> /\ f[n] = Typed(ts)
                 /\ \A k \in 0 .. n - 1 : f[k + 1] = TypeToken(f[k], ts[k + 1])
    BY Zenon, <1>1, LineLoop
  <1> DEFINE T == {k \in 0 .. n :
                     /\ f[k] \in Seq(Symbol)
                     /\ \E toks, cur : /\ Reads(f[k], toks, cur, FALSE)
                                       /\ Flushed(Between(toks, cur, FALSE)) = SubSeq(ts, 1, k)}
  <1>3. 0 \in T
    <2>1. Scanned(<< >>) = NoToken(<< >>)
      <3>1. << >> \in Seq(Symbol) /\ Len(<< >>) = 0 /\ 0 \in Nat
        OBVIOUS
      <3> QED
        BY Zenon, <3>1, ScanLoop
    <2>2. NoToken(<< >>) = Between(<< >>, << >>, FALSE)
      BY DEF NoToken, Between
    <2>3. Flushed(Between(<< >>, << >>, FALSE)) = SubSeq(ts, 1, 0)
      BY DEF Flushed, Between
    <2>4. << >> \in Seq(Symbol) /\ 0 \in 0 .. n
      BY <1>1
    <2> QED
      BY Zenon, <1>2, <2>1, <2>2, <2>3, <2>4 DEF Reads
  <1>4. ASSUME NEW k \in 0 .. n - 1, k \in T PROVE k + 1 \in T
    <2>1. PICK toks, cur : /\ Reads(f[k], toks, cur, FALSE)
                           /\ Flushed(Between(toks, cur, FALSE)) = SubSeq(ts, 1, k)
      BY Zenon, <1>4
    <2> DEFINE t == ts[k + 1]
    <2>2. t \in Seq(Symbol) /\ t # << >>
          /\ Append(SubSeq(ts, 1, k), t) = SubSeq(ts, 1, k + 1)
      BY SMTT(30), <1>1
    <2> HIDE DEF t
    <2>3. /\ TypeToken(f[k], t) \in Seq(Symbol)
          /\ Reads(TypeToken(f[k], t), SubSeq(ts, 1, k), t, FALSE)
      <3>1. f[k] \in Seq(Symbol)
        BY Zenon, <1>4
      <3> HIDE DEF T
      <3> QED
        BY Zenon, <2>1, <2>2, <3>1, TokenScanned
    <2>4. Flushed(Between(SubSeq(ts, 1, k), t, FALSE)) = SubSeq(ts, 1, k + 1)
      BY <2>2 DEF Flushed, Between
    <2>5. k + 1 \in 0 .. n
      BY <1>1
    <2>6. f[k + 1] = TypeToken(f[k], t)
      BY Zenon, <1>2 DEF t
    <2> QED
      BY Zenon, <2>3, <2>4, <2>5, <2>6
  <1>5. n \in T
    <2> HIDE DEF T
    <2>1. 0 .. n \subseteq T
      BY Zenon, <1>1, <1>3, <1>4, Rounds
    <2>2. n \in 0 .. n
      BY <1>1
    <2> QED
      BY Zenon, <2>1, <2>2
  <1>6. SubSeq(ts, 1, n) = ts
    BY <1>1
  <1> QED
    BY Zenon, <1>2, <1>5, <1>6 DEF tokenize, Reads
=============================================================================
