----------------------------- MODULE Tokenizer -----------------------------
(***************************************************************************)
(* How the shell cuts a line into tokens (CommandParser::tokenize of       *)
(* kernel/src/shell/command/mod.rs), and how a user quotes them.  A line   *)
(* is a sequence of symbols: a blank, a quote, a backslash, a dash, an     *)
(* equals sign, a letter or a whole word.                                  *)
(***************************************************************************)
EXTENDS Integers, Sequences

Space == " "
Quote == "\""
Backslash == "\\"

NoToken(t) == [tokens |-> t, current |-> << >>, in_quotes |-> FALSE, escape_next |-> FALSE]
Flushed(s) == IF s.current = << >> THEN s.tokens ELSE Append(s.tokens, s.current)

\* Mutant: a backslash between quotes stands for itself.
TokenStep_Literal(s, ch) ==
    IF s.escape_next THEN [s EXCEPT !.current = Append(@, ch), !.escape_next = FALSE]
    ELSE IF ch = Backslash /\ ~s.in_quotes THEN [s EXCEPT !.escape_next = TRUE]
    ELSE IF ch = Quote THEN [s EXCEPT !.in_quotes = ~@]
    ELSE IF ch = Space /\ ~s.in_quotes THEN NoToken(Flushed(s))
    ELSE [s EXCEPT !.current = Append(@, ch)]

\* One character: escaped, a backslash, a quote, a blank between tokens, or a
\* part of the token.
TokenStep(s, ch) ==
    IF s.escape_next THEN [s EXCEPT !.current = Append(@, ch), !.escape_next = FALSE]
    ELSE IF ch = Backslash THEN [s EXCEPT !.escape_next = TRUE]
    ELSE IF ch = Quote THEN [s EXCEPT !.in_quotes = ~@]
    ELSE IF ch = Space /\ ~s.in_quotes THEN NoToken(Flushed(s))
    ELSE [s EXCEPT !.current = Append(@, ch)]

\* The loop over the characters, and the token that the line ends with.
Scanned(input) ==
    LET after[i \in 0 .. Len(input)] ==
          IF i = 0 THEN NoToken(<< >>) ELSE TokenStep(after[i - 1], input[i])
    IN  after[Len(input)]
tokenize(input) == Flushed(Scanned(input))

-----------------------------------------------------------------------------
(* What a user types for given tokens: each between quotes, and in them a  *)
(* backslash before every quote and backslash.                             *)

TypeSymbol(line, c) ==
    IF c \in {Quote, Backslash} THEN Append(Append(line, Backslash), c) ELSE Append(line, c)
TypeToken(line, t) ==
    LET typed[i \in 0 .. Len(t)] ==
          IF i = 0 THEN Append(Append(line, Space), Quote) ELSE TypeSymbol(typed[i - 1], t[i])
    IN  Append(typed[Len(t)], Quote)
Typed(tokens) ==
    LET line[i \in 0 .. Len(tokens)] ==
          IF i = 0 THEN << >> ELSE TypeToken(line[i - 1], tokens[i])
    IN  line[Len(tokens)]
=============================================================================
