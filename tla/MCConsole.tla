------------------------------ MODULE MCConsole ------------------------------
(***************************************************************************)
(* Console for TLC: console.cfg gives a buffer of four bytes and a history *)
(* of two commands, which a few keys fill, cut and overrun.  The parser of *)
(* the finished line is checked on bounded inputs against the lines a user *)
(* would type for given tokens and arguments.                              *)
(***************************************************************************)
EXTENDS Console, CommandParser

SomeTokens == SeqOf({Space, Quote, Backslash, "a"}, 2) \ {<< >>}

\* The parser has no state: its properties are evaluated where the shell starts.
FreshPrompt == line_len = 0 /\ history = NewHistory /\ screen = Prompt

\* Any tokens can be given to a command: typed between quotes, with a backslash
\* before each quote and backslash, they are what tokenize returns.
QuotingRoundTrip ==
    FreshPrompt => \A ts \in SeqOf(SomeTokens, 2) : tokenize(Typed(ts)) = ts

-----------------------------------------------------------------------------
(* Arguments as a user means them: what they set, and the tokens for it.   *)

Letters(defs) == SetToSeq({e.short : e \in defs})
Arg(means, tokens) == [means |-> means, tokens |-> tokens]
Means(flags, options, positional) == [flags |-> flags, options |-> options, positional |-> positional]

Values == {<<"v">>, <<"-", "v">>}

FlagArgs(node) ==
    {Arg(Means({<<e.name>>}, << >>, << >>), <<<<"-", "-", e.long>>>>) : e \in node.flags}
    \cup {Arg(Means({<<e.name>> : e \in defs}, << >>, << >>), <<<<"-">> \o Letters(defs)>>) :
            defs \in SUBSET {e \in node.flags : e.short # NoShort} \ {{}}}
OptionArgs(node) ==
    UNION {LET means == Means({}, <<e.name>> :> v, << >>)
           IN  {Arg(means, <<<<"-", "-", e.long>>, v>>), Arg(means, <<<<"-", "-", e.long, "=">> \o v>>)}
               \cup IF e.short = NoShort THEN {} ELSE {Arg(means, <<<<"-", e.short>>, v>>)} :
             e \in node.options, v \in Values}
Positionals == {Arg(Means({}, << >>, <<t>>), <<t>>) : t \in {<<"p">>, <<"-">>}}

Together(args) ==
    FoldLeft(LAMBDA m, a : Means(m.flags \cup a.means.flags, a.means.options @@ m.options,
                                 m.positional \o a.means.positional), Means({}, << >>, << >>), args)
Spaced(path) == FlattenSeq([i \in 1 .. Len(path) |-> <<Space, path[i]>>])
Line(path, args) ==
    Spaced(path) \o Typed(FlattenSeq([i \in 1 .. Len(args) |-> args[i].tokens]))

\* Every command of the tree gets the flags, the last value of each option, and
\* the positional arguments in their order, however they are written: long,
\* short, several letters after one dash, with = or as the next token, and with
\* values that begin with a dash.  The line runs the command, and help knows it.
ParsedAsMeant ==
    FreshPrompt => \A path \in DOMAIN COMMAND_TREE :
      LET node == COMMAND_TREE[path]
      IN  /\ Execute(<<"help">> \o Spaced(path)) = "help"
          /\ \A args \in SeqOf(FlagArgs(node) \cup OptionArgs(node) \cup Positionals, 2) :
               LET m == Together(args)
               IN  /\ parse(Line(path, args)) =
                        [err |-> "Ok", command_path |-> path, options |-> m.options,
                         flags |-> m.flags, positional_args |-> m.positional]
                   /\ Execute(Line(path, args)) = IF path = <<"exit">> /\ args = << >> THEN "exit" ELSE "Ok"
=============================================================================
