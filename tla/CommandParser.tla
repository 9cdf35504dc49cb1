---------------------------- MODULE CommandParser ----------------------------
(***************************************************************************)
(* The command line of the shell, kernel/src/shell/command/mod.rs: the     *)
(* command tree of base.rs and vm.rs, options and flags, and what a line   *)
(* of the tokens of Tokenizer makes the shell do.                          *)
(***************************************************************************)
EXTENDS Tokenizer, FiniteSets, SequencesExt, TLC

NoShort == "none"

-----------------------------------------------------------------------------
(* The command tree.  Every long name is the name itself.                  *)

Def(name, short) == [name |-> name, short |-> short, long |-> name]
CommandNode(flags, options) == [flags |-> flags, options |-> options, required |-> {}]
Plain == CommandNode({}, {})

build_base_cmd ==
    (<<"ls">> :> CommandNode({Def("long", "l"), Def("all", "a")}, {}))
    @@ (<<"echo">> :> CommandNode({Def("no-newline", "n")}, {}))
    @@ (<<"mkdir">> :> CommandNode({Def("parents", "p")}, {}))
    @@ (<<"rm">> :> CommandNode({Def("dir", "d"), Def("recursive", "r"), Def("force", "f")}, {}))
    @@ (<<"pwd">> :> CommandNode({Def("logical", "L")}, {}))
    @@ (<<"uname">> :> CommandNode({Def("all", "a"), Def("kernel-name", "s"), Def("machine", "m")}, {}))
    @@ (<<"cp">> :> CommandNode({Def("recursive", "r")}, {}))
    @@ [p \in {<<c>> : c \in {"cat", "cd", "exit", "log", "touch", "mv"}} |-> Plain]

build_vm_cmd ==
    (<<"vm", "create">> :> CommandNode({Def("force", "f")},
                                       {Def("name", "n"), Def("cpu", "c"), Def("memory", "m")}))
    @@ (<<"vm", "start">> :> CommandNode({Def("detach", "d"), Def("console", "c")}, {}))
    @@ (<<"vm", "stop">> :> CommandNode({Def("force", "f"), Def("graceful", "g")}, {}))
    @@ (<<"vm", "restart">> :> CommandNode({Def("force", "f")}, {}))
    @@ (<<"vm", "delete">> :> CommandNode({Def("force", "f"), Def("keep-data", NoShort)}, {}))
    @@ (<<"vm", "list">> :> CommandNode({Def("all", "a")}, {Def("format", NoShort)}))
    @@ (<<"vm", "show">> :> CommandNode({Def("full", "f"), Def("config", "c"), Def("stats", "s")}, {}))
    @@ [p \in {<<"vm">>, <<"vm", "help">>, <<"vm", "suspend">>, <<"vm", "resume">>} |-> Plain]

\* COMMAND_TREE: the nodes by their paths.  All of them have a handler.
COMMAND_TREE == build_base_cmd @@ build_vm_cmd

-----------------------------------------------------------------------------
(* CommandParser.                                                          *)

\* The longest path of the tree that the tokens begin with, each token a word.
find_command(tokens) ==
    {p \in DOMAIN COMMAND_TREE : IsPrefix([i \in 1 .. Len(p) |-> <<p[i]>>], tokens)}
Deepest(paths) == CHOOSE p \in paths : \A q \in paths : Len(q) <= Len(p)

HasName(defs, name) == \E def \in defs : name \in {<<def.long>>, <<def.name>>}
HasShort(defs, ch) == ch # NoShort /\ \E def \in defs : def.short = ch
ByShort(defs, ch) == <<(CHOOSE def \in defs : def.short = ch).name>>

\* The loop of parse_args; pending is the option whose value is the next token.
NoArgs == [options |-> << >>, flags |-> {}, positional |-> << >>, pending |-> << >>, err |-> "Ok"]
Fail(a, why) == [a EXCEPT !.err = why]

SetOption(a, name, value) == [a EXCEPT !.options = (name :> value) @@ @, !.pending = << >>]

LongArg(a, name, node) ==
    LET eq == SelectInSeq(name, LAMBDA c : c = "=")
        opt == SubSeq(name, 1, eq - 1)
    IN  IF eq # 0 /\ ~HasName(node.options, opt) THEN Fail(a, "UnknownOption")
        ELSE IF eq # 0 THEN SetOption(a, opt, SubSeq(name, eq + 1, Len(name)))
        ELSE IF HasName(node.flags, name) THEN [a EXCEPT !.flags = @ \cup {name}]
        ELSE IF HasName(node.options, name) THEN [a EXCEPT !.pending = name]
        ELSE Fail(a, "UnknownOption")

\* Letters after one dash: only the last may be an option, which takes a value.
ShortArg(a, chars, node) ==
    LET one(acc, ch) ==
          IF acc.err # "Ok" THEN acc
          ELSE IF acc.pending # << >> THEN Fail(acc, "MissingValue")
          ELSE IF HasShort(node.flags, ch) THEN
                 [acc EXCEPT !.flags = @ \cup {ByShort(node.flags, ch)}]
          ELSE IF HasShort(node.options, ch) THEN [acc EXCEPT !.pending = ByShort(node.options, ch)]
          ELSE Fail(acc, "UnknownOption")
    IN  FoldLeft(one, a, chars)

\* Mutant: the token that is the value of an option is not skipped.
ArgStep_NoSkip(a, token, node) ==
    LET b == IF a.pending # << >> THEN SetOption(a, a.pending, token) ELSE a
    IN  IF a.err # "Ok" THEN a
        ELSE IF IsPrefix(<<"-", "-">>, token) THEN LongArg(b, SubSeq(token, 3, Len(token)), node)
        ELSE IF token[1] = "-" /\ Len(token) > 1 THEN ShortArg(b, Tail(token), node)
        ELSE [b EXCEPT !.positional = Append(@, token)]

ArgStep(a, token, node) ==
    IF a.err # "Ok" THEN a
    ELSE IF a.pending # << >> THEN SetOption(a, a.pending, token)
    ELSE IF IsPrefix(<<"-", "-">>, token) THEN LongArg(a, SubSeq(token, 3, Len(token)), node)
    ELSE IF token[1] = "-" /\ Len(token) > 1 THEN ShortArg(a, Tail(token), node)
    ELSE [a EXCEPT !.positional = Append(@, token)]

parse_args(tokens, node) ==
    LET end == FoldLeft(LAMBDA a, t : ArgStep(a, t, node), NoArgs, tokens)
    IN  IF end.err = "Ok" /\ end.pending # << >> THEN Fail(end, "MissingValue") ELSE end

validate_required_options(node, options) == \A name \in node.required : <<name>> \in DOMAIN options

Failed(why) == [err |-> why]

parse(input) ==
    LET tokens == tokenize(input)
        paths == find_command(tokens)
        path == Deepest(paths)
        args == parse_args(SubSeq(tokens, Len(path) + 1, Len(tokens)), COMMAND_TREE[path])
    IN  IF tokens = << >> \/ paths = {} THEN Failed("UnknownCommand")
        ELSE IF args.err # "Ok" THEN Failed(args.err)
        ELSE IF ~validate_required_options(COMMAND_TREE[path], args.options)
          THEN Failed("MissingRequiredOption")
        ELSE [err |-> "Ok", command_path |-> path, options |-> args.options,
              flags |-> args.flags, positional_args |-> args.positional]

-----------------------------------------------------------------------------
(* What a line makes the shell do.                                         *)

Solid(c) == c # Space
trim(s) ==
    LET first == SelectInSeq(s, Solid)
        last == SelectLastInSubSeq(s, 1, Len(s), Solid)
    IN  IF first = 0 THEN << >> ELSE SubSeq(s, first, last)

\* show_help: every word is a name on the path from the root of the tree.
split_whitespace(s) ==
    Flushed(FoldLeft(LAMBDA w, ch : IF ch = Space THEN NoToken(Flushed(w))
                                    ELSE [w EXCEPT !.current = Append(@, ch)], NoToken(<< >>), s))
show_help(words) ==
    IF \E p \in DOMAIN COMMAND_TREE : words = [i \in 1 .. Len(p) |-> <<p[i]>>]
      THEN "help" ELSE "UnknownCommand"

\* handle_builtin_commands, and run_cmd_bytes for any other line.
Execute(input) ==
    LET line == trim(input)
    IN  IF line = <<"help">> THEN "help"
        ELSE IF line \in {<<"exit">>, <<"quit">>} THEN "exit"
        ELSE IF line = <<"clear">> THEN "clear"
        ELSE IF IsPrefix(<<"help", Space>>, input) THEN show_help(split_whitespace(SubSeq(input, 3, Len(input))))
        ELSE IF line = << >> THEN "nothing"
        ELSE parse(line).err
=============================================================================
