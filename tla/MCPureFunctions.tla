---------------------------- MODULE MCPureFunctions ----------------------------
(* The compilations that HeaderClosure is tried on: a source of at most two uses *)
(* or definitions, the last of which leads to a file, and at most two headers of *)
(* at most one; and smaller ones with macros and files from the command line.    *)
(* Any may stand under an #if.                                                   *)
EXTENDS PureFunctions

MCBaseDir == <<"a">>     \* the project of NinjaNames is in /a

MCIncludeRoots == <<"one", "two">>
MCQuotedRoots == <<"quote">>
MCSource == <<"src", "main">>
MCElsewhere == <<"elsewhere", "file">>

BareLine(op) == [op |-> op, macro |-> "M", operand |-> Complex]
InQuotes(name)   == [form |-> "quoted", name |-> name]
InBrackets(name) == [form |-> "angle", name |-> name]
Identifier(name) == [form |-> "identifier", name |-> name]
Include(operand) == [BareLine("include") EXCEPT !.operand = operand]
Probe(operand)   == [BareLine("probe") EXCEPT !.operand = operand]
Define(macro, operand) == [op |-> "define", macro |-> macro, operand |-> operand]
Undef(macro)     == [BareLine("undef") EXCEPT !.macro = macro]
UnderIf(lines) == <<BareLine("if")>> \o lines \o <<BareLine("endif")>>

MCUses == {<<Include(InQuotes("a"))>>, <<Include(InBrackets("a"))>>, <<Include(Identifier("M"))>>}
Conditional ==
    {UnderIf(<<Include(InBrackets("b"))>>),
     <<Probe(InBrackets("b")), Include(Identifier("N")), BareLine("else"), BareLine("if"), BareLine("endif"), BareLine("endif")>>}
Others ==
    {<<Define("M", InQuotes("b"))>>, <<Define("N", Identifier("M"))>>, <<Undef("M")>>,
     <<BareLine("unclassified")>>, <<Include(Complex)>>}
SourceTexts ==
    MCUses \cup Conditional \cup {d \o e : d \in MCUses \cup Conditional \cup Others, e \in MCUses \cup Conditional}
MacroTexts == {<<>>, <<Define("M", InQuotes("b"))>>, <<Define("N", Identifier("M"))>>}
HeaderTexts(name) == MacroTexts \cup
    IF name = "a"
      THEN {<<Define("M", Identifier("N"))>>, <<Undef("M")>>, UnderIf(<<Define("M", InQuotes("b"))>>),
            <<Include(InQuotes("b"))>>, <<Include(InBrackets("b"))>>}
      ELSE {<<Define("M", InBrackets("b"))>>, UnderIf(<<Include(InQuotes("a"))>>)}

HeaderPaths == {<<"one", "a">>, <<"two", "a">>, <<"two", "b">>, <<"deep", "b">>, <<"quote", "b">>}
(* two/a may be a link into "deep"; any other file is where it is spelled. *)
Places(p) == IF p = <<"two", "a">> THEN {"two", "deep"} ELSE {p[1]}
File(text, spelled, place) == [lines |-> text, parent |-> spelled, resolved |-> place]
FilesAt(p) == {File(text, p[1], place) : text \in HeaderTexts(p[2]), place \in Places(p)}
Headers ==
    UNION {{f \in [paths -> UNION {FilesAt(p) : p \in paths}] : \A p \in paths : f[p] \in FilesAt(p)} :
             paths \in {P \in SUBSET HeaderPaths : Cardinality(P) <= 2}}

Commands == {<<Define("M", InQuotes("a"))>>, <<Define("M", Identifier("N")), Define("N", InQuotes("a"))>>,
             <<Define("M", InQuotes("a")), Undef("M")>>}
Unit(main, headers, command, forced) ==
    [command |-> command, forced |-> forced, tree |-> (Source :> File(main, "src", "src")) @@ headers]
MCCompilations ==
    {Unit(main, headers, <<>>, <<>>) : main \in SourceTexts, headers \in Headers} \cup
    {Unit(main, headers, command, forced) :
        main \in MCUses, headers \in Headers, command \in Commands, forced \in {<<>>, <<<<"two", "a">>>>}}
================================================================================
