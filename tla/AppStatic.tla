-------------------------------- MODULE AppStatic --------------------------------
(* The two readers of a topo-app program next to the program itself: what each of   *)
(* them has to say of the same text, and the programs they are tried on.            *)
EXTENDS AppRegex, AppClang

Text(word) == <<word>>
Literal(word) == Atom("literal", Text(word))
Macro == Atom("macro", Text("m"))
Variable == Atom("variable", Text("v"))
Ordinary(word) == <<<<Literal(word)>>>>
(* Names as literals, macros, variables, and what is made of them. *)
NameForms ==
    {Ordinary("x"), <<<<Literal("x"), Literal("y")>>>>, <<<<Macro>>>>, <<<<Literal("x"), Macro>>>>,
     <<<<Macro, Literal("x")>>>>, <<<<Variable>>>>, <<<<Variable>>, <<Literal("x")>>>>,
     <<<<Literal("x")>>, <<Variable>>>>, <<<<Atom("literal", <<>>)>>>>}

TwoToOne == Function(<<>>, "sum", "plain", <<"int">>, <<Param(<<"int">>, TRUE), Param(<<"int">>, TRUE)>>, "before", FALSE)
IntToInt == Function(<<>>, "f", "plain", <<"int">>, <<Param(<<"int">>, TRUE)>>, "before", FALSE)
OfLambda == Function(<<>>, "", "plain", <<"double">>, <<>>, "lambda", FALSE)
ByName(i) == Callable("name", i, 0)
OneApp == <<[name |-> Text("ns"), literal |-> TRUE]>>
Computed == <<[name |-> Text("made"), literal |-> FALSE]>>
Second == <<[name |-> Text("other"), literal |-> TRUE]>>
SomeApps == {OneApp, Computed, OneApp \o Second, Computed \o Second}

(* A program whose dump is whole. *)
Whole(p) == [kind |-> "program", program |-> p, dump |-> "whole", lost |-> {}]

(* One handler, its types written in every way, through aliases and without. *)
AliasesAs(how) ==
    <<UsingAlias(<<>>, "Money", how, <<"double">>), UsingAlias(<<>>, "Label", how, <<"std::string">>),
      UsingAlias(<<>>, "Chain", "using", <<"Money">>),
      RecordAlias(<<>>, "Order", <<RecordField("id", <<"int">>), RecordField("sum", <<"Money">>)>>),
      UsingAlias(<<>>, "Batch", "using", <<"Order">>)>>
Written ==
    {<<"int">>, <<"bool">>, <<"char">>, <<"float">>, <<"std::string">>, <<"long", "double">>,
     <<"short", "int">>, <<"unsigned", "int">>, <<"Money">>, <<"Label">>, <<"Chain">>, <<"Order">>, <<"Batch">>}
Passed == Written \cup {<<"const", "std::string", "&">>, <<"const", "char", "*">>,
                        <<"const", "Money", "&">>, <<"const", "Order", "&">>, <<"const", "Money">>}
Returned == Written \cup {<<"static", "double">>, <<"const", "char", "*">>}
IsTypedRequest ==
    \E alias \in {"using", "typedef"}, how \in {"plain", "auto", "trailing"}, ret \in Returned,
      params \in {<<>>, TwoToOne.params} \cup {<<Param(t, named)>> : t \in Passed, named \in BOOLEAN} :
        request = Whole(Program(OneApp, AliasesAs(alias), <<Function(<<>>, "f", how, ret, params, "before", FALSE)>>,
                    <<HandlerCall(1, "plain", ByName(1), Ordinary("x"))>>))

(* Two functions that may have the same bare name, each of its namespace's types.   *)
Scopes == {<<>>, <<"a">>, <<"b">>, <<"a", "b">>}
TypesInScopes ==
    {<<>>, <<UsingAlias(<<"a">>, "T", "using", <<"int">>), UsingAlias(<<"b">>, "T", "using", <<"double">>)>>}
InScope(aliases, scope, name, other, body, noexcept) ==
    LET own == IF aliases # <<>> /\ scope # <<>> THEN <<"T">> ELSE other
    IN  Function(scope, name, "plain", own, <<Param(own, TRUE)>>, body, noexcept)
HandlerBodies == {"before", "after", "elsewhere"}
IsScopedRequest ==
    \E aliases \in TypesInScopes, s \in Scopes, t \in Scopes, name \in {"f", "g"},
      b \in HandlerBodies, c \in HandlerBodies, noexcept \in BOOLEAN, both \in BOOLEAN :
        /\ s # t \/ name # "f"
        /\ request = Whole(Program(OneApp, aliases,
                       <<InScope(aliases, s, "f", <<"int">>, b, FALSE),
                         InScope(aliases, t, name, <<"double">>, c, noexcept)>>,
                       <<HandlerCall(1, "plain", ByName(1), Ordinary("x"))>> \o
                       IF both THEN <<HandlerCall(1, "plain", ByName(2), Ordinary("y"))>> ELSE <<>>))

(* Registrations wherever and however they are written. *)
Callables == {ByName(1), Callable("variable", 1, 0), Callable("lambda", 2, 0), Callable("lambda", 2, 1)}
Registered(call) == <<call, HandlerCall(1, "plain", ByName(1), Ordinary("z"))>>
IsRegistrationRequest ==
    \E apps \in SomeApps, app \in 1 .. 2, layout \in Layouts, callable \in Callables, name \in NameForms, alone \in BOOLEAN :
        /\ app \in DOMAIN apps
        /\ LET call == HandlerCall(app, layout, callable, name)
           IN  request = Whole(Program(apps, <<>>, <<IntToInt, OfLambda>>, IF alone THEN <<call>> ELSE Registered(call)))

(* Flows: one in any code, or two. *)
Stages == {Stage(FALSE, <<n>>) : n \in {Ordinary("x"), <<<<Literal("x"), Macro>>>>, <<<<Variable>>>>}} \cup
          {Stage(TRUE, <<Ordinary("x"), n>>) : n \in {Ordinary("y"), <<<<Variable>>>>}} \cup
          {Stage(TRUE, << <<<<Variable>>>> >>)}
FlowLayouts == Layouts \ {"macro"}
Chains == UNION {[1 .. n -> Stages] : n \in 1 .. 2}
IsFlowRequest ==
    \E layout \in FlowLayouts, others \in {"none"} \cup FlowLayouts, name \in NameForms, chain \in Chains :
        /\ others = "none" \/ (name = Ordinary("x") /\ Len(chain) = 1)
        /\ request = Whole(Program(OneApp, <<>>, <<IntToInt>>,
                       <<HandlerCall(1, "plain", ByName(1), Ordinary("x")), FlowCall(1, layout, name, chain)>> \o
                       IF others = "none" THEN <<>> ELSE <<FlowCall(1, others, Ordinary("g"), <<Stage(FALSE, <<Ordinary("z")>>)>>)>>))

(* A dump that is cut off, or that lacks the calls Clang could not make sense of. *)
Miswritten(function) ==
    Program(OneApp, <<>>, <<IntToInt, function>>,
            <<HandlerCall(1, "plain", ByName(2), Ordinary("x")), HandlerCall(1, "plain", ByName(1), Ordinary("y")),
              FlowCall(1, "plain", Ordinary("p"), <<Stage(FALSE, <<Ordinary("y")>>)>>)>>)
IsDumpRequest ==
    \E function \in {TwoToOne, IntToInt}, dump \in {"whole", "cut off", "empty"}, lost \in SUBSET {"handler", "flow"} :
        request = [kind |-> "program", program |-> Miswritten(function), dump |-> dump, lost |-> lost]
IsProgramRequest ==
    IsTypedRequest \/ IsScopedRequest \/ IsRegistrationRequest \/ IsFlowRequest \/ IsDumpRequest
ProgramAnswer(r) == <<parse_app_source(r.program), StaticTool(r.program, r.dump, r.lost)>>

--------------------------------------------------------------------------------
SameMeaning(g, p) == semantic_key(g) = semantic_key(RunProgram(p))

NotOnce(c) == c.layout \in {"loop", "dead"}
NameTwice(decls) == \E i, j \in DOMAIN decls : i # j /\ decls[i].name = decls[j].name
Takes(f, words) == \E i \in DOMAIN f.params : f.params[i].type = words
HasOperand(expr, kind) == \E i \in DOMAIN expr : \E j \in DOMAIN expr[i] : expr[i][j].kind = kind
StageNamesOf(c) == UNION {Range(c.stages[i].names) : i \in DOMAIN c.stages}

(* What app_static.h gets wrong and neither refuses nor flags: calls that are not   *)
(* executed once, that the preprocessor removes, that stand in a comment behind a   *)
(* digit separator or go through a pointer; lambdas; names that are not literals    *)
(* alone; a second flow or App; a bare name or an alias of two namespaces; an       *)
(* unnamed parameter of two words.                                                  *)
OnlyLiterals(expr) == Len(expr) = 1 /\ ~HasOperand(expr, "macro") /\ ~HasOperand(expr, "variable")
MisreadCall(c) ==
    \/ NotOnce(c) \/ c.layout \in {"disabled", "separator", "arrow"} \/ c.callable.form = "lambda"
    \/ c.layout # "comment" /\ \E n \in {c.name} \cup StageNamesOf(c) : ~OnlyLiterals(n)
MisreadByRegex(p) ==
    \/ \E i \in DOMAIN p.calls : MisreadCall(p.calls[i])
    \/ Cardinality({i \in DOMAIN p.calls : p.calls[i].member = "flow"}) > 1
    \/ Len(p.apps) > 1 \/ ~p.apps[1].literal \/ NameTwice(p.functions) \/ NameTwice(p.aliases)
    \/ \E f \in Range(p.functions) : Takes(f, <<"long", "double">>) /\ ~f.params[1].named
(* A program that compiles and that app_static.h neither refuses nor flags is read  *)
(* as the graph it registers when it runs (app_static.h:11 has no silent misreading *)
(* at all), but for the forms above.                                                *)
RegexReadsWhatRuns ==
    Answered("program") =>
        LET p == request.program
            read == reply[1]
        IN  Compiles(p) /\ ~read.threw /\ ~read.partial /\ ~MisreadByRegex(p) => SameMeaning(read.graph[1], p)

(* What AppStaticAnalyze.cpp gets wrong without a note: calls that are not executed *)
(* once; a lambda that names a function; a name that is a sum, a handler's that is  *)
(* empty or no literal, and such a member of a parallel stage; a second App; char;  *)
(* an alias of two namespaces; a function that is not defined ahead of its          *)
(* registration and shares its bare name with one that is defined.                  *)
Nameless(expr) == HasOperand(expr, "variable") \/ Value(expr) = <<>>
Promoted(p, i) ==
    /\ p.functions[i].body # "before"
    /\ \E j \in DOMAIN p.functions \ {i} :
          p.functions[j].name = p.functions[i].name /\ p.functions[j].body \in {"before", "after"}
MisreadByTool(p) ==
    \/ \E c \in Range(p.calls) :
          \/ NotOnce(c) \/ c.callable.form = "lambda"
          \/ \E n \in {c.name} \cup StageNamesOf(c) : Len(n) > 1
          \/ c.member = "handler" /\ (Nameless(c.name) \/ Promoted(p, c.callable.of))
          \/ \E stage \in Range(c.stages) : stage.parallel /\ \E n \in Range(stage.names) : Nameless(n)
    \/ Len(p.apps) > 1 \/ NameTwice(p.aliases)
    \/ \E f \in Range(p.functions) : f.ret = <<"char">> \/ Takes(f, <<"char">>)
(* Exit 0 without a warning: the program compiles, and what is printed is the graph *)
(* it registers when it runs (AppStaticAnalyze.h:43, :78: nothing out of the        *)
(* surface is dropped silently), but for the forms above.                           *)
SilentSuccessIsTheProgramsGraph ==
    Answered("program") =>
        LET p == request.program
            tool == reply[2]
        IN  tool.exit = 0 /\ ~tool.warned =>
              Compiles(p) /\ (MisreadByTool(p) \/ SameMeaning(tool.printed[1], p))
================================================================================
