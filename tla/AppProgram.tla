------------------------------- MODULE AppProgram -------------------------------
(* C++ programs that register a topo-app graph, reduced to what the three producers *)
(* of that graph look at, and the graph such a program builds when it is compiled   *)
(* and run (runtime/include/topo/app.h).  app_static.h and AppStaticAnalyze.cpp     *)
(* read the same programs without running them: AppRegex and AppClang.              *)
EXTENDS AppGraph, FiniteSets

(* A type as it is written is a sequence of words, an alias has a scope. *)
Specifiers == {"const", "static", "inline"}
UsingAlias(scope, name, how, rhs) ==
    [scope |-> scope, name |-> name, how |-> how, rhs |-> rhs, fields |-> <<>>]
RecordAlias(scope, name, fields) ==
    [scope |-> scope, name |-> name, how |-> "using", rhs |-> <<"Record">>, fields |-> fields]

(* how: "plain", "auto" for a deduced return type, "trailing" for one behind "->".  *)
(* body: the function is defined "before" its registration, declared before and     *)
(* defined "after" it, or defined "elsewhere", in another file; "lambda" if it is   *)
(* the signature of one.                                                            *)
Function(scope, name, how, ret, params, body, noexcept) ==
    [scope |-> scope, name |-> name, how |-> how, ret |-> ret, params |-> params,
     body |-> body, noexcept |-> noexcept]
Param(type, named) == [type |-> type, named |-> named]

(* Names are texts in fragments.  A name is written as operands joined by "+", each *)
(* a row of adjacent literals, macros that stand for a literal, or one variable.    *)
Atom(kind, text) == [kind |-> kind, text |-> text]
Value(expr) == FlattenSeq([i \in DOMAIN expr |->
                   FlattenSeq([j \in DOMAIN expr[i] |-> expr[i][j].text])])

(* Where a call stands: "plain" code; with a line break behind the parenthesis; in  *)
(* a function-like macro; through a pointer; in a loop of two rounds; in code that  *)
(* is never reached; behind #if 0; in a comment; in a comment whose line has an odd *)
(* number of digit separators (1'000 //).                                           *)
Layouts == {"plain", "cross_line", "macro", "arrow", "loop", "dead", "disabled", "comment", "separator"}
Times(layout) == CASE layout \in {"plain", "cross_line", "macro", "arrow"} -> 1
                   [] layout = "loop" -> 2
                   [] OTHER -> 0

(* callable: a function's "name", a "variable" that points to it, or a "lambda":    *)
(* `of` is then its own signature, and callee a function it calls, 0 if none.       *)
Callable(form, of, callee) == [form |-> form, of |-> of, callee |-> callee]
HandlerCall(app, layout, callable, name) ==
    [member |-> "handler", app |-> app, layout |-> layout, callable |-> callable, name |-> name, stages |-> <<>>]
FlowCall(app, layout, name, stages) ==
    [member |-> "flow", app |-> app, layout |-> layout, callable |-> Callable("none", 0, 0),
     name |-> name, stages |-> stages]
Stage(parallel, names) == [parallel |-> parallel, names |-> names]

Program(apps, aliases, functions, calls) ==
    [apps |-> apps, aliases |-> aliases, functions |-> functions, calls |-> calls]

--------------------------------------------------------------------------------
(* The compiler: what a type means where it is written. *)
Without(words, dropped) == SelectSeq(words, LAMBDA w : w \notin dropped)
Visible(p, scope, word) ==
    {i \in DOMAIN p.aliases : p.aliases[i].name = word /\ IsPrefix(p.aliases[i].scope, scope)}
Innermost(p, found) == CHOOSE i \in found : \A j \in found : Len(p.aliases[j].scope) <= Len(p.aliases[i].scope)

scalar_of(words) ==
    CASE words = <<"bool">> -> <<of_scalar("bool")>>
      [] words \in {<<"std::string">>, <<"char", "*">>} -> <<of_scalar("str")>>
      [] words \in {<<"float">>, <<"double">>, <<"long", "double">>} -> <<of_scalar("float")>>
      [] words \in {<<"int">>, <<"char">>, <<"unsigned", "int">>, <<"short", "int">>} -> <<of_scalar("int")>>
      [] OTHER -> <<>>

RECURSIVE type_mapper(_, _, _)      \* <<>> if it does not compile; a record is taken by value
type_mapper(p, scope, words) ==
    LET bare == Without(words, Specifiers \cup {"&"})
        found == Visible(p, scope, bare[1])
        alias == p.aliases[Innermost(p, found)]
        fields == [i \in DOMAIN alias.fields |-> type_mapper(p, alias.scope, alias.fields[i].type)]
    IN  IF Len(bare) > 1 \/ found = {} THEN scalar_of(bare)
        ELSE IF alias.fields = <<>> THEN type_mapper(p, alias.scope, alias.rhs)
        ELSE IF "&" \in Range(words) \/ \E i \in DOMAIN fields : fields[i] = <<>> THEN <<>>
        ELSE <<of_record([i \in DOMAIN fields |-> RecordField(alias.fields[i].name, fields[i][1])])>>

(* function_traits: at most one parameter; `noexcept` is part of a pointer's type.  *)
InOf(p, f) == [i \in DOMAIN f.params |-> type_mapper(p, f.scope, f.params[i].type)]
OutOf(p, f) == type_mapper(p, f.scope, f.ret)
HandlerOf(p, f, name) ==
    Handler(name, [i \in DOMAIN f.params |-> InOf(p, f)[i][1]], OutOf(p, f)[1])
Registers(call) == call.member = "handler" /\ call.layout \notin {"disabled", "comment", "separator"}
Compiles(p) ==
    \A i \in DOMAIN p.calls : Registers(p.calls[i]) =>
        LET f == p.functions[p.calls[i].callable.of]
        IN  /\ Len(f.params) <= 1
            /\ f.noexcept => p.calls[i].callable.form # "name"
            /\ OutOf(p, f) # <<>> /\ \A j \in DOMAIN f.params : InOf(p, f)[j] # <<>>

(* App::handler() and App::flow() on the first App of the program, each call as     *)
(* often as it is executed.                                                         *)
StageNames(stages) == [i \in DOMAIN stages |-> [j \in DOMAIN stages[i].names |-> Value(stages[i].names[j])]]
Execute(p, graph, c) ==
    IF c.app # 1 THEN graph
    ELSE IF c.member = "flow" THEN [graph EXCEPT !.flow = <<Flow(Value(c.name), StageNames(c.stages))>>]
    ELSE [graph EXCEPT !.handlers = Append(@, HandlerOf(p, p.functions[c.callable.of], Value(c.name)))]
RunProgram(p) ==
    LET executed == FlattenSeq([i \in DOMAIN p.calls |->
                        [n \in 1 .. Times(p.calls[i].layout) |-> p.calls[i]]])
    IN  FoldLeft(LAMBDA g, c : Execute(p, g, c), Graph(p.apps[1].name, <<>>, <<>>), executed)
================================================================================
