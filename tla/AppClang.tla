-------------------------------- MODULE AppClang --------------------------------
(* topo-build/static-frontend: the graph of a program read from Clang's dump of its *)
(* syntax tree (AppStaticAnalyze.cpp), and the tool that prints it (main.cpp).      *)
EXTENDS AppProgram

(* What Clang reports (external).  A value's type has its aliases stripped, one     *)
(* behind a reference or a function's return type is printed as written.            *)
Reported(words, fields) == [words |-> words, fields |-> fields]
Printed(words) == CASE words = <<"short", "int">> -> <<"short">> [] OTHER -> words
RECURSIVE Desugared(_, _, _)
Desugared(p, scope, words) ==
    LET bare == Without(words, Specifiers)
        found == Visible(p, scope, bare[1])
        alias == p.aliases[Innermost(p, found)]
    IN  IF Len(bare) > 1 \/ found = {} THEN Reported(Printed(bare), <<>>)
        ELSE IF alias.fields = <<>> THEN Desugared(p, alias.scope, alias.rhs)
        ELSE Reported(<<"Record">>, [i \in DOMAIN alias.fields |->
                RecordField(alias.fields[i].name, Desugared(p, alias.scope, alias.fields[i].type))])
ReportedParam(p, f, type) ==
    IF Last(type) \in {"&", "*"} THEN Reported(type, <<>>) ELSE Desugared(p, f.scope, type)
ReportedReturn(p, f) ==
    CASE f.how = "plain" -> Reported(Printed(f.ret), <<>>)
      [] f.how = "auto" -> Desugared(p, f.scope, f.ret)
      [] OTHER -> Reported(<<"auto">>, <<>>)
(* The calls of the tree: code that is compiled, macros expanded.                   *)
InTree(c) == c.layout \notin {"disabled", "comment", "separator"}
(* One literal for a row of literals and macros; none for a variable. *)
TreeLiterals(expr) ==
    LET Has(atoms) == atoms[1].kind # "variable"
        with == SelectSeq(expr, Has)
    IN  [i \in DOMAIN with |-> Value(<<with[i]>>)]

--------------------------------------------------------------------------------
(* collectDecls() and collectFunction(): aliases under their bare names; functions  *)
(* by declaration, and the declarations of a bare name in their order.              *)
normaliseType(words) == Without(words, Specifiers \cup {"&", "*"})
AliasesOf(p) ==
    FoldLeft(LAMBDA m, a : [n \in DOMAIN m \cup {a.name} |->
                 IF n = a.name THEN IF a.fields = <<>> THEN Desugared(p, a.scope, a.rhs)
                                    ELSE Desugared(p, a.scope, <<a.name>>)
                 ELSE m[n]],
             [n \in {} |-> <<>>], p.aliases)
Declaration(i, defined) == [of |-> i, defined |-> defined]
DeclarationsOf(p) ==
    LET functions == [i \in DOMAIN p.functions |-> i]
        InUnit(i) == p.functions[i].body # "lambda"
        First(i) == Declaration(i, p.functions[i].body = "before")
        Later == SelectSeq(functions, LAMBDA i : p.functions[i].body = "after")
        first == SelectSeq(functions, InUnit)
    IN  [i \in DOMAIN first |-> First(first[i])] \o [i \in DOMAIN Later |-> Declaration(Later[i], TRUE)]

(* handleCall(): declRefId() and declRefName() find the first reference within the  *)
(* argument, a variable's or, within a lambda, a callee's; no reference is a note.  *)
Noted(s) == [s EXCEPT !.notes = @ + 1]
stringLiteralValue(expr) ==
    LET found == SelectSeq(TreeLiterals(expr), LAMBDA text : text # <<>>)
    IN  IF found = <<>> THEN <<>> ELSE found[1]
Referenced(callable) ==
    CASE callable.form = "name" -> callable.of
      [] callable.form = "lambda" -> callable.callee
      [] OTHER -> 0
AddRegistration(p, s, c) ==
    LET literal == stringLiteralValue(c.name)
        of == Referenced(c.callable)
        fnName == IF of = 0 THEN "pointer" ELSE p.functions[of].name
    IN  IF of = 0 /\ c.callable.form = "lambda" THEN Noted(s)
        ELSE [s EXCEPT !.registrations = Append(@,
                 [of |-> of, name |-> IF literal = <<>> THEN <<fnName>> ELSE literal])]

(* stageFromArg(): a stage is its literals; a member of parallel() without one is   *)
(* left out, another stage without one is noted and left out.                       *)
stageFromArg(stage) ==
    LET texts == [i \in DOMAIN stage.names |-> stringLiteralValue(stage.names[i])]
    IN  SelectSeq(texts, LAMBDA text : text # <<>>)
AddFlow(s, c) ==
    LET name == stringLiteralValue(c.name)
        stages == [i \in DOMAIN c.stages |-> stageFromArg(c.stages[i])]
        kept == SelectSeq(stages, LAMBDA stage : stage # <<>>)
        missing == Cardinality({i \in DOMAIN stages : stages[i] = <<>> /\ ~c.stages[i].parallel})
    IN  IF name = <<>> THEN Noted(s)
        ELSE [s EXCEPT !.notes = @ + missing, !.flow = IF kept = <<>> THEN @ ELSE <<Flow(name, kept)>>]
handleCall(p, s, c) == IF c.member = "handler" THEN AddRegistration(p, s, c) ELSE AddFlow(s, c)
collectCalls(p, calls) ==
    FoldLeft(LAMBDA s, c : handleCall(p, s, c),
             [notes |-> 0, registrations |-> <<>>, flow |-> <<>>], SelectSeq(calls, InTree))

(* resolveFunction(): the declaration itself if it is a definition, else the first  *)
(* definition of the bare name, else the prototype.                                 *)
definedSigByName(decls, p, name) ==
    LET defined == SelectSeq(decls, LAMBDA d : d.defined /\ p.functions[d.of].name = name)
    IN  [i \in DOMAIN defined |-> defined[i].of]
FirstOfTheName(decls, p, of) ==      \* mutant: the declaration is not looked at
    LET defined == definedSigByName(decls, p, p.functions[of].name)
    IN  IF defined = <<>> THEN of ELSE defined[1]
resolveFunction(decls, p, of) ==
    LET defined == definedSigByName(decls, p, p.functions[of].name)
    IN  IF p.functions[of].body = "before" \/ defined = <<>> THEN of ELSE defined[1]

scalarOf(words) ==
    LET t == normaliseType(words)
    IN  CASE t = <<"bool">> -> <<of_scalar("bool")>>
          [] t \in {<<"std::string">>, <<"std::string_view">>, <<"char">>} -> <<of_scalar("str")>>
          [] t \in {<<"float">>, <<"double">>, <<"long", "double">>} -> <<of_scalar("float")>>
          [] t \in {<<"int">>, <<"unsigned", "int">>, <<"short">>} -> <<of_scalar("int")>>
          [] OTHER -> <<>>
RECURSIVE resolveType(_, _)      \* resolveRecordTemplate() for a record
resolveType(aliases, type) ==
    LET t == normaliseType(type.words)
        fields == [i \in DOMAIN type.fields |-> resolveType(aliases, type.fields[i].type)]
    IN  IF t = <<"Record">>
        THEN IF \E i \in DOMAIN fields : fields[i] = <<>> THEN <<>>
             ELSE <<of_record([i \in DOMAIN fields |-> RecordField(type.fields[i].name, fields[i][1])])>>
        ELSE IF Len(t) = 1 /\ t[1] \in DOMAIN aliases THEN resolveType(aliases, aliases[t[1]])
        ELSE scalarOf(type.words)

(* build(): <<>> is an error. *)
BuildHandler(p, decls, aliases, reg) ==
    LET f == p.functions[resolveFunction(decls, p, reg.of)]
        in == [i \in DOMAIN f.params |-> resolveType(aliases, ReportedParam(p, f, f.params[i].type))]
        out == resolveType(aliases, ReportedReturn(p, f))
    IN  IF reg.of = 0 THEN <<>>
        ELSE IF Len(in) > 1 \/ out = <<>> \/ \E i \in DOMAIN in : in[i] = <<>> THEN <<>>
        ELSE <<Handler(reg.name, [i \in DOMAIN in |-> in[i][1]], out[1])>>
HandlersOf(p, decls, aliases, registrations) ==
    [i \in DOMAIN registrations |-> BuildHandler(p, decls, aliases, registrations[i])]
Built(literal, handlers, flow) ==
    IF literal = <<>> \/ handlers = <<>> \/ \E i \in DOMAIN handlers : handlers[i] = <<>> THEN <<>>
    ELSE <<Graph(literal[1].name, [i \in DOMAIN handlers |-> handlers[i][1]], flow)>>
build(p, s) ==
    Built(SelectSeq(p.apps, LAMBDA a : a.literal),
          HandlersOf(p, DeclarationsOf(p), AliasesOf(p), s.registrations), s.flow)

(* analyzeFile() and main(): the dump may be empty or cut off when Clang is stopped *)
(* (`dump`), and lacks calls Clang could not make sense of (`lost`).                *)
CallsInDump(p, lost) == IF Compiles(p) THEN p.calls ELSE SelectSeq(p.calls, LAMBDA c : c.member \notin lost)
Analyzed(p, dump, s) ==
    [graph |-> IF dump = "whole" THEN build(p, s) ELSE <<>>, degraded |-> s.notes > 0 \/ ~Compiles(p)]
analyzeFile(p, dump, lost) == Analyzed(p, dump, collectCalls(p, CallsInDump(p, lost)))
HidesNotes(p, r) ==      \* mutant: notes are not a warning
    [exit |-> IF r.graph = <<>> THEN 1 ELSE 0, warned |-> ~Compiles(p), printed |-> r.graph]
Outcome(p, r) ==
    [exit |-> IF r.graph = <<>> THEN 1 ELSE 0, warned |-> r.degraded /\ r.graph # <<>>, printed |-> r.graph]
StaticTool(p, dump, lost) == Outcome(p, analyzeFile(p, dump, lost))
================================================================================
