------------------------------ MODULE SymbolScanners ------------------------------
(* CppSymbolAccessExtractor.cpp and CppSymbolExtractor.cpp: which variables of the   *)
(* file a function writes, and what the file declares.  Both keep the state of a     *)
(* comment or a raw string within a line, and read on behind its end.                *)
EXTENDS CallScanners

(* stripInlineComments(): a mark of a comment within a literal is taken for one.     *)
StripLine(mode, line) ==
    LexLine(mode, [i \in DOMAIN line |-> IF line[i] = "'//'" THEN "//" ELSE line[i]])

(* collectGlobals(), the first pass.  A function whose brace is in a later line is   *)
(* not entered.                                                                      *)
Parenthesized == FunctionHeads \cup CallToken \cup {"own", "obj", "self", "if"}
Declares(code) ==      \* declRegex, for the one variable of these texts
    /\ StartsWith(code, "int n") \/ (Indented(code) /\ StartsWith(code, "n="))
    /\ Range(code) \cap Parenthesized = {}
GlobalsOfCode(s, code) ==
    LET counted == CountBraces(s, code)
        within == counted.function # <<>>
        below == counted.peak - 1
    IN  CASE OpensNamespace(code) -> EnterNamespace(counted)
          [] ~within /\ OpensClass(code) -> EnterClass(counted, code)
          [] ~within /\ NamedFunction(code) # <<>> ->
               IF Holds(code, "{") /\ counted.depth > below
               THEN EnterFunction(counted, NamedFunction(code), below) ELSE counted
          [] ~within /\ counted.classes = <<>> /\ Declares(code) -> [counted EXCEPT !.found = {"n"}]
          [] OTHER -> counted
GlobalsLine(s, line) ==
    LET lexed == StripLine(s.mode, line)
        next == [s EXCEPT !.mode = lexed.mode]
    IN  IF lexed.code = <<>> \/ StartsWith(lexed.code, "#") THEN next ELSE GlobalsOfCode(next, lexed.code)
collectGlobals(text) == FoldLeft(GlobalsLine, StartOfFile, text).found

(* extractSymbolAccesses(), the second pass.  A brace that ends the function does so *)
(* behind the line, whose statements still belong to it.                             *)
ClosedLater(s) ==
    LET left == LeaveScopes(s, Lower(s.depth))
    IN  [left EXCEPT !.exits = @ \/ (s.function # <<>> /\ left.depth = s.functionDepth)]
CountBracesLater(s, code) ==
    FoldLeft(LAMBDA b, t : CASE t = "{" -> Opened(b) [] t = "}" -> ClosedLater(b) [] OTHER -> b,
             [s EXCEPT !.peak = s.depth, !.exits = FALSE], code)
DefineBody(s, code) ==
    LET name == NamedFunction(code)
    IN  CASE s.function # <<>> \/ name = <<>> \/ Last(code) = ";" -> s
          [] Holds(code, "{") -> [s EXCEPT !.function = name, !.functionDepth = s.peak - 1]
          [] OTHER -> [s EXCEPT !.pending = name]
Exited(s) == IF s.exits THEN [s EXCEPT !.function = <<>>, !.functionDepth = -1] ELSE s
WrittenAs(code) == IF Holds(code, "n=") \/ Holds(code, "int n") THEN {"n"} ELSE {}
WritesOfCode(s, code, globals) ==
    LET counted == CountBracesLater(s, code)
        entered == DefineBody(TakePending(counted, code, counted.peak - 1), code)
        here == counted.function = <<>> /\ entered.function # <<>>
        leaving == [entered EXCEPT !.exits = @ \/ (here /\ entered.depth <= entered.functionDepth)]
    IN  CASE OpensNamespace(code) -> EnterNamespace(counted)
          [] counted.function = <<>> /\ OpensClass(code) -> EnterClass(counted, code)
          [] leaving.function # <<>> /\ (here \/ leaving.depth > leaving.functionDepth) ->
               Exited(Report(leaving, buildQualified(leaving), WrittenAs(code) \cap globals))
          [] OTHER -> Exited(leaving)
WritesLine(s, line, globals) ==
    LET lexed == StripLine(s.mode, line)
        next == [s EXCEPT !.line = @ + 1, !.mode = lexed.mode]
    IN  IF lexed.code = <<>> \/ StartsWith(lexed.code, "#") THEN next ELSE WritesOfCode(next, lexed.code, globals)
extractSymbolAccesses(text) ==
    LET globals == collectGlobals(text)
    IN  IF globals = {} THEN {} ELSE FoldLeft(LAMBDA s, line : WritesLine(s, line, globals), StartOfFile, text).found

--------------------------------------------------------------------------------
(* extractSymbols(): functions are not entered; `visibility` is currentClassVis.     *)
ScopeVisibility(s) == IF s.classes = <<>> THEN "" ELSE s.visibility
CloseClass(s) ==
    LET left == LeaveScopes(s, Lower(s.depth))
    IN  IF left.classes # s.classes THEN [left EXCEPT !.visibility = "private"] ELSE left
BracesOfSymbols(s, code) ==
    FoldLeft(LAMBDA b, t : CASE t = "{" -> Opened(b) [] t = "}" -> CloseClass(b) [] OTHER -> b, s, code)
Count(code, t) == Cardinality({i \in DOMAIN code : code[i] = t})
Symbol(s, name, visibility) ==
    [s EXCEPT !.found = @ \cup {[name |-> StackNames(s.namespaces) \o StackNames(s.classes) \o <<name>>, visibility |-> visibility]}]
(* A word and a name before a parenthesis, or the name of the class alone. *)
SymbolNamed(s, code) ==
    LET first == FirstWord(code)[1]
        own == s.classes # <<>> /\ Last(s.classes).name = "C"
    IN  CASE FirstWord(code) = <<>> -> {}
          [] first \in Typed -> {first}
          [] first = "ret" -> {"system"}
          [] first \in BareToken /\ own -> {first}
          [] OTHER -> {}
SymbolsOfCode(s, code) ==
    LET counted == BracesOfSymbols(s, code)
    IN  CASE StartsWith(code, "private:") /\ counted.classes # <<>> -> [counted EXCEPT !.visibility = "private"]
          [] OpensNamespace(code) -> IF Count(code, "{") # Count(code, "}") THEN EnterNamespace(counted) ELSE counted
          [] OpensClass(code) ->
               [EnterClass(Symbol(counted, StructName(FirstWord(code)[1]), ""), code) EXCEPT !.visibility = "public"]
          [] OTHER -> FoldSet(LAMBDA name, t : Symbol(t, name, ScopeVisibility(t)), counted, SymbolNamed(counted, code))
MaskLine(mode, line) == LexLine(mode, line)      \* maskLine(): literals are skipped whole
SymbolsLine(s, line) ==
    LET lexed == MaskLine(s.mode, line) IN SymbolsOfCode([s EXCEPT !.mode = lexed.mode], lexed.code)
extractSymbols(text) == FoldLeft(SymbolsLine, StartOfFile @@ [visibility |-> "private"], text).found

--------------------------------------------------------------------------------
(* Texts: what comes first, the scopes around, a function with a body of a few       *)
(* lines, the place of its last brace, and a function behind it.                     *)
VariableToken == << <<"int n", ";">> >>
Beginnings ==
    {<<>>, << <<"g", ";">> >>, << <<"g", "{", "call", ";", "n=", ";", "}">> >>, << <<"g">>, <<"{", "n=", ";", "}">> >>,
     << <<"g">>, <<"{">>, <<" ", "call", ";">>, <<"}">> >>,
     << <<"ns", "{", "f", ";", "}">> >>, << <<"class", "{", "}", ";">> >>, << <<"//", "{">> >>,
     << <<"/*">>, <<"{", "call">>, <<"*/">> >>, << <<"/*">>, <<"*/", "g", "{">>, <<" ", "n=", ";">>, <<"}">> >>,
     << <<"#", "call">> >>, << <<"#", "{">> >>, << <<"s=", "R(">>, <<"{">>, <<")R", ";">> >>, << <<"init", ";">> >>,
     << <<"class", "{">>, <<" ", "inner", "{">>, <<" ", "}", ";">>, <<" ", "g", ";">>, <<"}", ";">> >>,
     << <<"class", "{">>, <<" ", "private:">>, <<" ", "inner", "{">>, <<" ", "}", ";">>, <<" ", "g", ";">>, <<"}", ";">> >>}
OpeningsOfHead ==
    {<< <<"f", "{">> >>, << <<"f">>, <<"{">> >>, << <<"C::m", "{">> >>, << <<" ", "C", "{">> >>, << <<" ", "C">>, <<" ", "{">> >>,
     << <<"C", "{">> >>, << <<" ", "~C", "{">> >>, << <<" ", "~C">>, <<" ", "{">> >>}
CodeLines ==
    {<< <<" ", "call", ";">> >>, << <<" ", "n=", ";">> >>, << <<" ", "int n", ";">>, <<" ", "n=", ";">> >>,
     << <<" ", "if", "{", "call", ";", "}">> >>, << <<" ", "if", "{">>, <<" ", "n=", ";">>, <<" ", "}">>, <<" ", "call", ";">> >>,
     << <<" ", "if", "{", "self", ";", "}">> >>, << <<" ", "self", ";">> >>, << <<" ", "ret", ";">> >>,
     << <<" ", "call", ";", "//", "}">> >>, << <<" ", "/*", "}", "*/", "n=", ";">> >>, << <<" ", "'{'", "call", ";">> >>,
     << <<" ", "'//'", "n=", ";">> >>, << <<" ", "s=", "'call'", ";">> >>, << <<" ", "own", ";", "obj", ";", "o.n=", ";">> >>,
     << <<" ", "goto", ";">> >>, << <<" ", "/*">>, <<" ", "*/", "n=", ";", "call", ";">> >>,
     << <<" ", "s=", "R(">>, <<"}">>, <<")R", ";", "call", ";">> >>}
InScopeLines(scope, lines) ==
    CASE scope = "namespace" -> << <<"ns", "{">> >> \o lines \o << <<"}">> >>
      [] scope = "class" -> << <<"class", "{">> >> \o lines \o << <<"}", ";">> >>
      [] scope = "both" -> << <<"ns", "{">>, <<"class", "{">> >> \o lines \o << <<"}", ";">>, <<"}">> >>
      [] OTHER -> lines
Ended(end, lines) ==      \* the brace below the body, or beside its last statement
    IF end = "below" THEN Append(lines, <<"}">>) ELSE [lines EXCEPT ![Len(lines)] = Append(@, "}")]
TextOf(r) ==
    r.first
    \o InScopeLines(r.scope, Ended(r.end, (IF r.end = "line" THEN <<FlattenSeq(r.head) \o FlattenSeq(r.body)>> ELSE r.head \o r.body)))
    \o << <<"g", "{">>, <<" ", "call", ";">>, <<" ", "n=", ";">>, <<"}">> >>
OneLine(r) ==      \* can be written in one line
    Len(r.body) = 1 /\ ~Holds(r.body[1], "//")
IsLinesRequest ==
    \E first \in {<<>>} \cup {VariableToken \o lines : lines \in Beginnings}, scope \in {"", "namespace", "class", "both"},
       head \in OpeningsOfHead, body \in CodeLines, end \in {"below", "beside", "line"} :
         /\ request = [kind |-> "lines", first |-> first, scope |-> scope, head |-> head, body |-> body, end |-> end]
         /\ scope \in {"class", "both"} \/ FirstWord(head[1])[1] \in {"f", "C::m"}
         /\ scope \notin {"class", "both"} \/ head[1] # <<"C::m", "{">>
         /\ end = "line" => OneLine(request)
         /\ end = "beside" => ~Holds(Last(body), "//")
LinesAnswer(r) ==
    LET text == TextOf(r) IN <<extractCallSites(text), extractCallEdges(text), extractSymbolAccesses(text), extractSymbols(text)>>

--------------------------------------------------------------------------------
(* The layouts that one of the scanners misreads.                                    *)
HasHead(line, heads) == \E t \in heads : StartsWith(line, t)
Balanced(line) ==
    LET code == LexLine("code", line).code IN Holds(code, "{") /\ Count(code, "{") = Count(code, "}")
CodeBehind(line) ==      \* the end of a comment or a raw string of an earlier line
    \E mark \in {<<"/*", "*/">>, <<"R(", ")R">>} :
        Holds(line, mark[2]) /\ ~Holds(line, mark[1]) /\ Range(line) \ {" ", ";", mark[2]} # {}
ClosesBeside(line) ==
    LET code == LexLine("code", line).code IN Count(code, "}") > Count(code, "{") /\ ~HasHead(code, {"}"})
Shows(line, layout) ==
    CASE layout = "prototype" -> HasHead(line, Typed) /\ Holds(line, ";") /\ ~Holds(line, "{")
      [] layout = "brace in the next line" -> HasHead(line, Typed) /\ ~Holds(line, ";") /\ ~Holds(line, "{")
      [] layout = "destructor in two lines" -> HasHead(line, {"~C"}) /\ ~Holds(line, "{")
      [] layout = "function in one line" -> HasHead(line, FunctionHeads \cup {"{"}) /\ Balanced(line)
      [] layout = "scope in one line" -> HasHead(line, {"ns", "class"}) /\ Balanced(line)
      [] layout = "brace beside a statement" -> ClosesBeside(line)
      [] layout = "recursion beside a brace" -> Holds(line, "self") /\ Holds(line, "{")
      [] layout = "code behind a comment" -> CodeBehind(line)
      [] layout = "constructor at the margin" -> HasHead(line, {"C"}) /\ ~Indented(line)
      [] layout = "member outside of its class" -> Holds(line, "C::m")
      [] layout = "destructor" -> Holds(line, "~C")
      [] layout = "initializer" -> Holds(line, "init")
      [] layout = "call in a literal" -> Holds(line, "'call'")
      [] layout = "comment in a literal" -> Holds(line, "'//'")
      [] layout = "returned call" -> Holds(line, "ret")
      [] layout = "member behind a nested class" -> Holds(line, "inner")
      [] OTHER -> layout = "local variable" /\ Indented(line) /\ Holds(line, "int n")
Unscoped == {"scope in one line", "member outside of its class"}
MisreadForSites ==
    Unscoped \cup {"function in one line", "prototype", "initializer", "destructor in two lines", "call in a literal",
                   "code behind a comment", "brace beside a statement"}
MisreadForEdges ==
    Unscoped \cup {"function in one line", "constructor at the margin", "destructor", "recursion beside a brace",
                   "code behind a comment", "brace beside a statement"}
MisreadForAccesses ==
    Unscoped \cup {"constructor at the margin", "destructor", "brace in the next line", "comment in a literal", "local variable",
                   "brace beside a statement"}
MisreadForSymbols == Unscoped \cup {"member behind a nested class", "returned call"}

LayoutsOf(text) ==
    {layout \in MisreadForSites \cup MisreadForEdges \cup MisreadForAccesses \cup MisreadForSymbols :
       \E line \in Range(text) : Shows(line, layout)}

(* Each scanner finds what the text has, with the line and with the function and the *)
(* scopes it is in, whatever comments, literals, braces and layouts come before it   *)
(* or stand around it, but for the layouts listed for that scanner.                  *)
ScannersFollowTheScopes ==
    Answered("lines") =>
        LET text == TextOf(request)
            layouts == LayoutsOf(text)
            meant == MeantLines(text)
        IN  /\ layouts \cap MisreadForSites = {} => reply[1] = meant.sites
            /\ layouts \cap MisreadForEdges = {} => reply[2] = meant.edges
            /\ layouts \cap MisreadForAccesses = {} => reply[3] = meant.writes
            /\ layouts \cap MisreadForSymbols = {} => reply[4] = meant.symbols
================================================================================
