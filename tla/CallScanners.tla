------------------------------ MODULE CallScanners ------------------------------
(* CppCallSiteExtractor.cpp and CppCallEdgeExtractor.cpp: what a function calls, by  *)
(* regular expressions on single lines and a count of the braces.                    *)
EXTENDS CppLines

(* The fields of `s` are the code's locals: a stack holds names with the depth below *)
(* the brace that opened them, `function` is <<>> outside of functions.              *)
Scope(name, depth) == [name |-> name, depth |-> depth]
StartOfFile ==
    [mode |-> "code", line |-> 0, depth |-> 0, peak |-> 0, namespaces |-> <<>>, classes |-> <<>>,
     function |-> <<>>, functionDepth |-> -1, pending |-> <<>>, exits |-> FALSE, found |-> {}]
Popped(stack, depth) == IF stack # <<>> /\ Last(stack).depth = depth THEN Front(stack) ELSE stack
StackNames(stack) == [i \in DOMAIN stack |-> stack[i].name]
buildQualified(s) == StackNames(s.namespaces) \o StackNames(s.classes) \o s.function
buildGlobalCaller(s) == Append(StackNames(s.namespaces), "global")

(* The line without comments and raw strings, found as the language has them; what   *)
(* is left open goes on behind it.                                                   *)
Effective(line) == LexLine("code", line)

Opened(s) == [s EXCEPT !.depth = @ + 1, !.peak = IF s.depth + 1 > @ THEN s.depth + 1 ELSE @]
Lower(depth) == IF depth = 0 THEN 0 ELSE depth - 1
LeaveScopes(s, depth) ==
    [s EXCEPT !.depth = depth, !.namespaces = Popped(@, depth), !.classes = Popped(@, depth)]
LeavesAtAnyBrace(s) ==      \* mutant: the first brace that closes ends the function
    [LeaveScopes(s, Lower(s.depth)) EXCEPT !.function = <<>>, !.functionDepth = -1]
Closed(s) ==
    LET left == LeaveScopes(s, Lower(s.depth))
    IN  IF s.function # <<>> /\ left.depth = s.functionDepth
        THEN [left EXCEPT !.function = <<>>, !.functionDepth = -1] ELSE left
CountBraces(s, code) ==
    FoldLeft(LAMBDA b, t : CASE t = "{" -> Opened(b) [] t = "}" -> Closed(b) [] OTHER -> b, [s EXCEPT !.peak = s.depth], code)

(* nsRegex and classRegex: nothing more is read in a line that opens one. *)
OpensNamespace(code) == StartsWith(code, "ns") /\ Len(FirstWord(code)) > 1 /\ FirstWord(code)[2] = "{"
OpensClass(code) ==
    /\ \E t \in Structs : StartsWith(code, t)
    /\ \E i \in DOMAIN code : code[i] = "{" /\ \A j \in 1 .. i - 1 : code[j] # ";"
EnterNamespace(s) == [s EXCEPT !.namespaces = Append(@, Scope("n", s.depth - 1))]
EnterClass(s, code) == [s EXCEPT !.classes = Append(@, Scope(StructName(FirstWord(code)[1]), s.depth - 1))]

(* funcDefRegex: words, blanks, a name and parentheses, from the start of the line;  *)
(* two leading blanks count as the words.                                            *)
NamedFunction(code) ==
    LET first == FirstWord(code)[1]
    IN  CASE FirstWord(code) = <<>> -> <<>>
          [] first \in Typed -> <<first>>
          [] first = "ret" -> <<"system">>
          [] ~Indented(code) -> <<>>
          [] first = "C" -> <<"C">>
          [] first = "call" -> <<"system">>
          [] first = "self" -> <<"f">>
          [] OTHER -> <<>>      \* "if" and other keywords are left out by name
EnterFunction(s, name, below) == [s EXCEPT !.function = name, !.functionDepth = below, !.pending = <<>>]
(* A signature of the line before is completed by a brace of this one. *)
TakePending(s, code, below) ==
    IF s.pending # <<>> /\ s.function = <<>> /\ Holds(code, "{") THEN EnterFunction(s, s.pending, below) ELSE s
DefineFunction(s, code, prototype) ==
    LET name == NamedFunction(code)
    IN  CASE s.function # <<>> \/ name = <<>> \/ prototype -> s
          [] Holds(code, "{") -> [s EXCEPT !.function = name, !.functionDepth = s.depth - 1]
          [] OTHER -> [s EXCEPT !.pending = name]
(* ctorDtorRegex, which asks for a brace in the line. *)
DefineSpecialMember(s, code) ==
    LET first == FirstWord(code)[1]
        ours == first = "~C" \/ (first = "C" /\ s.classes # <<>> /\ Last(s.classes).name = "C")
    IN  IF s.function = <<>> /\ s.pending = <<>> /\ FirstWord(code) # <<>> /\ Holds(code, "{") /\ ours
        THEN [s EXCEPT !.function = <<first>>, !.functionDepth = s.depth - 1] ELSE s

(* scanApiCalls() and scanEscapes().  Literals are read like code. *)
ApiCalls == CallToken \cup {"'call'"}
Patterns(code, within) ==
    (IF within /\ \E t \in ApiCalls : Holds(code, t) THEN {"system"} ELSE {}) \cup (IF Holds(code, "goto") THEN {"goto"} ELSE {})
Report(s, caller, patterns) == [s EXCEPT !.found = @ \cup {Site(caller, pattern, s.line) : pattern \in patterns}]
SitesOfCode(s, code) ==
    LET counted == CountBraces(s, code)
        entered == DefineSpecialMember(DefineFunction(TakePending(counted, code, counted.depth - 1), code, FALSE), code)
    IN  CASE OpensNamespace(code) -> EnterNamespace(counted)
          [] counted.function = <<>> /\ OpensClass(code) -> EnterClass(counted, code)
          [] entered.function = <<>> -> Report(entered, buildGlobalCaller(entered), Patterns(code, FALSE))
          [] entered.depth > entered.functionDepth -> Report(entered, buildQualified(entered), Patterns(code, TRUE))
          [] OTHER -> entered

(* scanForCalls: the name in front of each parenthesis.  A line with a brace and the *)
(* current function's name is taken for its head.                                    *)
CallNames(code) ==
    UNION {CASE t \in CallToken -> {<<"system">>} [] t = "own" -> {<<"app", "system">>} [] t = "self" -> {<<"f">>}
             [] t \in Typed -> {<<t>>} [] t \in BareToken -> {<<"C">>} [] t = "C::m" -> {<<"C", "m">>} [] OTHER -> {} : t \in Range(code)}
EdgesOfCode(s, code) ==
    LET counted == CountBraces(s, code)
        entered == DefineFunction(TakePending(counted, code, counted.depth - 1), code, code # <<>> /\ Last(code) = ";")
        names == {name \in CallNames(code) : ~(<<Last(name)>> = entered.function /\ Holds(code, "{"))}
    IN  CASE OpensNamespace(code) -> EnterNamespace(counted)
          [] counted.function = <<>> /\ OpensClass(code) -> EnterClass(counted, code)
          [] entered.function # <<>> /\ entered.depth > entered.functionDepth -> Report(entered, buildQualified(entered), names)
          [] OTHER -> entered

(* One line: within a comment or a raw string only its end is looked for. *)
Skips(s, line) ==
    [s EXCEPT !.mode = IF (@ = "raw" /\ Holds(line, ")R")) \/ (@ = "block" /\ Holds(line, "*/")) THEN "code" ELSE @]
WithMode(s, line) == [s EXCEPT !.mode = Effective(line).mode]
SitesLine(before, line) ==
    LET s == [before EXCEPT !.line = @ + 1]
    IN  CASE s.mode # "code" -> Skips(s, line)
          [] StartsWith(line, "//") -> s
          [] StartsWith(line, "#") -> Report(s, <<"macro">>, Patterns(line, TRUE))
          [] OTHER -> SitesOfCode(WithMode(s, line), Effective(line).code)
EdgesLine(before, line) ==
    LET s == [before EXCEPT !.line = @ + 1]
    IN  CASE s.mode # "code" -> Skips(s, line)
          [] StartsWith(line, "//") \/ StartsWith(line, "#") -> s
          [] OTHER -> EdgesOfCode(WithMode(s, line), Effective(line).code)
extractCallSites(text) == FoldLeft(SitesLine, StartOfFile, text).found
extractCallEdges(text) == FoldLeft(EdgesLine, StartOfFile, text).found
================================================================================
