--------------------------------- MODULE CppStub ---------------------------------
(* topo-check/analysis/stub: the body of a function is replaced by a stub, found by *)
(* the function's name (CppStubGenerator.cpp).  A position is 0 where the code has  *)
(* std::string::npos.                                                               *)
EXTENDS SourceText

FirstNonBlank(text, i) == FirstIn({j \in i .. Len(text) : text[j] \notin Blanks}, text)

(* What may stand between the parameters and the body.  A trailing return type goes *)
(* on to the next brace or semicolon outside of "<>".                               *)
RECURSIVE PastAngles(_, _, _)
PastAngles(text, i, depth) ==
    IF i > Len(text) \/ depth = 0 THEN i
    ELSE PastAngles(text, i + 1, CASE text[i] = "<" -> depth + 1 [] text[i] = ">" -> depth - 1 [] OTHER -> depth)
RECURSIVE PastTrailing(_, _, _)
PastTrailing(text, i, depth) ==
    IF i > Len(text) THEN i
    ELSE CASE text[i] = "<" -> PastTrailing(text, i + 1, depth + 1)
           [] text[i] = ">" -> PastTrailing(text, i + 1, depth - 1)
           [] text[i] \in {"{", ";"} /\ depth <= 0 -> i
           [] OTHER -> PastTrailing(text, i + 1, depth)
RECURSIVE PastQualifiers(_, _)
PastQualifiers(text, i) ==
    LET next == CharAt(text, i + 1)
    IN  IF i > Len(text) THEN i
        ELSE CASE text[i] = "-" /\ next = ">" -> PastQualifiers(text, PastTrailing(text, i + 2, 0))
               [] text[i] = ":" /\ next = ":" -> PastQualifiers(text, i + 2)
               [] text[i] = "<" -> PastQualifiers(text, PastAngles(text, i + 1, 1))
               [] text[i] \in Blanks \cup {"&", "*", ","} \/ WordChar(text[i]) -> PastQualifiers(text, i + 1)
               [] OTHER -> i

RECURSIVE BodyStartFrom(_, _, _)
BodyStartFrom(text, name, start) ==
    LET names == {i \in start .. Len(text) : text[i] = name}
        at == Min(names)
        paren == FirstNonBlank(text, at + 1)
        closing == Matching(text, paren + 1, 1, "(", ")")
        stop == PastQualifiers(text, closing + 1)
    IN  IF names = {} THEN 0
        ELSE IF CharAt(text, paren) # "(" \/ isInsideStringOrComment(text, at) THEN BodyStartFrom(text, name, at + 1)
        ELSE IF closing = 0 THEN 0
        ELSE IF CharAt(text, stop) = "{" THEN stop
        ELSE BodyStartFrom(text, name, stop)
findFunctionBodyStart(text, name) == BodyStartFrom(text, name, 1)

(* isVoidReturn(): back from the body to the parameters, to the name, and to the    *)
(* last semicolon or brace; literals and comments are not told apart.               *)
LastOf(found) == IF found = {} THEN 0 ELSE Max(found)
RECURSIVE OpenParenBefore(_, _, _)
OpenParenBefore(text, i, depth) ==      \* i is the last position looked at
    IF depth = 0 \/ i = 0 THEN i
    ELSE LET d == CASE text[i - 1] = ")" -> depth + 1 [] text[i - 1] = "(" -> depth - 1 [] OTHER -> depth
         IN  IF i = 1 THEN 0 ELSE OpenParenBefore(text, i - 1, d)
Trimmed(text) ==
    LET marks == {i \in DOMAIN text : text[i] \notin Blanks}
    IN  IF marks = {} THEN <<>> ELSE SubSeq(text, Min(marks), Max(marks))
LeadingKeywords ==
    {"static", "virtual", "inline", "constexpr", "consteval", "explicit", "friend", "extern", "noexcept"}
RECURSIVE WithoutKeywords(_)
WithoutKeywords(type) ==
    IF type # <<>> /\ type[1] \in LeadingKeywords THEN WithoutKeywords(Trimmed(Tail(type))) ELSE type
BehindTemplates(text) ==      \* what follows the last ">"
    LET Add(s, c) ==
          CASE c = "<" -> [s EXCEPT !.angle = @ + 1]
            [] c = ">" -> [angle |-> IF s.angle > 0 THEN s.angle - 1 ELSE 0, out |-> <<>>]
            [] OTHER -> IF s.angle = 0 THEN [s EXCEPT !.out = Append(@, c)] ELSE s
    IN  FoldLeft(Add, [angle |-> 0, out |-> <<>>], text).out
Boundaries == {";", "{", "}"}
OnlySemicolons(text, name) ==      \* mutant: a brace does not end a declaration
    LastOf({i \in 1 .. name - 1 : text[i] = ";"})
DeclarationStart(text, name) == LastOf({i \in 1 .. name - 1 : text[i] \in Boundaries})
isVoidReturn(text, body) ==
    LET closing == LastOf({i \in 1 .. body - 1 : text[i] = ")"})
        open == OpenParenBefore(text, closing, 1)
        name == LastOf({i \in 1 .. open - 1 : text[i] \notin Blanks})
        area == SubSeq(text, DeclarationStart(text, name) + 1, name - 1)
    IN  /\ closing # 0 /\ open # 0 /\ name # 0
        /\ WordChar(text[name])
        /\ WithoutKeywords(Trimmed(BehindTemplates(Trimmed(area)))) = <<"void">>

StubBody(void) == IF void THEN <<"{", " ", "}">> ELSE <<"{", " ", "return", " ", "{", "}", ";", " ", "}">>
Stubbed(text, name) ==      \* stubFunction(), but for its reads and writes
    LET start == findFunctionBodyStart(text, name)
        end == findMatchingBrace(text, start)
    IN  IF start = 0 \/ end = 0 THEN <<>>
        ELSE <<SubSeq(text, 1, start - 1) \o StubBody(isVoidReturn(text, start)) \o SubSeq(text, end + 1, Len(text))>>

--------------------------------------------------------------------------------
(* A file in pieces: what stands before, what is written right above the function,  *)
(* its return type, name, parameters and qualifiers, its body, and what follows.    *)
Earlier ==
    {<<>>, <<"int", " ", "f", "(", "int", ")", ";", "\n">>,
     <<"void", " ", "g", "(", ")", "{", "}", "\n">>, <<"int", " ", "g", "(", ")", "{", "f", "(", "1", ")", ";", "}">>,
     <<"void", " ", "g", "(", ")", "{", "if", "(", "f", "(", "1", ")", ")", "{", "}", "}">>,
     <<"A", "(", ")", ":", "f", "(", "1", ")", " ", "{", "}">>,
     <<"/", "*", "f", "(", ")", "{", "}", "*", "/", "\n", ";">>, <<"T", " ", "s", "=", "\"", "f", "(", ")", "{", "\"", ";">>,
     <<"T", " ", "c", "=", "'", "\\", "\\", "'", ";">>, <<"T", " ", "c", "=", "u8", "'", "e", "'", ";">>,
     <<"int", " ", "n", "=", "1", "'", "1", ";">>}
Prefaces ==
    {<<>>, <<"/", "/", " ", "x", "\n">>, <<"/", "*", "x", "*", "/", " ">>, <<"#", "include", "<", "x", ">", "\n">>,
     <<"public", ":", " ">>}
Returns ==
    {<<"int">>, <<"void">>, <<"static", " ", "void">>, <<"void", " ", "*">>, <<"T", "<", "void", "(", ")", ">">>,
     <<"template", "<", "T", ">", " ", "void">>, <<"auto">>}
Parameters ==
    {<<>>, <<"void", "*", " ", "p">>, <<"int", " ", "n", "=", "g", "(", "1", ")">>, <<"int", " ", "n", "=", "1", "'", "1">>,
     <<"T", " ", "c", "=", "'", ")", "'">>, <<"/", "*", ")", "*", "/", "int", " ", "n">>}
Qualifiers ==
    {<<>>, <<" ", "const", " ">>, <<" ", "noexcept", " ">>, <<" ", "-", ">", " ", "int">>, <<"-", ">", "T", "<", "{", "}", ">">>,
     <<" ", "-", ">", " ", "void", " ">>}
BodyTexts ==
    {<<>>, <<"{", "}", "{", "}">>, <<"T", " ", "c", "=", "'", "}", "'", ";">>, <<"g", "(", "\"", "}", "\\", "\"", "\"", ")", ";">>,
     <<"/", "/", "}", "\n">>, <<"/", "*", "}", "*", "/">>, <<"return", " ", "1", "'", "1", ";">>,
     <<"T", " ", "c", "=", "u8", "'", "e", "'", ";">>, <<"T", " ", "c", "=", "'", "\\", "\\", "'", ";">>}
Following == {<<>>, <<"\n", "void", " ", "g", "(", ")", "{", "}">>, <<"T", " ", "c", "=", "'", "}", "'", ";">>}

StubRequest(before, preface, ret, scope, params, qualifiers, body, after) ==
    [kind |-> "stub", before |-> before, preface |-> preface, ret |-> ret, scope |-> scope,
     params |-> params, qualifiers |-> qualifiers, body |-> body, after |-> after]
IsStubRequest ==
    \/ \E before \in Earlier, preface \in Prefaces, ret \in Returns, scope \in {<<>>, <<"A", ":", ":">>}, q \in Qualifiers :
         /\ q \in {<<>>, <<" ", "const", " ">>, <<" ", "noexcept", " ">>} \/ ret = <<"auto">>
         /\ request = StubRequest(before, preface, ret, scope, <<>>, q, <<>>, <<>>)
    \/ \E before \in Earlier, ret \in {<<"int">>, <<"void">>}, params \in Parameters, body \in BodyTexts, after \in Following :
         request = StubRequest(before, <<>>, ret, <<>>, params, <<>>, body, after)
UpToBody(r) ==
    r.before \o r.preface \o r.ret \o <<" ">> \o r.scope \o <<"f", "(">> \o r.params \o <<")">> \o r.qualifiers
SourceOf(r) == UpToBody(r) \o <<"{">> \o r.body \o <<"}">> \o r.after
StubAnswer(r) == <<Stubbed(SourceOf(r), "f")>>

(* What is stubbed wrongly: a member of an initializer list is taken for the        *)
(* function; a void function is given a value if its name is qualified, if its      *)
(* return type trails, if a parenthesis of its parameters is in a comment or a      *)
(* literal, or if a comment or a label stands right above it; and what SourceText   *)
(* names, in what stands before or in the body.                                     *)
IsVoid(r) ==
    \/ r.ret \in {<<"void">>, <<"static", " ", "void">>, <<"template", "<", "T", ">", " ", "void">>}
    \/ r.qualifiers = <<" ", "-", ">", " ", "void", " ">>
Initializes(r) == r.before = <<"A", "(", ")", ":", "f", "(", "1", ")", " ", "{", "}">>
GivenAValue(r) ==
    /\ IsVoid(r)
    /\ \/ r.scope # <<>> \/ r.ret = <<"auto">>
       \/ \E i \in DOMAIN r.params \ InCode(r.params) : r.params[i] \in {"(", ")"}
       \/ r.preface \notin {<<>>, <<"#", "include", "<", "x", ">", "\n">>} /\ r.ret # <<"template", "<", "T", ">", " ", "void">>
(* A stub replaces the body of the function that is named, and nothing else: it     *)
(* returns a value exactly if the function does, but for the forms above            *)
(* (CppStubGenerator.h:25-33).                                                      *)
StubReplacesTheBody ==
    Answered("stub") =>
        LET r == request
        IN  \/ reply[1] = <<>> \/ Initializes(r) \/ GivenAValue(r)
            \/ BackslashLast(r.before) \/ HexCharacter(SourceOf(r))
            \/ reply[1] = <<UpToBody(r) \o StubBody(IsVoid(r)) \o r.after>>
================================================================================
