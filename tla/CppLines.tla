-------------------------------- MODULE CppLines --------------------------------
(* C++ texts as the scanners of topo-check/analysis/extract see them, line by line,  *)
(* and what is in them.  A line is a sequence of tokens, each standing for a piece   *)
(* of text none of the scanners' expressions cuts in two:                            *)
(*   " "  two blanks              f, g  int f()             C, ~C, C::m  their heads *)
(*   ns   namespace n             class, inner  struct C, D private:  access         *)
(*   call system("x")             ret   return system("x")  init  int x = system(1)  *)
(*   own  app::system("x")        obj   o.system("x")       self  f(1)               *)
(*   n=   n = 1    o.n=  o.n = 1  int n int n = 1           s=    s =                *)
(*   if   if (n)   goto  goto x   '{', '//', 'call'  strings that hold these         *)
(*   R(   R"(      )R    )"       #     #define M           others as they are.      *)
EXTENDS Requests, Integers, FiniteSets, Sequences, SequencesExt

Typed == {"f", "g"}                    \* heads with a return type
BareToken == {"C", "~C"}               \* of a constructor and of a destructor
FunctionHeads == Typed \cup BareToken \cup {"C::m"}
Structs == {"class", "inner"}
StructName(t) == IF t = "class" THEN "C" ELSE "D"
CallToken == {"call", "ret", "init"}   \* of system()
FirstWord(line) == IF line # <<>> /\ line[1] = " " THEN Tail(line) ELSE line
StartsWith(line, t) == FirstWord(line) # <<>> /\ FirstWord(line)[1] = t
Indented(line) == line # <<>> /\ line[1] = " "
Holds(line, t) == t \in Range(line)

--------------------------------------------------------------------------------
(* What the language makes of a line that begins within `mode`: a comment, a raw     *)
(* string or code.                                                                   *)
LexToken(s, t) ==
    CASE s.mode = "line" -> s
      [] s.mode = "block" -> IF t = "*/" THEN [s EXCEPT !.mode = "code"] ELSE s
      [] s.mode = "raw" -> IF t = ")R" THEN [s EXCEPT !.mode = "code"] ELSE s
      [] t = "//" -> [s EXCEPT !.mode = "line"]
      [] t = "/*" -> [s EXCEPT !.mode = "block"]
      [] t = "R(" -> [s EXCEPT !.mode = "raw"]
      [] OTHER -> [s EXCEPT !.code = Append(@, t)]
LexLine(mode, line) ==
    LET s == FoldLeft(LexToken, [mode |-> mode, code |-> <<>>], line)
    IN  [s EXCEPT !.mode = IF @ = "line" THEN "code" ELSE @]

(* Scopes: a frame for each open brace; `head` is what the next one opens. *)
Frame(kind, name) == [kind |-> kind, name |-> name, visibility |-> "public"]
NoHead == Frame("block", "")
HeadOf(t) ==
    CASE t \in FunctionHeads -> Frame("function", t)
      [] t \in Structs -> Frame("class", StructName(t))
      [] t = "ns" -> Frame("namespace", "n")
      [] OTHER -> NoHead
ScopeNames(frames) ==
    LET named == SelectSeq(frames, LAMBDA frame : frame.kind # "block")
    IN  [i \in DOMAIN named |-> named[i].name]
GlobalOf(frames) == Append(ScopeNames(SelectSeq(frames, LAMBDA frame : frame.kind = "namespace")), "global")
WithinFunction(frames) == \E i \in DOMAIN frames : frames[i].kind = "function"
Visibility(frames) ==
    IF frames # <<>> /\ Last(frames).kind = "class" THEN Last(frames).visibility ELSE ""
Declared(frames, t) ==      \* a symbol: a function or a class that is not local
    IF HeadOf(t).kind \in {"function", "class"} /\ ~WithinFunction(frames)
    THEN {[name |-> Append(ScopeNames(frames), HeadOf(t).name), visibility |-> IF t \in Structs THEN "" ELSE Visibility(frames)]}
    ELSE {}
Site(caller, callee, line) == [caller |-> caller, callee |-> callee, line |-> line]
Callees(t) ==
    CASE t \in CallToken -> {<<"system">>} [] t = "own" -> {<<"app", "system">>} [] t = "self" -> {<<"f">>} [] OTHER -> {}
Dangers(t) == CASE t \in CallToken -> {"system"} [] t = "goto" -> {"goto"} [] OTHER -> {}

MeetCode(s, t) ==
    LET caller == ScopeNames(s.frames)
        inside == WithinFunction(s.frames)
        met == [s EXCEPT !.symbols = @ \cup Declared(s.frames, t),
                         !.sites = @ \cup {Site(IF inside THEN caller ELSE GlobalOf(s.frames), danger, s.line) : danger \in Dangers(t)},
                         !.edges = @ \cup (IF inside THEN {Site(caller, callee, s.line) : callee \in Callees(t)} ELSE {}),
                         !.writes = @ \cup (IF inside /\ ~s.shadowed /\ s.global /\ t = "n=" THEN {Site(caller, "n", s.line)} ELSE {}),
                         !.global = @ \/ (~inside /\ t = "int n"),
                         !.shadowed = @ \/ (inside /\ t = "int n")]
    IN  CASE t = "{" -> [met EXCEPT !.frames = Append(@, s.head), !.head = NoHead]
          [] t = "}" -> [met EXCEPT !.frames = Front(@), !.head = NoHead,
                                    !.shadowed = @ /\ WithinFunction(Front(s.frames))]
          [] t = "private:" -> [met EXCEPT !.frames[Len(s.frames)].visibility = "private"]
          [] t = ";" -> [met EXCEPT !.head = NoHead]
          [] HeadOf(t) # NoHead -> [met EXCEPT !.head = HeadOf(t)]
          [] OTHER -> met
MeetLine(s, line) ==
    LET lexed == LexLine(s.mode, line)
        next == [s EXCEPT !.line = @ + 1, !.mode = lexed.mode]
    IN  IF s.mode = "code" /\ StartsWith(line, "#")      \* the macro's body, as code of the macro
        THEN [next EXCEPT !.sites = @ \cup {Site(<<"macro">>, danger, next.line) : danger \in UNION {Dangers(t) : t \in Range(line)}}]
        ELSE FoldLeft(MeetCode, next, lexed.code)
MeantLines(text) ==
    FoldLeft(MeetLine, [mode |-> "code", line |-> 0, frames |-> <<>>, head |-> NoHead, global |-> FALSE, shadowed |-> FALSE,
                        sites |-> {}, edges |-> {}, writes |-> {}, symbols |-> {}], text)
================================================================================
