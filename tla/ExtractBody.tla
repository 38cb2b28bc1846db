------------------------------- MODULE ExtractBody -------------------------------
(* The statements of a C++ function on their way into the transpile model          *)
(* (convertStmt(), convertCompoundBody() and convertFunction() of                  *)
(* topo-check/extractor/main.cpp).  The extractor sees libclang's cursors, in      *)
(* which a clause that is absent is simply not among the children.  The body it    *)
(* extracts should do what the source does, or be marked unsupported.              *)
EXTENDS Requests, Integers, Sequences, SequencesExt

(* The reference: C++ statements, and what a function body does: the   *)
(* sequence of the expressions it evaluates, given what its conditions decide.     *)
CONSTANT Nothing      \* an absent clause or initializer; the value of "default"

(* Source and model share these forms.  An expression is the kind of its cursor    *)
(* and a name; "Assignment" is a BinaryOperator whose token is "=".                *)
Expr(kind, name)              == [kind |-> kind, name |-> name]
Block(stmts)                  == [kind |-> "CompoundStmt", stmts |-> stmts]
Decl(vars)                    == [kind |-> "DeclStmt", vars |-> vars]
If(cond, then, else)          == [kind |-> "IfStmt", cond |-> cond, then |-> then, else |-> else]
For(init, cond, inc, body)    == [kind |-> "ForStmt", init |-> init, cond |-> cond, inc |-> inc, body |-> body]
While(cond, body)             == [kind |-> "WhileStmt", cond |-> cond, body |-> body]
DoWhile(body, cond)           == [kind |-> "DoStmt", cond |-> cond, body |-> body]
Switch(subject, stmts)        == [kind |-> "SwitchStmt", subject |-> subject, stmts |-> stmts]
Case(value, sub)              == [kind |-> "CaseStmt", value |-> value, sub |-> sub]
Jump(kind)                    == [kind |-> kind]
Unconverted                   == Expr("Unsupported", "?")    \* in models only

--------------------------------------------------------------------------------
(* Reference: what a body does.  The decisions are the values the conditions and   *)
(* switch subjects will have; a run that needs more of them is stuck and is only   *)
(* compared up to there.                                                           *)
Running(st) == st.exit = ""
Evaluate(e, st) == IF e = Nothing THEN st ELSE [st EXCEPT !.trace = Append(@, e.name)]
Decide(e, st) ==
    IF st.decisions = <<>> THEN [Evaluate(e, st) EXCEPT !.exit = "stuck"]
    ELSE [Evaluate(e, st) EXCEPT !.decisions = Tail(@)]
Absorb(exits, st) == IF st.exit \in exits THEN [st EXCEPT !.exit = ""] ELSE st

(* A switch's body in one line: labels, and the statements they may label.         *)
RECURSIVE Unfold(_)
Unfold(s) == IF s.kind = "CaseStmt" THEN <<[kind |-> "Label", value |-> s.value]>> \o Unfold(s.sub)
             ELSE <<s>>
Entry(line, v) ==      \* the statements from the label for v on
    LET labels(w) == {i \in DOMAIN line : line[i].kind = "Label" /\ line[i].value = w}
        found == IF labels(v) # {} THEN labels(v) ELSE labels(Nothing)
    IN  IF found = {} THEN <<>> ELSE SubSeq(line, CHOOSE i \in found : TRUE, Len(line))

RECURSIVE Run(_, _), RunAll(_, _), Loop(_, _, _, _)
RunAll(stmts, st) == IF stmts = <<>> THEN st ELSE RunAll(Tail(stmts), Run(Head(stmts), st))

Run(s, st) ==
    IF s = Nothing \/ ~Running(st) THEN st ELSE
    CASE s.kind = "Label" -> st
      [] s.kind = "CompoundStmt" -> RunAll(s.stmts, st)
      [] s.kind = "DeclStmt" -> RunAll(s.vars, st)
      [] s.kind \in {"ReturnStmt", "BreakStmt", "ContinueStmt"} -> [st EXCEPT !.exit = s.kind]
      [] s.kind = "IfStmt" ->
            LET t == Decide(s.cond, st)
            IN  IF ~Running(t) THEN t
                ELSE Run(IF Head(st.decisions) = 1 THEN s.then ELSE s.else, t)
      [] s.kind = "WhileStmt" -> Loop(s.cond, Nothing, s.body, st)
      [] s.kind = "DoStmt" ->
            LET t == Absorb({"ContinueStmt"}, Run(s.body, st))
            IN  IF t.exit = "BreakStmt" THEN Absorb({"BreakStmt"}, t)
                ELSE IF Running(t) THEN Loop(s.cond, Nothing, s.body, t) ELSE t
      [] s.kind = "ForStmt" -> Loop(s.cond, s.inc, s.body, Run(s.init, st))
      [] s.kind = "SwitchStmt" ->
            LET t == Decide(s.subject, st)
                line == FlattenSeq([i \in DOMAIN s.stmts |-> Unfold(s.stmts[i])])
            IN  IF ~Running(t) THEN t
                ELSE Absorb({"BreakStmt"}, RunAll(Entry(line, Head(st.decisions)), t))
      [] OTHER -> Evaluate(s, st)

(* An absent condition is true, and still takes a decision, to bound the run.      *)
Loop(cond, inc, body, st) ==
    LET t == Decide(cond, st)
        u == Absorb({"ContinueStmt"}, Run(body, t))
    IN  CASE ~Running(st) -> st
          [] Running(st) /\ ~Running(t) -> t
          [] Running(t) /\ cond # Nothing /\ Head(st.decisions) # 1 -> t
          [] Running(t) /\ (cond = Nothing \/ Head(st.decisions) = 1) ->
               IF u.exit = "BreakStmt" THEN Absorb({"BreakStmt"}, u)
               ELSE Loop(cond, inc, body, IF Running(u) THEN Evaluate(inc, u) ELSE u)

MaxDecisions == 3
Trace(body, decisions) ==
    RunAll(body, [trace |-> <<>>, decisions |-> decisions, exit |-> ""]).trace
BehaveAlike(body1, body2) ==
    \A decisions \in [1 .. MaxDecisions -> {1, 2}] :
        Trace(body1, decisions) = Trace(body2, decisions)

--------------------------------------------------------------------------------
(* Bodies to extract: legal C++, with every clause that may be absent both ways.   *)
Calls(name)   == Expr("CallExpr", name)
Compare(name) == Expr("BinaryOperator", name)
Assign(name)  == Expr("Assignment", name)

Plain   == {Calls("a"), Assign("b"), Expr("LambdaExpr", "l"), Expr("CompoundAssignOperator", "d"),
            Jump("ReturnStmt")}
Looping == {Calls("a"), Jump("BreakStmt"), Jump("ContinueStmt")}
Blocks(S) == S \cup {Block(<<x, y>>) : x \in S, y \in S}

Inits == {Nothing, Decl(<<Compare("i")>>), Assign("i"), Calls("i")}
Conds == {Nothing, Compare("c"), Calls("c")}
Incs  == {Nothing, Expr("UnaryOperator", "n"), Expr("CompoundAssignOperator", "n")}

Decls == {Decl(<<Nothing>>), Decl(<<Calls("i")>>), Decl(<<Calls("i"), Compare("j")>>)}
Ifs(S) == {If(Compare("p"), x, y) : x \in S, y \in S \cup {Nothing}}
Loops(S) == {While(Compare("w"), x) : x \in S} \cup {DoWhile(x, Compare("w")) : x \in S}
            \cup {For(i, c, n, x) : i \in Inits, c \in Conds, n \in Incs, x \in S}

CaseBodies == {Calls("a"), Jump("BreakStmt"), Block(<<Calls("a"), Jump("BreakStmt")>>)}
Labelled(v) == {Case(v, s) : s \in CaseBodies}
               \cup {Case(v, Case(w, Calls("s"))) : w \in {1, 2, Nothing} \ {v}}
Switches == {Switch(Calls("v"), <<x, Calls("b"), y>>) : x \in Labelled(1), y \in Labelled(Nothing)}
            \cup {Switch(Calls("v"), <<x, Jump("BreakStmt"), y>>) : x \in Labelled(Nothing), y \in Labelled(2)}
Distinct(s) == s \in Switches =>
    LET line == FlattenSeq([i \in DOMAIN s.stmts |-> Unfold(s.stmts[i])])
    IN  \A i, j \in DOMAIN line : (line[i].kind = "Label" /\ line[i] = line[j]) => i = j

Flat == Plain \cup Decls \cup Ifs(Blocks(Plain)) \cup Loops(Blocks(Looping)) \cup {s \in Switches : Distinct(s)}
Inner == {Calls("a"), If(Compare("p"), Jump("BreakStmt"), Nothing), Block(<<Jump("ContinueStmt")>>),
          While(Calls("w"), Jump("BreakStmt")), DoWhile(Calls("a"), Compare("w")),
          Switch(Calls("v"), <<Case(1, Jump("ContinueStmt")), Case(2, Jump("BreakStmt"))>>)}
Nested == Loops({Block(<<x, y>>) : x \in Inner, y \in Inner}) \cup {Block(<<x, y>>) : x \in Plain, y \in Plain}
ExtractRequests == [kind : {"extract"}, body : {<<s, Calls("z")>> : s \in Flat \cup Nested}]

--------------------------------------------------------------------------------
(* libclang: the children of a cursor, absent ones left out.                       *)
Present(clauses) == SelectSeq(clauses, LAMBDA c : c # Nothing)
getChildren(c) ==
    CASE c.kind = "CompoundStmt" -> c.stmts
      [] c.kind = "DeclStmt" -> c.vars
      [] c.kind = "IfStmt" -> Present(<<c.cond, c.then, c.else>>)
      [] c.kind = "ForStmt" -> Present(<<c.init, c.cond, c.inc, c.body>>)
      [] c.kind = "WhileStmt" -> <<c.cond, c.body>>
      [] c.kind = "DoStmt" -> <<c.body, c.cond>>
      [] c.kind = "SwitchStmt" -> <<c.subject, Block(c.stmts)>>

(* convertExpr(), of which TranslateExpr has the rest.  A compound assignment has  *)
(* a case of its own for statements only, an assignment too.                       *)
convertClause(c) == IF c.kind \in {"CallExpr", "BinaryOperator", "UnaryOperator"} THEN c ELSE Unconverted

(* convertStmt(), a definition per group of cases.  A DeclStmt becomes its first   *)
(* declaration, a CompoundStmt that is not a body its first statement.             *)
convertDecl(vars) == Decl(<<IF vars[1] = Nothing THEN Nothing ELSE convertClause(vars[1])>>)
convertExprStmt(c) == IF c.kind \in {"Assignment", "CompoundAssignOperator"} THEN c ELSE convertClause(c)

RECURSIVE convertStmt(_), Body(_)
Body(c) ==         \* convertCompoundBody(), or the one statement that is no block
    Block(IF c.kind = "CompoundStmt" THEN [i \in DOMAIN c.stmts |-> convertStmt(c.stmts[i])]
          ELSE <<convertStmt(c)>>)

convertIfWithoutElse(ch) == If(convertClause(ch[1]), Body(ch[2]), Nothing)      \* mutant
convertIf(ch) ==
    If(convertClause(ch[1]), Body(ch[2]), IF Len(ch) >= 3 THEN Body(ch[3]) ELSE Nothing)

(* The clauses of a for statement are told apart by the kind of the first child,   *)
(* then by position.                                                               *)
convertForNoInit(ch) ==       \* mutant: the declaration is taken for the condition
    LET clause(i) == IF i < Len(ch) THEN convertClause(ch[i]) ELSE Nothing
    IN  For(Nothing, clause(1), clause(2), Body(ch[Len(ch)]))
convertFor(ch) ==
    LET hasInit == Len(ch) > 1 /\ ch[1].kind \in {"DeclStmt", "BinaryOperator", "Assignment"}
        next == IF hasInit THEN 2 ELSE 1
        clause(i) == IF i < Len(ch) THEN convertClause(ch[i]) ELSE Nothing
    IN  For(CASE ~hasInit -> Nothing
              [] hasInit /\ ch[1].kind = "DeclStmt" -> convertStmt(ch[1])
              [] OTHER -> convertClause(ch[1]),
            clause(next), clause(next + 1), Body(ch[Len(ch)]))

(* A case takes its sub-statement and what follows up to the next label; a label   *)
(* directly below a case is skipped, below default it is unsupported.              *)
LabelBody(c) == IF c.value # Nothing /\ c.sub.kind = "CaseStmt" THEN <<>> ELSE Body(c.sub).stmts
KeepsNothingAfter(cases, c) ==      \* mutant: what follows a case's first statement is lost
    IF c.kind = "CaseStmt" THEN Append(cases, Case(c.value, Block(LabelBody(c)))) ELSE cases
AddToSwitch(cases, c) ==
    CASE c.kind = "CaseStmt" -> Append(cases, Case(c.value, Block(LabelBody(c))))
      [] c.kind # "CaseStmt" /\ cases = <<>> -> cases
      [] OTHER -> [cases EXCEPT ![Len(cases)].sub.stmts = Append(@, convertStmt(c))]
convertSwitch(ch) == Switch(convertClause(ch[1]), FoldLeft(AddToSwitch, <<>>, getChildren(ch[2])))

convertStmt(c) ==
    CASE c.kind = "CompoundStmt" -> IF c.stmts = <<>> THEN Unconverted ELSE convertStmt(c.stmts[1])
      [] c.kind = "DeclStmt" -> convertDecl(getChildren(c))
      [] c.kind \in {"ReturnStmt", "BreakStmt", "ContinueStmt"} -> c
      [] c.kind = "IfStmt" -> convertIf(getChildren(c))
      [] c.kind = "ForStmt" -> convertFor(getChildren(c))
      [] c.kind = "WhileStmt" -> While(convertClause(c.cond), Body(c.body))
      [] c.kind = "DoStmt" -> While(convertClause(c.cond), Body(c.body))
      [] c.kind = "SwitchStmt" -> convertSwitch(getChildren(c))
      [] c.kind = "CaseStmt" -> Unconverted
      [] OTHER -> convertExprStmt(c)

(* convertFunction(): the body, and the marks collectUnsupported() finds in it.    *)
RECURSIVE Marks(_)
MarksOfAll(stmts) == FoldLeft(LAMBDA n, s : n + Marks(s), 0, stmts)
ForMarks(s) == MarksOfAll(<<s.init, s.cond, s.inc, s.body>>)
Marks(s) ==
    IF s = Nothing THEN 0 ELSE
    CASE s.kind = "CompoundStmt" -> MarksOfAll(s.stmts)
      [] s.kind = "DeclStmt" -> MarksOfAll(s.vars)
      [] s.kind = "IfStmt" -> MarksOfAll(<<s.cond, s.then, s.else>>)
      [] s.kind = "ForStmt" -> ForMarks(s)
      [] s.kind = "WhileStmt" -> MarksOfAll(<<s.cond, s.body>>)
      [] s.kind = "SwitchStmt" -> Marks(s.subject) + MarksOfAll([i \in DOMAIN s.stmts |-> s.stmts[i].sub])
      [] OTHER -> IF s = Unconverted THEN 1 ELSE 0

convertFunction(body) ==
    LET model == Body(Block(body)).stmts
    IN  [body |-> model, unsupported |-> MarksOfAll(model)]

ExtractAnswer(r) == <<convertFunction(r.body)>>

--------------------------------------------------------------------------------
RECURSIVE Statements(_)      \* a statement and all within it
Statements(s) ==
    {s} \cup
    UNION {Statements(c) : c \in
        CASE s.kind = "CompoundStmt" -> Range(s.stmts)
          [] s.kind = "IfStmt" -> {s.then, s.else} \ {Nothing}
          [] s.kind \in {"ForStmt", "WhileStmt", "DoStmt"} -> {s.body}
          [] s.kind = "SwitchStmt" -> Range(s.stmts)
          [] s.kind = "CaseStmt" -> {s.sub}
          [] OTHER -> {}}

(* What convertStmt() reads as something else, without a mark: a do loop, a second  *)
(* declarator, the rest of a block within a block, a label below a label (which    *)
(* main.cpp:1610-1611 says "will be handled later"), and a for statement whose     *)
(* first child is not the clause its kind suggests.                                *)
Misread(s) ==
    \/ s.kind = "DoStmt"
    \/ s.kind = "DeclStmt" /\ Len(s.vars) > 1
    \/ /\ s.kind \in {"CompoundStmt", "SwitchStmt"}
       /\ \E c \in Range(s.stmts) : c.kind = "CompoundStmt" /\ Len(c.stmts) > 1
    \/ s.kind = "CaseStmt" /\ s.sub.kind = "CaseStmt"
    \/ /\ s.kind = "ForStmt"
       /\ \/ s.init # Nothing /\ s.init.kind # "DeclStmt"
          \/ s.init = Nothing /\ s.cond # Nothing /\ s.cond.kind = "BinaryOperator"
          \/ s.cond = Nothing /\ s.inc # Nothing
Recognised(body) == \A s \in Statements(Block(body)) : ~Misread(s)

(* A function whose list of unsupported parts is empty does what the source does,  *)
(* whatever its conditions decide, if nothing in it is one of the forms above; and *)
(* no body that can reach an unsupported expression has an empty list.             *)
NeverReachesAMark(body) ==
    \A decisions \in [1 .. MaxDecisions -> {1, 2}] : "?" \notin Range(Trace(body, decisions))
UnmarkedBodiesBehaveAlike ==
    Answered("extract") /\ reply[1].unsupported = 0 =>
        /\ NeverReachesAMark(reply[1].body)
        /\ Recognised(request.body) => BehaveAlike(request.body, reply[1].body)
================================================================================
