------------------------------ MODULE TranslateExpr ------------------------------
(* Expressions on their way from C++ to C++: topo-extract-cpp turns the cursors of *)
(* a parsed expression into the transpile model (convertExpr() of                  *)
(* topo-check/extractor/main.cpp), and CppEmitter::emitExpr() prints a model.  A   *)
(* request is a source expression to translate, or a model to print; models may    *)
(* come from the extractors of other languages.                                    *)
EXTENDS Requests, Integers, Sequences, SequencesExt

(* The reference: C++ expressions as trees, as text, and what the    *)
(* compiler and libclang make of a text.  Only the syntax that decides how         *)
(* expressions nest: one member stands for each class, "-" for the binary          *)
(* operators, "+" for those that a class defines, and "!" for the unary ones that  *)
(* never join with what follows; f stands for all functions, T for all types.      *)
CONSTANT Absent         \* no receiver

Ref == [k |-> "ref"]    \* a name, a number, this, nullptr
Str == [k |-> "str"]    \* of characters, or one of them
Unary(op, e)      == [k |-> "unary", op |-> op, e |-> e]
Binary(l, r)      == [k |-> "binary", l |-> l, r |-> r]
Compound(l, r)    == [k |-> "compound", l |-> l, r |-> r]     \* l -= r
Ternary(c, t, f)  == [k |-> "ternary", c |-> c, t |-> t, f |-> f]
Call(obj, args)   == [k |-> "call", obj |-> obj, args |-> args]
Construct(args)   == [k |-> "construct", args |-> args]
Member(obj)       == [k |-> "member", obj |-> obj]
Index(obj, i)     == [k |-> "index", obj |-> obj, i |-> i]
Throw(e)          == [k |-> "throw", e |-> e]
(* In source text only. *)
Paren(e)          == [k |-> "paren", e |-> e]
Cast(e)           == [k |-> "cast", e |-> e]
Arrow(obj)        == [k |-> "arrow", obj |-> obj]
New(args)         == [k |-> "new", args |-> args]             \* of a type that is no class
Overloaded(l, r)  == [k |-> "overloaded", l |-> l, r |-> r]   \* l + r
Instance(args)    == [k |-> "instance", args |-> args]        \* f<T>(args)
Field             == [k |-> "field"]                          \* a member of *this
Qualified         == [k |-> "qualified"]                      \* N::x
Copied            == [k |-> "copied"]                         \* an argument of a class type, by value
(* In models only. *)
OfPointer(args)   == [k |-> "pointer", args |-> args]         \* a Construct of type T*
Unsupported       == [k |-> "unsupported"]
Rejected          == [k |-> "rejected"]                       \* not an expression

(* The trees below a node. *)
Operands(e) ==
    CASE e.k \in {"unary", "throw", "paren", "cast"} -> <<e.e>>
      [] e.k \in {"binary", "compound", "overloaded"} -> <<e.l, e.r>>
      [] e.k = "ternary" -> <<e.c, e.t, e.f>>
      [] e.k = "call" -> (IF e.obj = Absent THEN <<>> ELSE <<e.obj>>) \o e.args
      [] e.k \in {"construct", "new", "instance", "pointer"} -> e.args
      [] e.k \in {"member", "arrow"} -> <<e.obj>>
      [] e.k = "index" -> <<e.obj, e.i>>
      [] OTHER -> <<>>

RECURSIVE Nodes(_)
Nodes(e) == {e} \cup UNION {Nodes(Operands(e)[i]) : i \in DOMAIN Operands(e)}

--------------------------------------------------------------------------------
(* A text is a sequence of glyphs; Lex() joins the longest operators it can.     *)
Lex(text) ==
    FoldLeft(LAMBDA st, g :
        CASE g = " " -> [st EXCEPT !.open = FALSE]
          [] st.open /\ g = "-" -> [tokens |-> Append(Front(st.tokens), "--"), open |-> FALSE]
          [] st.open /\ g = ">" -> [tokens |-> Append(Front(st.tokens), "->"), open |-> FALSE]
          [] st.open /\ g = "=" -> [tokens |-> Append(Front(st.tokens), "-="), open |-> FALSE]
          [] OTHER -> [tokens |-> Append(st.tokens, g), open |-> g = "-"],
        [tokens |-> <<>>, open |-> FALSE], text).tokens

Parsed(tree, at) == [tree |-> tree, at |-> at]
Broken(ts) == Parsed(Rejected, Len(ts) + 2)     \* no token follows, and it is not the end
Tok(ts, i) == IF i \in DOMAIN ts THEN ts[i] ELSE ""

RECURSIVE PAssign(_, _), PTernary(_, _), PBinary(_, _), PUnary(_, _), PPostfix(_, _),
          PPrimary(_, _), PArgs(_, _, _, _)

NodeOver(Node(_), p) == Parsed(Node(p.tree), p.at)
Joined(Node(_, _), l, r) == Parsed(Node(l.tree, r.tree), r.at)

Assigned(ts, l) == IF Tok(ts, l.at) = "-=" THEN Joined(Compound, l, PAssign(ts, l.at + 1)) ELSE l
PAssign(ts, i) ==
    IF Tok(ts, i) = "throw" THEN NodeOver(Throw, PAssign(ts, i + 1)) ELSE Assigned(ts, PTernary(ts, i))

Chosen(c, t, f) == Parsed(Ternary(c.tree, t.tree, f.tree), f.at)
Alternatives(ts, c, t) == IF Tok(ts, t.at) = ":" THEN Chosen(c, t, PAssign(ts, t.at + 1)) ELSE Broken(ts)
Questioned(ts, c) == IF Tok(ts, c.at) = "?" THEN Alternatives(ts, c, PAssign(ts, c.at + 1)) ELSE c
PTernary(ts, i) == Questioned(ts, PBinary(ts, PUnary(ts, i)))

PBinary(ts, l) ==     \* left-associative
    CASE Tok(ts, l.at) = "-" -> PBinary(ts, Joined(Binary, l, PUnary(ts, l.at + 1)))
      [] Tok(ts, l.at) = "+" -> PBinary(ts, Joined(Overloaded, l, PUnary(ts, l.at + 1)))
      [] OTHER -> l

Prefixed(op, e) == Parsed(Unary(op, e.tree), e.at)
PUnary(ts, i) ==
    CASE Tok(ts, i) \in {"-", "!", "*"} -> Prefixed(Tok(ts, i), PUnary(ts, i + 1))
      [] Tok(ts, i) = "--" -> Prefixed("pre--", PUnary(ts, i + 1))
      [] Tok(ts, i) = "new" -> NodeOver(New, PArgs(ts, i + 3, <<>>, ")"))
      [] OTHER -> PPostfix(ts, PPrimary(ts, i))

Called(obj, args) == Parsed(Call(obj, args.tree), args.at)
Indexed(ts, l, i) == IF Tok(ts, i.at) = "]" THEN Parsed(Index(l.tree, i.tree), i.at + 1) ELSE Broken(ts)
PPostfix(ts, l) ==
    LET next == Tok(ts, l.at)
        name == Tok(ts, l.at + 1)
    IN  CASE next = "--" -> PPostfix(ts, Parsed(Unary("post--", l.tree), l.at + 1))
          [] next = "." /\ name = "m" -> PPostfix(ts, Parsed(Member(l.tree), l.at + 2))
          [] next = "." /\ name = "f" -> PPostfix(ts, Called(l.tree, PArgs(ts, l.at + 3, <<>>, ")")))
          [] next = "->" /\ name = "m" -> PPostfix(ts, Parsed(Arrow(l.tree), l.at + 2))
          [] next = "[" -> PPostfix(ts, Indexed(ts, l, PAssign(ts, l.at + 1)))
          [] OTHER -> l

Enclosed(ts, Node(_), p) == IF Tok(ts, p.at) = ")" THEN Parsed(Node(p.tree), p.at + 1) ELSE Broken(ts)
PPrimary(ts, i) ==
    CASE Tok(ts, i) = "x" -> Parsed(Ref, i + 1)
      [] Tok(ts, i) = "m" -> Parsed(Field, i + 1)
      [] Tok(ts, i) = "y" -> Parsed(Copied, i + 1)
      [] Tok(ts, i) = "N::x" -> Parsed(Qualified, i + 1)
      [] [j \in 1 .. 3 |-> Tok(ts, i + j - 1)] = <<"quote", "text", "quote">> -> Parsed(Str, i + 3)
      [] Tok(ts, i) = "f" -> Called(Absent, PArgs(ts, i + 2, <<>>, ")"))
      [] Tok(ts, i) = "f<T>" -> NodeOver(Instance, PArgs(ts, i + 2, <<>>, ")"))
      [] Tok(ts, i) = "T" /\ Tok(ts, i + 1) = "{" -> NodeOver(Construct, PArgs(ts, i + 2, <<>>, "}"))
      [] Tok(ts, i) = "cast" -> Enclosed(ts, Cast, PAssign(ts, i + 2))
      [] Tok(ts, i) = "(" -> Enclosed(ts, Paren, PAssign(ts, i + 1))
      [] OTHER -> Broken(ts)

FollowedBy(ts, e, done, close) ==
    CASE Tok(ts, e.at) = close -> Parsed(Append(done, e.tree), e.at + 1)
      [] Tok(ts, e.at) = "," -> PArgs(ts, e.at + 1, Append(done, e.tree), close)
      [] OTHER -> Broken(ts)
PArgs(ts, i, done, close) ==
    IF Tok(ts, i) = close /\ done = <<>> THEN Parsed(done, i + 1)
    ELSE FollowedBy(ts, PAssign(ts, i), done, close)

(* The tree of a text, or Rejected. *)
AtEnd(ts, p) == IF p.at = Len(ts) + 1 THEN p.tree ELSE Rejected
ParseTokens(ts) == AtEnd(ts, PAssign(ts, 1))
Parse(text) == ParseTokens(Lex(text))

--------------------------------------------------------------------------------
Leaves == {Ref, Str}
Operators == {"-", "!", "pre--", "post--"}

(* Every node over some operands; the ternary's conditions and branches, and the  *)
(* two sides of an operator, are not both deep.                                   *)
Over(deep, ops) ==
    LET pairs == ({Ref} \X deep) \cup (deep \X {Ref})
    IN  {Unary(op, e) : op \in ops, e \in deep}
        \cup {Binary(p[1], p[2]) : p \in pairs} \cup {Compound(p[1], p[2]) : p \in pairs}
        \cup {Index(p[1], p[2]) : p \in pairs} \cup {Member(e) : e \in deep}
        \cup {Ternary(e, Ref, Ref) : e \in deep} \cup {Ternary(Ref, p[1], p[2]) : p \in pairs}
        \cup {Call(Absent, <<e>>) : e \in deep} \cup {Call(e, <<>>) : e \in deep}
        \cup {Call(Ref, <<p[1], p[2]>>) : p \in pairs}

(* Models, and sources before they are parsed, of at most three levels, not       *)
(* counting the parentheses of a source.                                          *)
ModelsOver(deep) == Over(deep, Operators) \cup {Throw(e) : e \in deep} \cup {Construct(<<e>>) : e \in deep}
Models == ModelsOver(Leaves) \cup ModelsOver(ModelsOver(Leaves))
SourceLeaves == Leaves \cup {Field, Qualified, Call(Absent, <<Copied>>)}
SourcesOver(deep) ==
    Over(deep, Operators \cup {"*"})
    \cup {Paren(e) : e \in deep} \cup {Cast(e) : e \in deep} \cup {Arrow(e) : e \in deep}
    \cup {New(<<e>>) : e \in deep} \cup {Construct(<<e>>) : e \in deep} \cup {Instance(<<e>>) : e \in deep}
    \cup {Overloaded(e, Ref) : e \in deep} \cup {Overloaded(Ref, e) : e \in deep}

--------------------------------------------------------------------------------
(* The text of a source expression: no parentheses but those it holds.            *)
Quoted(text) == <<"quote">> \o text \o <<"quote">>
Separated(texts) ==       \* joined by ", "
    FlattenSeq([i \in DOMAIN texts |-> IF i = 1 THEN texts[i] ELSE <<",", " ">> \o texts[i]])
UnaryText(op, text) ==
    CASE op = "pre--" -> <<"-", "-">> \o text
      [] op = "post--" -> text \o <<"-", "-">>
      [] OTHER -> <<op>> \o text

RECURSIVE SourceText(_)
SourceText(e) ==
    CASE e = Ref -> <<"x">>
      [] e = Field -> <<"m">>
      [] e = Copied -> <<"y">>
      [] e = Qualified -> <<"N::x">>
      [] e = Str -> Quoted(<<"text">>)
      [] e.k = "unary" -> UnaryText(e.op, SourceText(e.e))
      [] e.k = "binary" -> SourceText(e.l) \o <<" ", "-", " ">> \o SourceText(e.r)
      [] e.k = "compound" -> SourceText(e.l) \o <<" ", "-", "=", " ">> \o SourceText(e.r)
      [] e.k = "ternary" -> SourceText(e.c) \o <<" ", "?", " ">> \o SourceText(e.t)
                            \o <<" ", ":", " ">> \o SourceText(e.f)
      [] e.k = "call" -> (IF e.obj = Absent THEN <<>> ELSE SourceText(e.obj) \o <<".">>)
                         \o <<"f", "(">> \o Separated([i \in DOMAIN e.args |-> SourceText(e.args[i])])
                         \o <<")">>
      [] e.k = "overloaded" -> SourceText(e.l) \o <<" ", "+", " ">> \o SourceText(e.r)
      [] e.k \in {"new", "construct", "instance"} ->
           LET list == Separated([i \in DOMAIN e.args |-> SourceText(e.args[i])])
           IN  CASE e.k = "new" -> <<"new", " ", "T", "(">> \o list \o <<")">>
                 [] e.k = "construct" -> <<"T", "{">> \o list \o <<"}">>
                 [] OTHER -> <<"f<T>", "(">> \o list \o <<")">>
      [] e.k = "member" -> SourceText(e.obj) \o <<".", "m">>
      [] e.k = "arrow" -> SourceText(e.obj) \o <<"-", ">", "m">>
      [] e.k = "index" -> SourceText(e.obj) \o <<"[">> \o SourceText(e.i) \o <<"]">>
      [] e.k = "paren" -> <<"(">> \o SourceText(e.e) \o <<")">>
      [] e.k = "cast" -> <<"cast", "(">> \o SourceText(e.e) \o <<")">>

(* The trees the compiler parses from some text. *)
Legal(trees) == {e \in trees : Parse(SourceText(e)) = e}
Shallow == SourcesOver(SourceLeaves)
Wrapped == {Paren(e) : e \in Shallow}
Sources == Legal(Shallow \cup SourcesOver(Shallow) \cup SourcesOver(Wrapped))

--------------------------------------------------------------------------------
(* findUnaryOperatorToken(): the first token of the extent, or else the last.     *)
LastTokenFirst(e) ==      \* mutant: the postfix operators are looked for first
    LET tokens == Lex(SourceText(e))
    IN  CASE Last(tokens) = "--" -> "post--"
          [] Last(tokens) # "--" /\ tokens[1] \in {"-", "!"} -> tokens[1]
          [] Last(tokens) # "--" /\ tokens[1] = "--" -> "pre--"
          [] OTHER -> "?"
UnaryOperator(e) ==
    LET tokens == Lex(SourceText(e))
    IN  CASE tokens[1] \in {"-", "!"} -> tokens[1]
          [] tokens[1] = "--" -> "pre--"
          [] Last(tokens) = "--" /\ tokens[1] \notin {"-", "!", "--"} -> "post--"
          [] OTHER -> "?"

(* convertExpr(): parentheses and casts are unwrapped; a compound assignment below *)
(* a statement is a CompoundAssignOperator cursor, which has no case.             *)
(* getSourceText() of a literal includes its quotes, and the spelling of a name   *)
(* leaves out what qualifies it.  A member has an object, which for one of *this  *)
(* is "this", and no arrow.  A call is a name and what its cursor's children are  *)
(* but the first: that is the callee (with the object of a member call in it, and *)
(* template arguments), but the type of a constructor expression, the left        *)
(* operand of an operator, which the operator's own name follows, or what an      *)
(* implicit constructor copies.  A new expression is a constructor of its type, a *)
(* pointer; a class would be among its children and marked.                       *)
CallOf(converted) == Call(Absent, converted)
RECURSIVE convertExpr(_)
convertExpr(e) ==
    CASE e \in {Ref, Qualified} -> Ref
      [] e = Field -> Member(Ref)
      [] e = Copied -> CallOf(<<>>)
      [] e = Str -> [k |-> "string", value |-> SourceText(e)]
      [] e.k \in {"paren", "cast"} -> convertExpr(e.e)
      [] e.k = "unary" -> IF UnaryOperator(e) = "?" THEN Unsupported
                          ELSE Unary(UnaryOperator(e), convertExpr(e.e))
      [] e.k = "binary" -> Binary(convertExpr(e.l), convertExpr(e.r))
      [] e.k = "compound" -> Unsupported
      [] e.k = "ternary" -> Ternary(convertExpr(e.c), convertExpr(e.t), convertExpr(e.f))
      [] e.k \in {"call", "instance", "construct"} -> CallOf([i \in DOMAIN e.args |-> convertExpr(e.args[i])])
      [] e.k = "overloaded" -> CallOf(<<Ref, convertExpr(e.r)>>)
      [] e.k = "new" -> OfPointer([i \in DOMAIN e.args |-> convertExpr(e.args[i])])
      [] e.k \in {"member", "arrow"} -> Member(convertExpr(e.obj))
      [] e.k = "index" -> Index(convertExpr(e.obj), convertExpr(e.i))

--------------------------------------------------------------------------------
(* CppEmitter::emitExpr().  A receiver is wrapped unless it is one of five kinds. *)
NeverWraps(obj, text) == text      \* mutant: the rule for receivers is missing
Receiver(obj, text) ==
    IF obj.k \in {"ref", "call", "member", "index", "construct"} THEN text
    ELSE <<"(">> \o text \o <<")">>

RECURSIVE emitExpr(_)
emitExpr(e) ==
    LET args == Separated([i \in DOMAIN e.args |-> emitExpr(e.args[i])])
    IN  CASE e = Ref -> <<"x">>
          [] e = Str -> Quoted(<<"text">>)
          [] e.k = "string" -> Quoted(e.value)
          [] e.k = "unary" -> UnaryText(e.op, emitExpr(e.e))
          [] e.k = "binary" -> <<"(">> \o emitExpr(e.l) \o <<" ", "-", " ">> \o emitExpr(e.r) \o <<")">>
          [] e.k = "ternary" -> <<"(">> \o emitExpr(e.c) \o <<" ", "?", " ">> \o emitExpr(e.t)
                                \o <<" ", ":", " ">> \o emitExpr(e.f) \o <<")">>
          [] e.k = "compound" -> emitExpr(e.l) \o <<" ", "-", "=", " ">> \o emitExpr(e.r)
          [] e.k = "throw" -> <<"throw", " ">> \o emitExpr(e.e)
          [] e.k = "call" -> (IF e.obj = Absent THEN <<>>
                              ELSE Receiver(e.obj, emitExpr(e.obj)) \o <<".">>)
                             \o <<"f", "(">> \o args \o <<")">>
          [] e.k = "construct" -> <<"T", "{">> \o args \o <<"}">>
          [] e.k = "pointer" -> <<"T", "*", "{">> \o args \o <<"}">>
          [] e.k = "member" -> emitExpr(e.obj) \o <<".", "m">>
          [] e.k = "index" -> emitExpr(e.obj) \o <<"[">> \o emitExpr(e.i) \o <<"]">>

PrintRequests == [kind : {"print"}, tree : Models]
TranslateRequests == [kind : {"translate"}, tree : Sources]
TranslateAnswer(r) ==
    LET model == IF r.kind = "print" THEN r.tree ELSE convertExpr(r.tree)
    IN  IF Unsupported \in Nodes(model) THEN <<Unsupported>> ELSE <<Parse(emitExpr(model))>>

--------------------------------------------------------------------------------
RECURSIVE Bare(_)        \* the tree without its parentheses
Bare(e) ==
    CASE e.k = "paren" -> Bare(e.e)
      [] e.k \in {"unary", "throw", "cast"} -> [e EXCEPT !.e = Bare(@)]
      [] e.k \in {"binary", "compound", "overloaded"} -> [e EXCEPT !.l = Bare(@), !.r = Bare(@)]
      [] e.k = "ternary" -> Ternary(Bare(e.c), Bare(e.t), Bare(e.f))
      [] e.k = "call" -> Call(IF e.obj = Absent THEN Absent ELSE Bare(e.obj),
                              [i \in DOMAIN e.args |-> Bare(e.args[i])])
      [] e.k \in {"construct", "new", "instance"} -> [e EXCEPT !.args = [i \in DOMAIN @ |-> Bare(@[i])]]
      [] e.k \in {"member", "arrow"} -> [e EXCEPT !.obj = Bare(@)]
      [] e.k = "index" -> Index(Bare(e.obj), Bare(e.i))
      [] OTHER -> e

(* How tightly the printed text of a model binds: 3 to itself, 2 like a prefix    *)
(* operator, 0 like an assignment.                                                *)
Binding(e) ==
    CASE e.k \in {"compound", "throw"} -> 0
      [] e.k = "unary" /\ e.op # "post--" -> 2
      [] OTHER -> 3

(* The places where emitExpr() would need parentheses and prints none.            *)
NeedsParentheses(e) ==
    \/ e.k = "unary" /\ Binding(e.e) < (IF e.op = "post--" THEN 3 ELSE 2)
    \/ e.k = "unary" /\ e.op = "-" /\ e.e.k = "unary" /\ e.e.op \in {"-", "pre--"}
    \/ e.k = "binary" /\ (Binding(e.l) < 2 \/ Binding(e.r) < 2)
    \/ e.k = "compound" /\ Binding(e.l) < 2
    \/ e.k = "ternary" /\ Binding(e.c) < 2
    \/ e.k \in {"member", "index"} /\ Binding(e.obj) < 3
Printable(e) == \A n \in Nodes(e) : ~NeedsParentheses(n)

(* What the compiler reads in an emitted expression is the model it was emitted   *)
(* from, unless emitExpr() prints one of the nestings above without parentheses;  *)
(* and of those, none is read right.                                              *)
EmittedAsNested ==
    Answered("print") => (Bare(reply[1]) = request.tree <=> Printable(request.tree))

(* What convertExpr() loses without a mark: casts, the object of a member call,   *)
(* the quotes around a string, and a dereference whose text ends in "--"; that a  *)
(* member is reached by an arrow, which "this" needs for one of *this as well;    *)
(* that an expression is a new one or constructs an object; the left operand of   *)
(* an operator that a class defines; an argument that is copied; the template     *)
(* arguments of a call, and what a name is qualified with.                        *)
Loses(e) ==
    \/ e.k \in {"cast", "str", "arrow", "field", "new", "construct", "overloaded", "copied", "instance", "qualified"}
    \/ e.k = "call" /\ e.obj # Absent
    \/ e.k = "unary" /\ e.op = "*" /\ UnaryOperator(e) # "?"
Faithful(e) == (\A n \in Nodes(e) : ~Loses(n)) /\ Printable(convertExpr(e))

(* An expression that was extracted without an unsupported mark and emitted again *)
(* is the expression of the source, exactly when nothing of the above is in it.   *)
UnmarkedSurvives ==
    Answered("translate") /\ reply[1] # Unsupported =>
        (Bare(reply[1]) = Bare(request.tree) <=> Faithful(request.tree))
================================================================================
