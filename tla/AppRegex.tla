-------------------------------- MODULE AppRegex --------------------------------
(* runtime/include/topo/app_static.h: the graph of a program read from its text by  *)
(* regular expressions, with flags for five constructs they do not understand.  An  *)
(* empty sequence stands for an exception.                                          *)
EXTENDS AppProgram

(* normalise_type() and strip_specifiers(). *)
normalise_type(words) == Without(words, Specifiers \cup {"&", "*"})
strip_specifiers(words) == Without(words, Specifiers)

Integrals == {"char", "short", "int", "long", "size_t"}
scalar_from_cpp(words) ==
    LET t == normalise_type(words)
        Unsigned == IF t # <<>> /\ t[1] \in {"signed", "unsigned"} THEN Tail(t) ELSE t
    IN  CASE t = <<"bool">> -> <<of_scalar("bool")>>
          [] t \in {<<"std::string">>, <<"std::string_view">>} -> <<of_scalar("str")>>
          [] t \in {<<"float">>, <<"double">>, <<"long", "double">>} -> <<of_scalar("float")>>
          [] {"char", "*"} \subseteq Range(words) -> <<of_scalar("str")>>
          [] \/ t \in {<<"signed">>, <<"unsigned">>} \/ Unsigned = <<"long", "long">>
             \/ Len(Unsigned) = 1 /\ Unsigned[1] \in Integrals -> <<of_scalar("int")>>
          [] OTHER -> <<>>

(* TypeResolver: records first, then scalar aliases, each under its bare name; a    *)
(* scalar alias is followed once.                                                   *)
resolve(types, words) ==
    LET t == strip_specifiers(words)
    IN  IF Len(t) = 1 /\ t[1] \in DOMAIN types.records THEN <<of_record(types.records[t[1]])>>
        ELSE IF Len(t) = 1 /\ t[1] \in DOMAIN types.scalars THEN scalar_from_cpp(types.scalars[t[1]])
        ELSE scalar_from_cpp(t)
Bind(map, key, value) == [k \in DOMAIN map \cup {key} |-> IF k = key THEN value ELSE map[k]]
add_record_alias(types, a) ==
    LET fields == [i \in DOMAIN a.fields |-> resolve(types, a.fields[i].type)]
    IN  IF \E i \in DOMAIN fields : fields[i] = <<>> THEN [types EXCEPT !.threw = TRUE]
        ELSE [types EXCEPT !.records = Bind(@, a.name,
                [i \in DOMAIN fields |-> RecordField(a.fields[i].name, fields[i][1])])]
add_scalar_alias(types, a) == [types EXCEPT !.scalars = Bind(@, a.name, a.rhs)]
AddAlias(types, a) ==      \* typedefs are not looked for
    IF types.threw \/ a.how = "typedef" THEN types
    ELSE IF a.fields # <<>> THEN add_record_alias(types, a) ELSE add_scalar_alias(types, a)
NoNames == [n \in {} |-> <<>>]
TypesOf(p) == FoldLeft(AddAlias, [threw |-> FALSE, records |-> NoNames, scalars |-> NoNames], p.aliases)

(* Definitions: a return type, a name, parameters, then a brace.  The last one of a *)
(* bare name wins.  A parameter loses its last word, taken for its name.            *)
ParamType(param) ==
    LET words == param.type
    IN  IF param.named \/ Len(words) = 1 \/ Last(words) \in {"&", "*"} THEN words ELSE Front(words)
FnSig(f) == [params |-> [i \in DOMAIN f.params |-> ParamType(f.params[i])],
             ret |-> IF f.how = "auto" THEN <<"auto">> ELSE f.ret]
Defines(f) == f.body \in {"before", "after"} /\ f.how # "trailing" /\ ~f.noexcept
Definitions(p) ==
    LET Placed(body) == SelectSeq(p.functions, LAMBDA f : f.body = body)
        AddFn(fns, f) == IF Defines(f) THEN Bind(fns, f.name, FnSig(f)) ELSE fns
    IN  FoldLeft(AddFn, NoNames, Placed("before") \o Placed("after"))

(* The text behind strip_comments(): a comment behind an odd number of digit        *)
(* separators is still there, as the separator opens a literal.  The preprocessor   *)
(* has not run; "->" is not matched, nor is a macro's use.                          *)
InText(c) == c.layout \notin {"comment", "arrow", "macro"}

(* The leading literals of a name: an operand's, up to what is not a literal. *)
Literals(atoms) ==
    LET others == {i \in DOMAIN atoms : atoms[i].kind # "literal"}
    IN  IF others = {} THEN atoms ELSE SubSeq(atoms, 1, (CHOOSE i \in others : \A j \in others : i <= j) - 1)
Leading(expr) == Literals(expr[1])
(* join_adjacent_literals(): the first literal anywhere, and those next to it. *)
FromFirstLiteral(atoms) ==
    LET first == SelectInSeq(atoms, LAMBDA a : a.kind = "literal")
    IN  IF first = 0 THEN <<>> ELSE SubSeq(atoms, first, Len(atoms))
FirstFragmentOnly(expr) ==      \* mutant: adjacent literals are not joined
    LET with == SelectSeq(expr, LAMBDA atoms : FromFirstLiteral(atoms) # <<>>)
    IN  IF with = <<>> THEN <<>> ELSE <<FromFirstLiteral(with[1])[1].text>>
join_adjacent_literals(expr) ==
    LET with == SelectSeq(expr, LAMBDA atoms : FromFirstLiteral(atoms) # <<>>)
    IN  IF with = <<>> THEN <<>> ELSE <<Value(<<Literals(FromFirstLiteral(with[1]))>>)>>

(* Registrations, in the order of the text: a function's name and a literal. *)
Matched(c) ==
    c.member = "handler" /\ InText(c) /\ c.callable.form # "lambda" /\ Leading(c.name) # <<>>
ReadRegistration(p, types, fns, c) ==
    LET f == p.functions[c.callable.of]
        key == IF c.callable.form = "variable" THEN "pointer" ELSE f.name
        sig == fns[key]
        in == [i \in DOMAIN sig.params |-> resolve(types, sig.params[i])]
        out == resolve(types, sig.ret)
    IN  IF key \notin DOMAIN fns \/ Len(sig.params) > 1 THEN <<>>
        ELSE IF out = <<>> \/ \E i \in DOMAIN in : in[i] = <<>> THEN <<>>
        ELSE <<Handler(join_adjacent_literals(<<Leading(c.name)>>)[1], [i \in DOMAIN in |-> in[i][1]], out[1])>>

(* The flow: the first one of the text.  What is no literal is taken as a name. *)
MemberName(expr) ==
    LET joined == join_adjacent_literals(expr)
    IN  IF joined # <<>> THEN joined[1] ELSE <<"spelled">> \o Value(expr)
ReadFlow(c) ==
    LET name == join_adjacent_literals(c.name)
        ReadNames(stage) == [i \in DOMAIN stage.names |-> MemberName(stage.names[i])]
    IN  [i \in DOMAIN name |-> Flow(name[i], [j \in DOMAIN c.stages |-> ReadNames(c.stages[j])])]

(* scan_known_gaps(): `partial`. *)
OneWord(words) == Len(words) = 1 /\ words[1] # "std::string"
IgnoresMacros(p) ==      \* mutant: registrations by macro are not flagged
    \/ \E i \in DOMAIN p.functions : p.functions[i].how # "plain" /\ ~p.functions[i].noexcept
    \/ \E i \in DOMAIN p.aliases : p.aliases[i].how = "typedef" /\ OneWord(p.aliases[i].rhs)
scan_known_gaps(p) ==
    \/ \E i \in DOMAIN p.functions : p.functions[i].how # "plain" /\ ~p.functions[i].noexcept
    \/ \E i \in DOMAIN p.aliases : p.aliases[i].how = "typedef" /\ OneWord(p.aliases[i].rhs)
    \/ \E i \in DOMAIN p.calls :
          LET c == p.calls[i]
          IN  /\ c.member = "handler"
              /\ \/ c.layout \in {"macro", "cross_line"}
                 \/ c.callable.form = "name" /\ InText(c) /\ Len(p.functions[c.callable.of].scope) > 1

(* App <obj>("<ns>"): the first one whose namespace is a literal. *)
AppNamespace(p) ==
    LET literal == SelectSeq(p.apps, LAMBDA a : a.literal)
    IN  IF literal = <<>> THEN <<"topo_app">> ELSE literal[1].name

RegistrationsOf(p, types, fns) ==
    LET matched == SelectSeq(p.calls, Matched)
    IN  [i \in DOMAIN matched |-> ReadRegistration(p, types, fns, matched[i])]
FlowsOf(p) == SelectSeq(p.calls, LAMBDA c : c.member = "flow" /\ InText(c))
FirstFlow(flows) == IF flows = <<>> THEN <<>> ELSE ReadFlow(flows[1])
Throws(types, handlers, flows) ==
    \/ types.threw \/ handlers = <<>> \/ \E i \in DOMAIN handlers : handlers[i] = <<>>
    \/ flows # <<>> /\ FirstFlow(flows) = <<>>
ParsedSource(p, types, handlers) ==
    LET threw == Throws(types, handlers, FlowsOf(p))
    IN  [threw |-> threw, partial |-> scan_known_gaps(p),
         graph |-> IF threw THEN <<>>
                   ELSE <<Graph(AppNamespace(p), [i \in DOMAIN handlers |-> handlers[i][1]], FirstFlow(FlowsOf(p)))>>]
parse_app_source(p) ==
    LET types == TypesOf(p) IN ParsedSource(p, types, RegistrationsOf(p, types, Definitions(p)))
================================================================================
