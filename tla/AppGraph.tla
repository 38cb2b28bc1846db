-------------------------------- MODULE AppGraph --------------------------------
(* The logic graph of a topo-app program (runtime/include/topo/app_model.h), the   *)
(* .topo text that app_emit.h prints of it, and the graph that app_readback.h      *)
(* makes of the compiler's dump of that text.  Texts are sequences of tokens; a    *)
(* declaration of the text is a record.                                            *)
EXTENDS Requests, Integers, Sequences, SequencesExt

Bands == {"int", "float", "bool", "str"}
of_scalar(s) == [band |-> s, fields |-> <<>>]
of_record(fields) == [band |-> "record", fields |-> fields]
RecordField(name, type) == [name |-> name, type |-> type]

(* An optional type, flow or target is a sequence of at most one. *)
Handler(name, in, out) == [name |-> name, in |-> in, out |-> out]
Edge(source, target) == [source |-> source, target |-> target]
Graph(namespace, handlers, flow) ==
    [namespace |-> namespace, handlers |-> handlers, flow |-> flow]

(* App::flow(): every member of a stage leads to every member of the next, those   *)
(* of the last stage to void.                                                      *)
EdgesOfFlow(stages) ==
    LET Pairs(s, targets) ==
          FlattenSeq([i \in DOMAIN s |-> [j \in DOMAIN targets |-> Edge(s[i], targets[j])]])
        Targets(i) ==
          IF i = Len(stages) THEN << <<>> >> ELSE [j \in DOMAIN stages[i + 1] |-> <<stages[i + 1][j]>>]
    IN  FlattenSeq([i \in DOMAIN stages |-> Pairs(stages[i], Targets(i))])
Flow(name, stages) == [name |-> name, edges |-> EdgesOfFlow(stages)]

RECURSIVE topo(_)      \* the spelling of a type
topo(type) ==
    LET Field(i) ==
          (IF i = 1 THEN <<>> ELSE <<",">>) \o <<type.fields[i].name, ":">> \o topo(type.fields[i].type)
    IN  IF type.band # "record" THEN <<type.band>>
        ELSE <<"record<">> \o FlattenSeq([i \in DOMAIN type.fields |-> Field(i)]) \o <<">">>

(* Graph::semantic_key(): handlers and edges in any order, each as often as it is  *)
(* there.                                                                          *)
Bag(s) == [x \in Range(s) |-> Cardinality({i \in DOMAIN s : s[i] = x})]
Spelled(handlers) ==
    [i \in DOMAIN handlers |->
       [name |-> handlers[i].name, out |-> topo(handlers[i].out),
        in |-> [j \in DOMAIN handlers[i].in |-> topo(handlers[i].in[j])]]]
semantic_key(g) ==
    [namespace |-> g.namespace, handlers |-> Bag(Spelled(g.handlers)),
     flow |-> [i \in DOMAIN g.flow |-> [name |-> g.flow[i].name, edges |-> Bag(g.flow[i].edges)]]]

(* Config::snapshot(): the same structure, void spelled out. *)
Target(e) == IF e.target = <<>> THEN "void" ELSE e.target[1]
snapshot(g) ==
    [namespace |-> g.namespace, handlers |-> Spelled(g.handlers),
     flow |-> [i \in DOMAIN g.flow |->
                 [name |-> g.flow[i].name,
                  edges |-> [j \in DOMAIN g.flow[i].edges |->
                     [from |-> g.flow[i].edges[j].source, to |-> Target(g.flow[i].edges[j])]]]]]

--------------------------------------------------------------------------------
(* emit_topo(): the declarations in their order, below the aliases of the scalars. *)
signature(h) ==
    [decl |-> "handler", name |-> h.name, ret |-> topo(h.out),
     param |-> IF h.in = <<>> THEN <<>> ELSE topo(h.in[1]) \o <<"in">>]
emit_topo(g) ==
    <<[decl |-> "namespace", name |-> g.namespace]>> \o
    [i \in DOMAIN g.handlers |-> signature(g.handlers[i])] \o
    FlattenSeq([i \in DOMAIN g.flow |->
        <<[decl |-> "flow", name |-> g.flow[i].name]>> \o
        [j \in DOMAIN g.flow[i].edges |->
           [decl |-> "edge", source |-> g.flow[i].edges[j].source, target |-> Target(g.flow[i].edges[j])]]])

(* detail::parse_type(): the fields of a record are what stands between commas, at *)
(* whatever depth; each has to be a scalar.  <<>> is the exception.                *)
scalar_from_spelling(text) ==
    IF Len(text) = 1 /\ text[1] \in Bands THEN <<of_scalar(text[1])>> ELSE <<>>
Pieces(text) ==      \* what stands between the commas
    LET Add(p, t) == IF t = "," THEN Append(p, <<>>) ELSE [p EXCEPT ![Len(p)] = Append(@, t)]
    IN  FoldLeft(Add, << <<>> >>, text)
ParseField(text) ==
    LET colon == SelectInSeq(text, LAMBDA t : t = ":")
        type == scalar_from_spelling(SubSeq(text, colon + 1, Len(text)))
    IN  [i \in DOMAIN type |-> RecordField(text[1], type[i])]
OfFields(fields) ==
    IF \E i \in DOMAIN fields : fields[i] = <<>> THEN <<>>
    ELSE <<of_record([i \in DOMAIN fields |-> fields[i][1]])>>
DropsLastField(text) ==      \* mutant: the text behind the last comma is not looked at
    IF text[1] # "record<" \/ Last(text) # ">" THEN scalar_from_spelling(text)
    ELSE LET pieces == Pieces(SubSeq(text, 2, Len(text) - 1))
         IN  OfFields([i \in 1 .. IF Len(pieces) = 1 THEN 1 ELSE Len(pieces) - 1 |-> ParseField(pieces[i])])
parse_type(text) ==
    IF text[1] # "record<" \/ Last(text) # ">" THEN scalar_from_spelling(text)
    ELSE LET pieces == Pieces(SubSeq(text, 2, Len(text) - 1))
         IN  OfFields([i \in DOMAIN pieces |-> ParseField(pieces[i])])

(* read_topo(): one pass over the lines of the dump, which states the declarations *)
(* of the text in their order.                                                     *)
ReadHandler(line) ==
    LET in == IF line.param = <<>> THEN <<>> ELSE parse_type(Front(line.param))
        out == parse_type(line.ret)
    IN  IF out = <<>> \/ (in = <<>> /\ line.param # <<>>) THEN <<>>
        ELSE <<Handler(line.name, in, out[1])>>
ReadEdge(line) == Edge(line.source, IF line.target = "void" THEN <<>> ELSE <<line.target>>)
ReadLine(g, line) ==      \* g is <<>> once a type could not be read
    IF g = <<>> THEN <<>> ELSE
    CASE line.decl = "namespace" -> <<[g[1] EXCEPT !.namespace = line.name]>>
      [] line.decl = "handler" ->
           LET h == ReadHandler(line)
           IN  [i \in DOMAIN h |-> [g[1] EXCEPT !.handlers = Append(@, h[i])]]
      [] line.decl = "flow" -> <<[g[1] EXCEPT !.flow = <<[name |-> line.name, edges |-> <<>>]>>]>>
      [] OTHER -> <<[g[1] EXCEPT !.flow[1].edges = Append(@, ReadEdge(line))]>>
read_topo(lines) == FoldLeft(ReadLine, <<Graph("", <<>>, <<>>)>>, lines)

--------------------------------------------------------------------------------
Fields == {<<RecordField("id", of_scalar("int"))>>,
           <<RecordField("id", of_scalar("int")), RecordField("sum", of_scalar("float"))>>}
SomeTypes ==
    {of_scalar("int"), of_scalar("str")} \cup {of_record(f) : f \in Fields} \cup
    {of_record(<<RecordField("part", of_record(f))>>) : f \in Fields}
SomeHandlers ==
    {Handler(n, in, out) : n \in {"a", "b"}, in \in {<<>>} \cup {<<t>> : t \in SomeTypes}, out \in SomeTypes}
SomeStages == {<<n>> : n \in {"a", "b", "void"}} \cup {<<"a", "b">>}
SomeFlows == {<<>>} \cup {<<Flow("f", s)>> : s \in UNION {[1 .. n -> SomeStages] : n \in 1 .. 3}}

(* Graphs of one handler and a flow, and of two handlers and a flow of one stage. *)
IsGraphRequest ==
    \E h \in SomeHandlers :
        \/ \E f \in SomeFlows : request = [kind |-> "graph", graph |-> Graph("n", <<h>>, f)]
        \/ \E k \in SomeHandlers : request = [kind |-> "graph", graph |-> Graph("n", <<h, k>>, <<Flow("f", << <<"a">> >>)>>)]
GraphAnswer(r) == <<read_topo(emit_topo(r.graph))>>

(* What is printed is read back with the same meaning and the same snapshot, or is *)
(* refused: only a record within a record is refused (app_readback.h:116 assumes   *)
(* there is none, app.h's type_mapper makes them), and only a stage named "void"   *)
(* is taken for the end of the flow.                                               *)
Nests(type) == \E i \in DOMAIN type.fields : type.fields[i].type.band = "record"
Refused(g) == \E h \in Range(g.handlers) : Nests(h.out) \/ \E i \in DOMAIN h.in : Nests(h.in[i])
NamesVoid(g) == \E i \in DOMAIN g.flow : \E e \in Range(g.flow[i].edges) : e.target = <<"void">>
RoundTripKeepsMeaning ==
    Answered("graph") =>
        LET g == request.graph
        IN  IF Refused(g) THEN reply[1] = <<>>
            ELSE /\ snapshot(reply[1][1]) = snapshot(g)
                 /\ NamesVoid(g) \/ semantic_key(reply[1][1]) = semantic_key(g)
================================================================================
