------------------------------ MODULE HeaderClosure ------------------------------
(* cppAuditInputIdentity() (topo-check/analysis/CppCompileModel.cpp): the cache   *)
(* key of an audit is made of every file the preprocessor may open and every path *)
(* it may ask about.  The code never runs the preprocessor: it scans each file    *)
(* for directives, in every branch, and closes the set of files under them.  The  *)
(* preprocessor runs here once there is a key, on the same files.                 *)
(* Left out: the limits on counts and sizes, which only refuse, and #include_next,*)
(* which asks about some of the places where #include asks.                       *)
EXTENDS Integers, Sequences, SequencesExt, FiniteSets

CONSTANTS
    IncludeRoots,  \* -I and the like, in order
    QuotedRoots,   \* -iquote, in order
    Macros,        \* the identifiers of the sources
    Names,         \* what may stand in quotes or angle brackets
    Source,        \* path of the source
    Compilations,  \* what is compiled: its command, its -include files and the files there are
    Elsewhere,     \* where a form the scanner does not know may lead
    MaxDepth       \* bound: how deep the preprocessor nests; a file may include itself

(* What stands behind #include or in a macro's body: a name in quotes or angle    *)
(* brackets, one identifier, or anything else (two tokens, a path with "..").     *)
HeaderNames == [form : {"quoted", "angle"}, name : Names]
Identifiers == [form : {"identifier"}, name : Macros]
Complex == [form |-> "complex", name |-> "anything"]
HeaderOperands == HeaderNames \cup Identifiers \cup {Complex}

(* A line; "probe" is an #if with __has_include, "if" any other, "unclassified"   *)
(* #import, _Pragma, ## and so on.  Only some have a macro or an operand.         *)
Lines == [op : {"include", "probe", "define", "undef", "if", "else", "endif", "unclassified"},
          macro : Macros, operand : HeaderOperands]

ASSUME MacroAssumption == IsFiniteSet(Macros)
ASSUME RootAssumption == IncludeRoots \in Seq(Range(IncludeRoots)) /\ QuotedRoots \in Seq(Range(QuotedRoots))
ASSUME CompilationAssumption ==
    \A u \in Compilations :
        /\ u.command \in Seq([op : {"define", "undef"}, macro : Macros, operand : HeaderOperands])
        /\ u.forced \in Seq(Range(u.forced))
        /\ \A f \in DOMAIN u.tree : u.tree[f].lines \in Seq(Lines)

VARIABLES
    unit,
    pc,            \* "scan", then "refused" or "keyed", and "stopped" after an error in the source
    (* cppAuditInputIdentity() *)
    visited,       \* the inputs of the key
    pending,       \* files found and not yet scanned
    macros,        \* the bodies of each macro, in any branch of any file
    lookups,       \* pairs of a file and an operand in it
    candidates,    \* the paths whose state is part of the key
    (* the preprocessor *)
    todo,          \* the -include files and the source, as far as they are left
    stack,         \* the files it is in, innermost first: the next line, the #ifs it skips
    defined,       \* the body that each macro has
    use,           \* the operand it resolves, and the macros replaced on the way
    asked, opened

closure == <<visited, pending, macros, lookups, candidates>>
preprocessor == <<todo, stack, defined, use, asked, opened>>
closureVars == <<unit, pc, closure, preprocessor>>

tree == unit.tree

--------------------------------------------------------------------------------
(* The scanner: what headerLookups() and addHeaderMacro() take from a file,       *)
(* whatever #if the line is under.                                                *)
With(lines, ops) == {d \in ToSet(lines) : d.op \in ops}

ThrowsOn(lines) == With(lines, {"unclassified"}) # {}
headerLookups(lines) == {d.operand : d \in With(lines, {"include", "probe"})}

(* A macro undefined anywhere gets a body that throws. *)
Bodies(lines, macro) ==
    {d.operand : d \in {e \in With(lines, {"define"}) : e.macro = macro}} \cup
    {Complex : d \in {e \in With(lines, {"undef"}) : e.macro = macro}}
ReplacesBodies(old, lines) ==      \* mutant: a definition replaces those seen so far
    [m \in Macros |-> IF Bodies(lines, m) = {} THEN old[m] ELSE Bodies(lines, m)]
addHeaderMacros(old, lines) == [m \in Macros |-> old[m] \cup Bodies(lines, m)]

(* The command line, in order: -D replaces and -U erases, so the last one counts. *)
LastMention(command, macro) ==
    {i \in DOMAIN command : /\ command[i].macro = macro
                            /\ \A j \in i + 1 .. Len(command) : command[j].macro # macro}
CommandMacros(command) ==
    [m \in Macros |-> {command[i].operand : i \in {j \in LastMention(command, m) : command[j].op = "define"}}]

(* expandHeaderLookup(): the names an operand may stand for; whether it throws;   *)
(* whether every identifier on the way has a body.  `active` are the identifiers  *)
(* being replaced.                                                                *)
ExpandOnce(bodies, expand, operand, active) ==
    LET values == {expand[<<o, active \cup {operand.name}>>] : o \in bodies[operand.name]}
    IN  CASE operand.form = "quoted" \/ (operand.form = "angle" /\ active = {}) ->
               [names |-> {operand}, throws |-> FALSE, complete |-> TRUE]
          [] operand.form \in {"complex", "angle"} \/ operand.name \in active ->
               [names |-> {}, throws |-> TRUE, complete |-> FALSE]
          [] OTHER ->
               [names    |-> UNION {v.names : v \in values},
                throws   |-> \E v \in values : v.throws,
                complete |-> values # {} /\ \A v \in values : v.complete]
expandHeaderLookup(bodies) ==
    LET expand[p \in HeaderOperands \X SUBSET Macros] == ExpandOnce(bodies, expand, p[1], p[2]) IN expand
ExpansionOf(operand) == expandHeaderLookup(macros)[<<operand, {}>>]

(* Where a name is looked for: every root, and for a quoted name also the quoted  *)
(* roots and the directory of the including file, as spelled and as resolved.     *)
Search(file, name) ==
    ToSet(IncludeRoots) \cup
    (IF name.form = "quoted"
       THEN ToSet(QuotedRoots) \cup {tree[file].parent, tree[file].resolved}
       ELSE {})
Candidates(file, names) == UNION {{<<d, n.name>> : d \in Search(file, n)} : n \in names}
FoundPaths == UNION {Candidates(l[1], ExpansionOf(l[2]).names) : l \in lookups}

Refuse == pc' = "refused" /\ UNCHANGED closure

(* One pending file: it must be there and be understood. *)
Scan(f) ==
    IF f \notin DOMAIN tree \/ ThrowsOn(tree[f].lines) THEN Refuse
    ELSE /\ visited' = visited \cup {f} /\ pending' = pending \ {f}
         /\ macros' = addHeaderMacros(macros, tree[f].lines)
         /\ lookups' = lookups \cup {<<f, o>> : o \in headerLookups(tree[f].lines)}
         /\ UNCHANGED <<pc, candidates>>
ScanPending ==
    /\ pc = "scan" /\ \E f \in pending : Scan(f)
    /\ UNCHANGED <<unit, preprocessor>>

(* The end of a round: every lookup so far is expanded with the macros so far.    *)
ExpandLookups ==
    /\ pc = "scan" /\ pending = {}
    /\ IF \E l \in lookups : ExpansionOf(l[2]).throws THEN Refuse
       ELSE /\ candidates' = candidates \cup FoundPaths
            /\ pending' = ((FoundPaths \ candidates) \ visited) \cap DOMAIN tree
            /\ pc' = IF pending' # {} THEN "scan"
                     ELSE IF \A l \in lookups : ExpansionOf(l[2]).complete THEN "keyed" ELSE "refused"
            /\ UNCHANGED <<visited, macros, lookups>>
    /\ UNCHANGED <<unit, preprocessor>>

--------------------------------------------------------------------------------
(* The preprocessor: macros with one body each, directives in order, branches not *)
(* taken skipped, the first file found of each name.  What an #if depends on is   *)
(* left open, so that it may take either branch.  It goes on until an error.      *)
Unset == [form |-> "unset", name |-> "nothing"]
Unused == [op |-> "none", operand |-> Unset, seen |-> {}]
NewFrame(file) == [file |-> file, next |-> 1, skipping |-> 0]
Top == stack[1]
Line == tree[Top.file].lines[Top.next]
At(next, skipping) == <<[file |-> Top.file, next |-> next, skipping |-> skipping]>> \o Tail(stack)
Past(skipping) == At(Top.next + 1, skipping)

Reading == pc = "keyed" /\ stack # <<>> /\ use = Unused /\ Top.next <= Len(tree[Top.file].lines)
KeyUnchanged == UNCHANGED <<unit, closure>>
Stop == pc' = "stopped" /\ UNCHANGED preprocessor

(* -include files come first, each as if the unit included it by its path. *)
Begin ==
    /\ pc = "keyed" /\ stack = <<>> /\ todo # <<>>
    /\ todo' = Tail(todo) /\ asked' = asked \cup {todo[1]}
    /\ IF todo[1] \in DOMAIN tree
         THEN stack' = <<NewFrame(todo[1])>> /\ opened' = opened \cup {todo[1]} /\ pc' = pc
         ELSE pc' = "stopped" /\ UNCHANGED <<stack, opened>>
    /\ UNCHANGED <<defined, use>> /\ KeyUnchanged

EndOfFile ==
    /\ pc = "keyed" /\ stack # <<>> /\ use = Unused /\ Top.next > Len(tree[Top.file].lines)
    /\ stack' = Tail(stack)
    /\ UNCHANGED <<pc, todo, defined, use, asked, opened>> /\ KeyUnchanged

Skip ==
    /\ Reading /\ Top.skipping > 0
    /\ stack' = Past(CASE Line.op \in {"if", "probe"} -> Top.skipping + 1
                       [] Line.op = "endif" \/ (Line.op = "else" /\ Top.skipping = 1) -> Top.skipping - 1
                       [] OTHER -> Top.skipping)
    /\ UNCHANGED <<pc, todo, defined, use, asked, opened>> /\ KeyUnchanged

Branch ==
    /\ Reading /\ Top.skipping = 0 /\ Line.op \in {"if", "else", "endif"}
    /\ \E skipping \in CASE Line.op = "if" -> {0, 1} [] Line.op = "else" -> {1} [] OTHER -> {0} :
          stack' = Past(skipping)
    /\ UNCHANGED <<pc, todo, defined, use, asked, opened>> /\ KeyUnchanged

DefineMacro ==
    /\ Reading /\ Top.skipping = 0 /\ Line.op \in {"define", "undef"}
    /\ defined' = [defined EXCEPT ![Line.macro] = IF Line.op = "define" THEN Line.operand ELSE Unset]
    /\ stack' = Past(0)
    /\ UNCHANGED <<pc, todo, use, asked, opened>> /\ KeyUnchanged

(* A form the scanner does not know uses no operand that it knows. *)
UseOperand ==
    /\ Reading /\ Top.skipping = 0 /\ Line.op \in {"include", "probe", "unclassified"}
    /\ use' = [op |-> Line.op, operand |-> IF Line.op = "unclassified" THEN Complex ELSE Line.operand, seen |-> {}]
    /\ stack' = Past(0)
    /\ UNCHANGED <<pc, todo, defined, asked, opened>> /\ KeyUnchanged

(* A macro is replaced by its body, but not within its own replacement. *)
Replace ==
    /\ pc = "keyed" /\ use.operand.form = "identifier"
    /\ LET m == use.operand.name
       IN  IF m \in use.seen \/ defined[m] = Unset THEN Stop
           ELSE /\ use' = [use EXCEPT !.operand = defined[m], !.seen = @ \cup {m}]
                /\ UNCHANGED <<pc, todo, stack, defined, asked, opened>>
    /\ KeyUnchanged

(* Where a name is looked for, in order.  A compiler may take the directory of    *)
(* the including file as spelled or as resolved.                                  *)
Order(name, parent) == (IF name.form = "quoted" THEN <<parent>> \o QuotedRoots ELSE <<>>) \o IncludeRoots

LookUpFrom(parent) ==
    LET dirs == Order(use.operand, parent)
        path(i) == <<dirs[i], use.operand.name>>
        there == {i \in DOMAIN dirs : path(i) \in DOMAIN tree}
        first == CHOOSE i \in there : \A j \in there : i <= j
    IN  /\ asked' = asked \cup {path(i) : i \in {j \in DOMAIN dirs : there = {} \/ j <= first}}
        /\ IF use.op = "probe"
             THEN /\ \E skipping \in {0, 1} : stack' = At(Top.next, skipping)
                  /\ UNCHANGED <<pc, opened>>
           ELSE IF there # {} /\ Len(stack) < MaxDepth
             THEN /\ stack' = <<NewFrame(path(first))>> \o stack
                  /\ opened' = opened \cup {path(first)} /\ pc' = pc
           ELSE pc' = "stopped" /\ UNCHANGED <<stack, opened>>
LookUpElsewhere ==
    asked' = asked \cup {Elsewhere} /\ opened' = opened \cup {Elsewhere} /\ UNCHANGED <<pc, stack>>

LookUp ==
    /\ pc = "keyed" /\ use # Unused /\ use.operand.form # "identifier"
    /\ IF use.operand = Complex THEN LookUpElsewhere
       ELSE \E parent \in {tree[Top.file].parent, tree[Top.file].resolved} : LookUpFrom(parent)
    /\ use' = Unused
    /\ UNCHANGED <<todo, defined>> /\ KeyUnchanged

--------------------------------------------------------------------------------
ClosureStart ==
    /\ pc = "scan"
    /\ visited = {} /\ pending = {Source} \cup ToSet(unit.forced)
    /\ macros = CommandMacros(unit.command) /\ lookups = {} /\ candidates = {}
    /\ todo = unit.forced \o <<Source>> /\ stack = <<>> /\ use = Unused
    /\ defined = [m \in Macros |-> IF macros[m] = {} THEN Unset ELSE CHOOSE o \in macros[m] : TRUE]
    /\ asked = {} /\ opened = {}
ClosureInit == unit \in Compilations /\ ClosureStart

ClosureNext ==
    \/ ScanPending \/ ExpandLookups
    \/ Begin \/ EndOfFile \/ Skip \/ Branch \/ DefineMacro \/ UseOperand \/ Replace \/ LookUp
ClosureSpec == ClosureInit /\ [][ClosureNext]_closureVars

--------------------------------------------------------------------------------
Frames == [file : visited, next : Nat \ {0}, skipping : Nat]
Uses == [op : {"include", "probe", "unclassified"}, operand : HeaderOperands, seen : SUBSET Macros]
ClosureTypeOK ==
    /\ unit \in Compilations /\ pc \in {"scan", "keyed", "refused", "stopped"}
    /\ visited \subseteq DOMAIN tree
    /\ macros \in [Macros -> SUBSET HeaderOperands] /\ defined \in [Macros -> HeaderOperands \cup {Unset}]
    /\ lookups \subseteq visited \X HeaderOperands
    /\ todo \in Seq({Source} \cup ToSet(unit.forced)) /\ stack \in Seq(Frames)
    /\ use \in Uses \cup {Unused}

(* What is not in the cache key does not matter: whatever the preprocessor asks   *)
(* about is among the search candidates and whatever it opens among the inputs,   *)
(* so that an audit answered from the cache is the one a new run would make.      *)
KeyCoversPreprocessing == asked \subseteq candidates \cup visited /\ opened \subseteq visited
================================================================================
