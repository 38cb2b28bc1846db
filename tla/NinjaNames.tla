------------------------------- MODULE NinjaNames -------------------------------
(* flattenSourceName() and ninjaEscape() of topo-build/NinjaGen.cpp: the name of *)
(* the output of a source, and the text that stands for a path in build.ninja.   *)
(* A text is a sequence of tokens: words, and the characters these functions     *)
(* and Ninja look at.                                                            *)
EXTENDS Requests, Integers, Sequences, SequencesExt

CONSTANTS
    Words,        \* text without any of the characters below
    BaseDir,      \* the directories that lead from the root to the project
    MaxLength     \* bound: tokens of a text

Dollar == "dollar"
Space == "space"
Colon == "colon"
Bar == "bar"
Backslash == "backslash"
Up == ".."
Separators == {"/", Backslash, "_", "."}
Special == {Dollar, Space, Colon}

ASSUME WordAssumption == Words \cap (Separators \cup Special \cup {Bar, Up}) = {}
ASSUME BaseAssumption == BaseDir \in Seq(Words)
ASSUME LengthAssumption == MaxLength \in Nat

TextsOf(tokens) == UNION {[1 .. n -> tokens] : n \in 1 .. MaxLength}

(* The path of a source, from the root or from the project: words joined by      *)
(* separators, the last of them the dot in front of the extension.  No "." and   *)
(* no ".." is a name in it, and no link leads elsewhere.                         *)
Paths == {p \in TextsOf(Words \cup Separators) :
            /\ \A i \in DOMAIN p : p[i] \in Words <=> i % 2 = 1
            /\ Len(p) >= 3 /\ p[Len(p) - 1] = "."}
SourceNames == [absolute : BOOLEAN, path : Paths]

FlattenRequests == [kind : {"flatten"}, sources : {pair \in SourceNames \X SourceNames : pair[1] # pair[2]}]
EscapeRequests == [kind : {"escape"}, text : TextsOf(Words \cup Special \cup {Bar})]
NameRequests == FlattenRequests \cup EscapeRequests

--------------------------------------------------------------------------------
(* An absolute path is made relative to the project by fs::relative(): what it   *)
(* shares with the project's directory is dropped, and the rest of the latter    *)
(* climbed up.  A relative one is taken as it is.                                *)
GoesThrough(p, n) == 2 * n < Len(p) /\ \A i \in 1 .. n : p[2 * i - 1] = BaseDir[i] /\ p[2 * i] = "/"
Shared(p) == Max({n \in 0 .. Len(BaseDir) : GoesThrough(p, n)})
Ups(n) == [i \in 1 .. 2 * n |-> IF i % 2 = 1 THEN Up ELSE "/"]
relative(source) ==
    IF ~source.absolute THEN source.path
    ELSE LET n == Shared(source.path)
         IN  Ups(Len(BaseDir) - n) \o SubSeq(source.path, 2 * n + 1, Len(source.path))

(* rfind('.') cuts what follows the last dot; a slash and a backslash become "_". *)
Cut(p) == SubSeq(p, 1, SelectLastInSeq(p, LAMBDA t : t = ".") - 1)

BaseNameOnly(source) ==       \* mutant: the directory is not part of the name
    LET name == Cut(relative(source))
    IN  SubSeq(name, SelectLastInSeq(name, LAMBDA t : t = "/") + 1, Len(name))
flattenSourceName(source) ==
    LET name == Cut(relative(source))
    IN  [i \in DOMAIN name |-> IF name[i] \in {"/", Backslash} THEN "_" ELSE name[i]]

ninjaEscape(text) ==
    LET result[i \in 0 .. Len(text)] ==
          IF i = 0 THEN <<>>
          ELSE result[i - 1] \o (IF text[i] \in Special THEN <<Dollar, text[i]>> ELSE <<text[i]>>)
    IN  result[Len(text)]

(* What Ninja takes for a path of a build edge: it ends at a space, a colon or a *)
(* bar.  Behind a dollar these stand for themselves, but for the bar; a word     *)
(* names a variable, which is empty.                                             *)
PathEnds == {Space, Colon, Bar}
NothingTaken == [out |-> <<>>, escape |-> FALSE, ended |-> FALSE]
NinjaTakes(state, t) ==
    IF state.ended THEN state
    ELSE IF state.escape
      THEN [state EXCEPT !.escape = FALSE, !.out = IF t \in Special THEN Append(@, t) ELSE @]
    ELSE IF t = Dollar THEN [state EXCEPT !.escape = TRUE]
    ELSE IF t \in PathEnds THEN [state EXCEPT !.ended = TRUE]
    ELSE [state EXCEPT !.out = Append(@, t)]
NinjaReads(text) ==
    LET read[i \in 0 .. Len(text)] == IF i = 0 THEN NothingTaken ELSE NinjaTakes(read[i - 1], text[i])
    IN  read[Len(text)].out

FlattenAnswer(r) == [i \in 1 .. 2 |-> flattenSourceName(r.sources[i])]
EscapeAnswer(r) == <<ninjaEscape(r.text)>>
Flatten == Answer({"flatten"}, FlattenAnswer(request))
Escape == Answer({"escape"}, EscapeAnswer(request))
NamesSpec == request \in NameRequests /\ reply = <<>> /\ [][Flatten \/ Escape]_<<request, reply>>

--------------------------------------------------------------------------------
(* Two sources with one extension, neither an underscore nor a backslash in their *)
(* paths, and both given from the root or both from the project, have different  *)
(* outputs, wherever they are and however their directories nest.  NinjaGen.h:40 *)
(* says so ("unique output name") of all: main.cpp and main.cc, a/b.cpp and      *)
(* a_b.cpp, or a/b.cpp and a\b.cpp share an output.                              *)
PlainSource(source) == Range(source.path) \cap {"_", Backslash} = {}
Extension(source) == Last(source.path)
PlainNamesDiffer ==
    Answered("flatten") =>
        LET s == request.sources[1]  t == request.sources[2]
        IN  s.absolute = t.absolute /\ Extension(s) = Extension(t) /\ PlainSource(s) /\ PlainSource(t) => reply[1] # reply[2]
(* Ninja reads a path that was escaped to its end and as it was, unless it has a *)
(* bar in it, which ninjaEscape() leaves alone and which ends the path.          *)
EscapeIsReadBack ==
    Answered("escape") /\ Bar \notin Range(request.text) => NinjaReads(reply[1]) = request.text
OutputsAreToldApart == PlainNamesDiffer /\ EscapeIsReadBack
================================================================================
