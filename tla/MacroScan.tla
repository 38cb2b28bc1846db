-------------------------------- MODULE MacroScan --------------------------------
(* topo-check/analysis/catalog: dangerous calls of a file, by clangd's tokens for    *)
(* those in its text and by a scan of the preprocessed text for those that a macro   *)
(* makes (CppSafetyAnalyzer.cpp, CppPreprocessorScanner.cpp).                        *)
EXTENDS Requests, Integers, FiniteSets, Sequences, SequencesExt

(* A line has pieces, and is compiled only where the macro `needs` is defined.  A    *)
(* piece is a call, a use of a macro, or of a macro around a call, which stands in   *)
(* the text `down` lines below the macro's name.                                     *)
Direct(callee) == [macro |-> "", callee |-> callee, down |-> 0]
Use(macro) == [macro |-> macro, callee |-> "", down |-> 0]
Around(macro, callee, down) == [macro |-> macro, callee |-> callee, down |-> down]
CodeLine(pieces, needs) == [pieces |-> pieces, needs |-> needs]
MacroBody(macro) ==
    CASE macro = "Runs" -> <<"system">> [] macro = "Instead" -> <<"system">>
      [] macro = "Twice" -> <<"argument", "argument">> [] OTHER -> <<"system", "argument">>
Expansion(piece) ==
    IF piece.macro = "" THEN <<piece.callee>>
    ELSE LET body == MacroBody(piece.macro)
         IN  [i \in DOMAIN body |-> IF body[i] = "argument" THEN piece.callee ELSE body[i]]
UsesArgument(piece) == piece.macro # "" /\ "argument" \in Range(MacroBody(piece.macro))
Active(line, command) == line.needs \in {"", command}
Expanded(line, command) ==
    IF Active(line, command) THEN FlattenSeq([i \in DOMAIN line.pieces |-> Expansion(line.pieces[i])]) ELSE <<>>
LinesOf(program, file) == IF file = "main" THEN program.main ELSE program.header
IsSystem(program, file) == file # "main" /\ program.system

(* clang -E: a marker where a file begins or goes on, and its lines expanded. *)
Marker(file, line, system) == [marks |-> TRUE, file |-> file, line |-> line, system |-> system]
Output(calls) == [marks |-> FALSE, calls |-> calls]
Preprocessed(program, command, file) ==
    LET Texts(f) == [i \in DOMAIN LinesOf(program, f) |-> Output(Expanded(LinesOf(program, f)[i], command))]
        Included == <<Marker("header", 1, program.system)>> \o Texts("header")
        includes == IF file = "main" THEN program.includes ELSE 0
    IN  FlattenSeq([i \in 1 .. includes |-> Included]) \o <<Marker(file, 1, FALSE)>> \o Texts(file)

--------------------------------------------------------------------------------
(* buildLineMap(): the place of each line of the output, <<>> for a marker. *)
Place(file, line, system) == [file |-> file, line |-> line, system |-> system]
buildLineMap(output) ==
    LET Read(s, line) ==
          IF line.marks THEN [at |-> <<Place(line.file, line.line, line.system)>>, map |-> Append(s.map, <<>>)]
          ELSE IF s.at = <<>> THEN [s EXCEPT !.map = Append(@, <<>>)]
          ELSE [at |-> <<[s.at[1] EXCEPT !.line = @ + 1]>>, map |-> Append(s.map, s.at)]
    IN  FoldLeft(Read, [at |-> <<>>, map |-> <<>>], output).map

(* scanDetailed() with macroExpansionsOnly: the calls in the output, without as many *)
(* of one name and line as the text of the file has.                                 *)
Found(file, line, callee) == [file |-> file, line |-> line, callee |-> callee]
RawSites(lines, line, callee) ==      \* extractCallSites() of the file as it is written
    Cardinality({<<i, j>> \in (1 .. Len(lines)) \X (1 .. 2) :
        /\ j \in DOMAIN lines[i].pieces
        /\ LET piece == lines[i].pieces[j] IN piece.callee = callee /\ i + piece.down = line})
PlacedCalls(output) ==
    LET map == buildLineMap(output)
        Of(i) == IF map[i] = <<>> \/ map[i][1].system THEN <<>>
                 ELSE [j \in DOMAIN output[i].calls |-> Found(map[i][1].file, map[i][1].line, output[i].calls[j])]
    IN  FlattenSeq([i \in DOMAIN output |-> Of(i)])
AllOfTheLine(program, calls, i) ==      \* mutant: one call in the text takes all of its line away
    RawSites(LinesOf(program, calls[i].file), calls[i].line, calls[i].callee) = 0
MacroMade(program, calls, i) ==
    Cardinality({j \in 1 .. i : calls[j] = calls[i]}) > RawSites(LinesOf(program, calls[i].file), calls[i].line, calls[i].callee)
ScanOutput(program, output) ==
    LET calls == PlacedCalls(output) IN {calls[i] : i \in {k \in DOMAIN calls : MacroMade(program, calls, k)}}
scanDetailed(program, file) ==
    IF program.fails THEN [complete |-> FALSE, sites |-> {}]
    ELSE [complete |-> TRUE,
          sites |-> UNION {ScanOutput(program, Preprocessed(program, command, file)) : command \in Range(program.commands)}]

(* analyzeFile(): clangd, which knows one command of a file, gives tokens for the    *)
(* calls in its text that are compiled, arguments of macros among them.  A token is  *)
(* skipped, without a word, if there is no hover for it or no name in the hover.     *)
TokenSites(program, file) ==
    LET lines == LinesOf(program, file)
    IN  UNION {{Found(file, i + piece.down, piece.callee) :
                  piece \in {p \in Range(lines[i].pieces) : p.callee # "" /\ (p.macro = "" \/ UsesArgument(p))}} :
               i \in {j \in DOMAIN lines : Active(lines[j], program.commands[1])}} \ program.skipped
analyze(program) ==
    LET read == program.sources \ program.silent      \* clangd has tokens for these
        scans == {scanDetailed(program, file) : file \in program.sources}
    IN  IF read = {} THEN [sites |-> {}, warnings |-> {"falling back to L1"}]
        ELSE [sites |-> UNION {TokenSites(program, file) : file \in read} \cup UNION {scan.sites : scan \in scans},
              warnings |-> (IF read # program.sources THEN {"files without tokens"} ELSE {})
                           \cup (IF \E scan \in scans : ~scan.complete THEN {"macro coverage unavailable"} ELSE {})]

--------------------------------------------------------------------------------
MacroCallees == {"system", "exec"}
CodePieces ==
    {Direct(callee) : callee \in MacroCallees} \cup {Use("Runs")}
        \cup {Around(macro, callee, down) : macro \in {"Instead", "Twice", "Beside"}, callee \in MacroCallees, down \in 0 .. 1}
ShortLines == {<<>>} \cup {<<piece>> : piece \in CodePieces}
FullLines == ShortLines \cup {<<first, second>> : first, second \in CodePieces}
CommandLists == {<<"">>, <<"X">>, <<"", "X">>}
MacroProgram(main, header, system, includes, commands, sources, silent, fails, skipped) ==
    [kind |-> "macros", main |-> main, header |-> header, system |-> system, includes |-> includes, commands |-> commands,
     sources |-> sources, silent |-> silent, fails |-> fails, skipped |-> skipped]
SkippedIn(files, callees) == {{}} \cup {{Found(file, 1, callee)} : file \in files, callee \in callees}
IsMacrosRequest ==
    \/ \E first \in FullLines, second \in {<<>>, <<Direct("system")>>, <<Use("Runs")>>}, needs \in {"", "X"}, commands \in CommandLists,
          skipped \in SkippedIn({"main"}, MacroCallees) :
         request = MacroProgram(<<CodeLine(first, needs), CodeLine(second, ""), CodeLine(<<>>, "")>>, <<>>, FALSE, 0, commands,
                              {"main"}, {}, FALSE, skipped)
    \/ \E piece \in ShortLines, header \in {<<Direct("system")>>, <<Use("Runs")>>, <<Direct("system"), Use("Runs")>>}, system \in BOOLEAN,
          includes \in 1 .. 2, needs \in {"", "X"}, commands \in CommandLists, sources \in {{"main"}, {"main", "header"}},
          silent \in SUBSET {"main", "header"}, fails \in BOOLEAN :
         /\ silent \subseteq sources
         /\ \E skipped \in SkippedIn(sources, {"system"}) : request = MacroProgram(<<CodeLine(piece, ""), CodeLine(<<>>, "")>>, <<CodeLine(header, needs)>>, system, includes, commands,
                              sources, silent, fails, skipped)
MacrosAnswer(r) == <<analyze(r)>>

(* What is compiled of a line: the calls that stand in its text, and those that are  *)
(* in the bodies of its macros; with the lines that they may be reported at.          *)
FilesOf(program) == program.sources \cup (IF program.includes > 0 THEN {"header"} ELSE {})
CompiledPieces(program, file, i, command) ==
    LET line == LinesOf(program, file)[i]
    IN  IF Active(line, command) /\ ~IsSystem(program, file) THEN Range(line.pieces) ELSE {}
CallsInText(pieces) == {piece \in pieces : piece.callee # "" /\ (piece.macro = "" \/ UsesArgument(piece))}
CallsInBodies(pieces) == UNION {Range(MacroBody(piece.macro)) \ {"argument"} : piece \in {p \in pieces : p.macro # ""}}
(* Calls that are reported by neither: in the text of a header that is not analyzed  *)
(* itself; in a part of the text that clangd's command leaves out; of a macro, where *)
(* the text has a call of that name which is not made there; and in the text, where  *)
(* clangd knows nothing of the name, though the text is subtracted as it is.         *)
Unread(program, file, i) == file \notin program.sources \/ ~Active(LinesOf(program, file)[i], program.commands[1])
Hidden(program, file, i, callee) ==
    \E j \in DOMAIN LinesOf(program, file) : \E piece \in Range(LinesOf(program, file)[j].pieces) :
        piece.macro # "" /\ piece.callee = callee /\ j + piece.down = i /\ (~UsesArgument(piece) \/ piece.down > 0)
(* An analysis that ends without a warning has reported every dangerous call that    *)
(* any build command compiles, at its line, but for the four kinds above; and it     *)
(* reports nothing that is not in a line of the project (CppSafetyAnalyzer.h:24-30). *)
CleanScanMissesNothing ==
    Answered("macros") =>
        LET result == reply[1]
            Reported(file, i, callee) == Found(file, i, callee) \in result.sites
            Skipped(file, i, piece) == Found(file, i + piece.down, piece.callee) \in request.skipped
        IN  /\ result.warnings = {} =>
                 \A file \in FilesOf(request) : \A i \in DOMAIN LinesOf(request, file), command \in Range(request.commands) :
                     LET pieces == CompiledPieces(request, file, i, command)
                     IN  /\ Unread(request, file, i)
                            \/ \A piece \in CallsInText(pieces) :
                                  Skipped(file, i, piece) \/ \E down \in {0, piece.down} : Reported(file, i + down, piece.callee)
                         /\ \A callee \in CallsInBodies(pieces) : Hidden(request, file, i, callee) \/ Reported(file, i, callee)
            /\ \A site \in result.sites : site.file \notin {"header"} \/ ~request.system \/ "header" \in request.sources
================================================================================
