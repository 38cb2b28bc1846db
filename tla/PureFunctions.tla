----------------------------- MODULE PureFunctions -----------------------------
(* The functions without state of several components, side by side: a request of *)
(* any kind is picked, and one step answers it.  Their definitions and what is   *)
(* expected of them are in the modules of the components.  One takes many steps, *)
(* the key of a compilation with the preprocessor beside it: "closure" is the    *)
(* request for it.                                                               *)
EXTENDS NinjaNames, DebugLayout, TranslateExpr, ExtractBody,
        AppStatic, CppStub, SymbolScanners, MacroScan, HeaderClosure

vars == <<request, reply, closureVars>>

Closure == [kind |-> "closure"]
AnyCompilation == CHOOSE u \in Compilations : TRUE

Init ==
    /\ \/ request = Closure /\ unit \in Compilations
       \/ /\ \/ request \in NameRequests
             \/ request \in LayoutRequests
             \/ request \in PrintRequests
             \/ request \in TranslateRequests
             \/ request \in ExtractRequests
             \/ IsGraphRequest
             \/ IsProgramRequest
             \/ IsTextRequest
             \/ IsStubRequest
             \/ IsLinesRequest
             \/ IsMacrosRequest
          /\ unit = AnyCompilation
    /\ reply = <<>> /\ ClosureStart

Translate == Answer({"print", "translate"}, TranslateAnswer(request))
Extract   == Answer({"extract"}, ExtractAnswer(request))
ReadBack  == Answer({"graph"}, GraphAnswer(request))
ReadApp   == Answer({"program"}, ProgramAnswer(request))
ScanText  == Answer({"text"}, TextAnswer(request))
StubText  == Answer({"stub"}, StubAnswer(request))
ScanLines == Answer({"lines"}, LinesAnswer(request))
ScanMacros == Answer({"macros"}, MacrosAnswer(request))

Next ==
    \/ /\ \/ Flatten \/ Escape \/ Lay \/ Translate \/ Extract
          \/ ReadBack \/ ReadApp \/ ScanText \/ StubText \/ ScanLines \/ ScanMacros
       /\ UNCHANGED closureVars
    \/ request = Closure /\ ClosureNext /\ UNCHANGED <<request, reply>>
Spec == Init /\ [][Next]_vars
================================================================================
