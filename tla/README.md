# A verification project for topo-lang-cpp

TLA+ models of the C++ language support of the Topo toolchain, the TLC runs that
check them on small instances, and theorems that the TLA+ proof system checks for
every value of the constants. `PROJECT.json` ties every definition to the lines
it models, every property to a mutation of the code that breaks it, and every
hazard of the code to the properties that would notice it.

To check a run: `tlc -config AuditOnePath.cfg MCAuditFileSystem`. To check the
proofs of a module: `tlapm AuditFileSystem_proofs.tla`.

## 1. The system

topo-lang-cpp is a plug-in: most of its parts are called by tools of the Topo
core (`topo-check`, `topo-build`, `topo-transpile`, `topo-debug`, `topo-lsp`),
whose source is not in this repository. Four parts are processes of their own:
the extractor `topo-extract-cpp`, the debug adapter `topo-debug-cpp`, the static
front end `topo-app-static-cpp`, and the user's program with the runtime headers.

```
   topo-check ──calls──> CppAnalysisProvider ──runs, sandboxed──> topo-extract-cpp
                              │  audit facts, digests   <── result ──  │
                              │                       CppAuditExtractor, per unit:
                              │                       CppAuditFrontend (Clang) reads through
                              │                       CppAuditFileSystem, which reads with
                              │                       CppAuditNativeFile
   topo-build ──> CppDriver / NinjaGen ──> clang++ per source, or ninja
              └─> IsolatedCppBuild ──> sandboxed compiler, published library + manifest
   topo-transpile ──> topo-extract-cpp (bodies to a syntax tree) ──> CppEmitter (tree to text)
   topo-debug CLI <── lines on two pipes ──> topo-debug-cpp ──> LLDB ──> the program
              └─> pattern extractors, macro scan, stubs: one source file at a time
   the program ── topo::ProductConfig ──> topo-app.toml, shared with its user's editor
   the program ── topo::app::App ──> app.topo ── check() ──> topo-check
        └─ its source, not run ──> app_static.h (expressions) or topo-app-static-cpp (Clang) ──> app.topo
```

### 1.1 Inventory

Each component with its state, its operations, what makes it hard, and what makes
it correct. The module is named where there is one; section 6 says why the others
have none yet.

| Component | State | Operations | What is hard | Correct when |
|---|---|---|---|---|
| recording file system (`CppAuditFileSystem`) | recorded answers, first metadata per path, snapshot per file, three budgets, failure, seal | status, open, realpath, list, locality, seal | the disk moves between the three system calls of one status; answers of different kinds must fit | one frozen file explains all answers about a path until failure; nothing is revised; nothing added after the seal. **AuditFileSystem, PinnedView** |
| native file reader (`CppAuditNativeFile`) | one descriptor, what it read so far | open, locate, authorize, read, recheck | rename and write between any two system calls; sizes that lie | only authorized objects are read, all bytes are of one instant, never beyond the bound. **NativeFileRead** |
| analysis provider (`CppAnalysisProvider`) | isolation demanded, input roots, snapshot, expected execution, project and policy | configure, load, export, import, discover | calls in any order, failures half-way, edits and upgrades between steps, a cache shared by processes | isolation is never downgraded; facts describe the inputs that were accepted; the tool that ran is the one named. **AuditProvider** |
| audit extraction (`CppAuditExtractor`) | digests, facts, unresolved list | two parses per unit, comparison at the end | edits between passes, between units, between digest and parse | complete facts come from one version of every input. **AuditExtraction** |
| isolated build (`IsolatedCppBuild`) | stage directory, three published files | pin, stage, describe, compile, inspect, publish | concurrent builds of one target, kill between publications | what is published was verified, and manifest, sidecar and library match. **IsolatedBuild** |
| build driver (`CppDriver`) | check model, concurrent compiler tasks, object and product | write model, validate model, compile, compile incrementally, link | tasks fail in any order; files change between check and use; leftovers of an earlier call | compile only what was checked; return only when every task ended; success means every output is of this call. **CppDriver** |
| Ninja generator (`NinjaGen`) | none | relate to the project, flatten names, escape, generate | two sources, one output; characters that end a path | plain names differ; what is escaped is read back. **NinjaNames** |
| debug adapter (`adapter.cpp`) | one LLDB session, deadline | launch, wait, read variables, continue | program, CLI and clock run beside it; a dozen early exits | values are of the stop; a success is complete; no program is left; it ends if it is let. **DebugAdapter, DebugLayout** |
| transpile extractor (`extractor/main.cpp`) | none between bodies | statements and expressions to a tree; marks for what it cannot express | 60 syntax kinds with positional children | a body without a mark means what it did. **TranslateExpr, ExtractBody** |
| emitter (`CppEmitter`) | none | tree to text | precedence, parentheses | text parses back to the tree. **TranslateExpr** |
| product configuration (`config.h`, `config_model.h`) | three layers, policies, the file | declare, get, set, load, write | rejection half-way, a file format narrower than the values, edits by others | a rejected set changes nothing; what is written is read back. **ProductConfig** |
| compile model (`CppCompileModel`) | none (one load) | parse, expand response files, sanitize, header closure | macros of later headers, shadowing, links, nesting, shell syntax | a cache key covers all a compiler asks about and opens. **HeaderClosure** |
| CMake model | none | read file API replies | — | — |
| audit front end (`CppAuditFrontend`) | temporary AST file, libclang handles | one parse | every limit and failure with resources held | handles and file are released on every path |
| audit driver | none | reject arguments | — | nothing unsupported passes |
| pattern extractors (`CppCallSite-`, `CallEdge-`, `SymbolAccess-`, `SymbolExtractor`) | scope stacks, brace depth, the function under way, an open comment or raw string | one file, line by line, to calls, edges, writes of globals, symbols | one misread line moves all later ones into another scope | what is found is found with its function, scopes and line. **CppLines, CallScanners, SymbolScanners** |
| language-server extractors | none | one file's answers of clangd to symbols, calls, imports | — | — |
| clangd bridge | in the Topo core | definition, references, hover | requests and process end race (in the core) | — |
| safety analyzer, preprocessor scanner | none | clangd's tokens; line map of `clang -E`; subtraction of what the text has | several build commands, headers, macros that drop or repeat an argument | every dangerous call that is compiled is reported at its line. **MacroScan** |
| stub generator (`CppStubGenerator`) | the text it replaced, in the caller's memory | find a function, stub, restore | a name, a quote or a brace that is not code; failed writes, crash, other callers and edits between stub and restore | the named function's body is replaced and nothing else; the source is what it was. **SourceText, CppStub, StubSession** |
| app graph (`app.h`, `app_model.h`, `app_emit.h`, `app_readback.h`, `app_config.h`) | the graph | register, emit, read back, snapshot | three producers of one graph, C++ name lookup and types | emission and read-back agree. **AppGraph, AppProgram** |
| app static front end (`app_static.h`, `AppStaticAnalyze.cpp`) | none | a program's text, or Clang's tree of it, to the graph | what is compiled and executed is not what is written | a graph given without a flag or a note is what the program registers. **AppRegex, AppClang, AppStatic** |
| check of an app (`app_check.h`) | a scratch directory below the temporary one | write the project, copy sources, run topo-check | threads, processes and earlier runs with the same directory | topo-check sees the project of this call. **AppCheck** |
| runtime headers | data of the user's program | containers; calls into the runtime library | exceptions in constructors | — |
| templates, plug-in registration, LLDB formatter, check runner | none | — | — | — |

### 1.2 How they interact

* Provider and extractor share no memory: arguments one way, one JSON result the
  other, both with digests of everything used. Either side may see a file changed
  after the other did. AuditProvider takes an extractor run as two instants (start
  and end) between which files move; AuditExtraction takes the inside of that run.
* Within the extractor, the front end sees the disk only through the recording
  file system, and that one only through system calls and the native reader.
  AuditFileSystem takes the native reader's calls as single steps in which the
  disk may move, and NativeFileRead shows that such a step returns bytes of one
  instant of an authorized object: the assumption of one is the result of the other.
* HeaderClosure's `candidates` and `visited` are what `auditCacheIdentity()` digests, the
  key under which AuditProvider's cache keeps a result.
* topo-check and topo-build meet in the check model's file (CppDriver).
* The transpile extractor's tree is the emitter's input; TranslateExpr holds both
  directions because the property, reading back, needs both.
* The preprocessor scanner runs the call-site extractor twice, on the preprocessed text
  and on the source, and the analyzer joins the difference with clangd's tokens: MacroScan
  takes that extractor's reading of a line as right, and SymbolScanners says when it is.
* StubSession takes finding and replacing a body as one step on opaque texts; CppStub
  is that step, over SourceText's reading of comments and literals.
* The adapter and its CLI share two pipes; the program runs only while the adapter
  is inside a blocking LLDB call.

## 2. The plan

Done here, in this order, the most important behaviour first:

1. **AuditFileSystem** with its abstract specification **PinnedView**, checked and
   proved: everything else the audit claims rests on its record.
2. **NativeFileRead**, **AuditExtraction**, **AuditProvider**: the rest of the audit,
   from one system call up to the checker's session.
3. **IsolatedBuild**, **CppDriver**: what is published, and what a success means.
4. **DebugAdapter**: the one component with a clock, and liveness.
5. **HeaderClosure**: the key of the audit's cache, beside a preprocessor on the same files.
6. **PureFunctions** over the modules of algorithms: HeaderClosure, NinjaNames, DebugLayout, TranslateExpr,
   ExtractBody, and those of 8 to 11 but AppCheck and StubSession.
7. **ProductConfig**: the part that runs inside users' programs.
8. **AppGraph**, **AppProgram**, **AppRegex**, **AppClang**, **AppStatic**: three producers of one
   graph compared; **AppCheck**: the check of it, by threads and processes at once.
9. **SourceText**, **CppStub**, **StubSession**: stub, edit, crash, restore.
10. **CppLines**, **CallScanners**, **SymbolScanners**: the scanners of lines.
11. **MacroScan**: `buildLineMap()`, the subtraction of occurrences, the joined analysis.
12. The proofs (section 5): the state machines of 1 to 5, ProductConfig, AppCheck and StubSession,
    and of the algorithms DebugLayout and NinjaNames.

What is left to prove:

13. What the audit's parts rest on of each other, as theorems across modules: AuditExtraction's
    `OneSource` is what AuditProvider takes an extractor run to be, and HeaderClosure's `KeyCovers`
    what it takes a hit in its cache to mean.
14. The other modules of algorithms. Those that are recursive (TranslateExpr, ExtractBody, AppGraph) would
    have to be written, and proved, as DebugLayout and NinjaNames are: recursive functions over
    positions, with their recursion equations as lemmas.

And what is left to model:

15. **AuditCache**: `auditCacheIdentity()` around HeaderClosure's result, composed with
    AuditProvider's cache, while directories change during the closure.
16. **CompileModel** in the pure functions: the tokenizer (277-318) against a reference
    definition of shell words, response expansion (130-154), and the sanitiser's
    table (156-263): every accepted option keeps its value and its place.
17. **AuditFrontend**: the order of limits and failures with handles and a file held;
    the extractor's `run()` loop; statements and types of the emitter; the read side
    of the configuration.

Abstract specifications worth stating beyond PinnedView: an atomic read of one
authorized object (implemented by NativeFileRead), and an atomic publication of a
triple (which IsolatedBuild does not implement between its three renames, and only
the manifest's digests repair).

## 3. The modules

Names are the code's where TLA+ allows. One action is one handler, or, in a function
other processes can interleave with, the code between two system calls.

| Module | Models | Correspondence |
|---|---|---|
| AuditFileSystem | CppAuditFileSystem.{h,cpp} | variables `obs`, `statuses`, `identities`, `captured`, `strings`, `entries`, `failure`, `sealed` are the members; `disk` is the machine. `Query(p)` has one disjunct per way through `query()` and `record()`; a status query is `StatusBegin`, `StatusResolve`, `StatusRecheck`, with the disk free to move between; `Store` is the tail of `record()` |
| PinnedView | what CppAuditFileSystem.h:33-48 promises | answers are only added, never revised, never after the close, and always explained by one file per path |
| NativeFileRead | CppAuditNativeFile.cpp, POSIX variants | one action per system call of a file or directory read; other processes write, rename, link and unlink between them |
| AuditProvider | CppAnalysisProvider, audit protocol | one action per public call; a load is `Prepare`, `Run`, `ConsumePayload`, and `LoadFails` at any of them; `Restart` ends a process while the cache stays |
| AuditExtraction | CppAuditExtractor.cpp:264-398 | one action per file the extractor touches, in its order, with edits, removals, creations and restorations between |
| IsolatedBuild | IsolatedCppBuild.cpp | one action per step of `buildIsolatedCpp()` with a child process or a file operation; `Fail` at any of them is an exception or a kill |
| CppDriver | CppDriver.cpp | the caller's thread and one task per source; `Ninja` is external and only constrained by what an exit code 0 promises |
| DebugAdapter | adapter.cpp `main()` | four parties: adapter, program, CLI, clock; the adapter is `Blocked` while the program runs, as LLDB is in synchronous mode |
| Requests | — | the request and the reply that the modules of pure functions share |
| HeaderClosure | CppCompileModel.cpp:360-686 | a compilation is a command line, `-include` files and a tree of files, each a sequence of directives. `ScanPending` is one file of the scan, `ExpandLookups` the end of a round; then a preprocessor runs the same files, one directive or one macro replacement at a time, with a stack of the files it is in |
| DebugLayout | adapter.cpp:200-350 | the layout descriptor of arrays and structs, and the addresses the CLI computes from it |
| NinjaNames | NinjaGen.cpp, NinjaGen.h | a source's path made relative to the project, and flattened; escaping, and Ninja's reading of it, which ends a path at a space, a colon or a bar |
| TranslateExpr | extractor/main.cpp expressions; CppEmitter.cpp expressions | the tree of Clang's cursors, its translation, and the text as a token sequence with a reference parser |
| ExtractBody | extractor/main.cpp statements | cursors of statements, their translation, and a reference evaluation of both sides by traces |
| AppGraph | app_model.h, app_emit.h, app_readback.h, app_config.h | graph, meaning (`semantic_key`), the text printed of it as tokens, the reading of the compiler's dump, snapshots |
| AppProgram | app.h | programs reduced to types, aliases, functions and registrations in scopes, and the graph one registers when it is compiled and run |
| AppRegex, AppClang | app_static.h; AppStaticAnalyze.cpp, main.cpp | the two readers of such a program, one function per function of theirs; `threw`, `partial`, notes and exit codes included |
| AppStatic | — | the programs they are tried on, and what each may and may not get wrong |
| AppCheck | app_check.h | one action per step of `check()`: `TakeNumber`, `CreateDirectories`, `WriteFile` or `FailToWrite`, `RunCheck`; calls of threads and of processes take turns between any two |
| SourceText | `strip_comments()`, `isInsideStringOrComment()`, `findMatchingBrace()` | texts character by character, each function beside the language's own rules |
| CppStub | CppStubGenerator.cpp:126-492 | the search for a function by its name, its body and its return type, as positions in a text |
| StubSession | CppStubGenerator.cpp:466-506 | one action per read, open and write of `stubFunction()` and `restoreFile()`; `held` is the `StubResult` in a caller's memory; a read that breaks off is a success with a piece of the text |
| CppLines | — | lines as token sequences, and what the language makes of them, the reference for the scanners |
| CallScanners, SymbolScanners | the four pattern extractors | the locals of each loop are the fields of `s`; one operator per block of the loop, in its order |
| MacroScan | CppSafetyAnalyzer.cpp, CppPreprocessorScanner.cpp | files as lines of calls and macros, `clang -E` of them, tokens clangd names and tokens it does not, the line map, the subtraction, both halves joined |
| PureFunctions | — | a machine that answers one request to one of these functions, so that TLC enumerates requests as states; the key of a compilation is the one answer that takes many steps, those of HeaderClosure |
| ProductConfig | config.h, config_model.h | one action per `declare`, `set`, `from_file`; the file format is what it makes of a key and a value |

Each module `M_proofs` extends the module M it is about and is described in section 5.
AuditProvider_proofs also holds the proofs about HeaderClosure, the key of the provider's cache;
DebugAdapter_proofs those about DebugLayout and NinjaNames, which share their lemmas
on recursion; RewrittenFiles_proofs those about StubSession, ProductConfig and AppCheck, the
three components that write over files that are there.
MCUserProgram runs ProductConfig, AppCheck or StubSession, which share nothing, one at a time while the
others stay as they began. The other MC modules hold only definitions of small constants, initial states that break
symmetry, and symmetry sets.

## 4. The runs

All bounds are constants of the configuration files. "Moves" are steps of the
machine outside the program: edits, renames, upgrades.

| Run | Bounds | Why they are enough |
|---|---|---|
| one_path | either 1 path with 5 queries and 2 moves, or 2 paths of one file with 3 queries and 1 move; 2 physical places, 2 files, 1 directory, 3 contents of which two have one length; budgets within reach | record() compares answers about one path pairwise; two moves are a change and a change back; five queries are each kind once; the comparison of two spellings needs a read of each with one rewrite between, with restored timestamp too |
| native_read | 2 places, 3 files, contents up to 3 bytes, chunk smaller than a file, moves between all calls | a read of several chunks, one object moved in and another out |
| provider | 2 projects that may be roots of each other and whose compilation models list every file, 3 files, 2 moves, 2 processes, 1 export | a downgrade needs a session configured twice, and a cache from another process |
| extraction | 2 units sharing two candidate headers and a response file, 2 moves | an edit and its undoing around each read of a unit, around a digest, and one before and one during the comparison |
| extraction_response | the same with 1 move; expected violation | section 7 |
| isolated_build | 2 builders, 4 versions of the source, 2 moves, 3 attempts | one builder's leftovers against another's, with one retry |
| cpp_driver | 2 sources, 2 command lines, 2 moves, 2 calls | a failing and a running task; a call after a call that left something; a check model replaced between its two reads by that of a source or compiler that moved as well |
| debug_adapter | every list of up to 3 requested variables; 2 lines of input | a pair after a pair; a dropped line before a continue |
| debug_timeout | 1 variable, 1 line, a program that runs on; expected violation | section 7 |
| pure_functions | for HeaderClosure a source of up to 2 uses or definitions, up to 2 headers, under `#if` or not, 2 names in 2 roots, a quoted root and a linked directory, 2 macros, those of the command line and `-include` files, nesting 3; expressions and statements to the depth the modules name; graphs of 2 handlers and 3 stages; paths of up to 5 tokens, from the root or from the project in `/a`; programs that vary one of types, scopes, registrations, flows or the dump at a time; texts of 5 characters; 16 beginnings, 4 scopes, 8 heads, 17 bodies and 3 ends of a function in lines; macros in 2 places of a line, in a header and for 2 commands, with a name clangd skips | a macro given in one file, changed in a second and used in a third, a header behind another of the same name; each construct as the child of each other one; two characters that open, one that escapes, two that close; what a line leaves behind meets every kind of later line |
| user_program | configuration: 1 program and the editor, 3 keys of which one is below another and a key of a build, 3 sets, 1 file the user saves; check of an app: 2 calls of one process or of two, up to 2 sources each, 1 directory left behind, 1 failure; stubs: 2 callers, 1 file, 2 stubs held by each, 1 edit, any read cut short | a rejected set between two accepted ones, then a restart; all that a call of `check()` can meet in its directory is of one other call or of one earlier process; a stub of a stubbed file, undone in order, while another caller, the user or a failed write is in between |
| failed_set | the configuration alone; expected violation | section 7 |

What each property says is in the comment above it. Deadlock is not checked in these
runs, since in each the system really stops: a recorder that is full, a call bound
that is used up, an adapter that has exited.

### Fairness

Only two modules state fairness. **CppDriver**: the caller's thread runs, and every
compiler ends (`WF` of each): `std::async` starts real threads, and a compiler that
never ends is not caught by the code, so nothing would be claimed without it.
**DebugAdapter**: the adapter takes its steps when it is not blocked, and the clock goes
on (`WF` of each). Nothing is assumed of the program or of the CLI, of which the code
guarantees nothing: `AdapterEnds` says that the adapter ends, or stays for ever inside a
`Launch()` or `Continue()` that a program neither stops nor ends, or waits for ever
for a line. The ten seconds the code promises are refuted by debug_timeout.

## 5. The proofs

Eight modules hold theorems, about eleven state machines and two modules of functions. For a state
machine the plan is the same everywhere: an inductive invariant `IInv` (`ConfigIInv`, `CheckIInv`,
`ClosureIInv` where one module holds several), `Init => IInv`, `IInv /\ [Next]_vars => IInv'` by one
lemma per part of `IInv` or per action, and each theorem from `Spec => []IInv`. Each `IInv` was model-checked
on the constants of the machine's run (`ClosureIInv` on a few hundred of its compilations). A theorem
`TypeCorrect` is in each: `TypeOK` is the part of `IInv` everything else needs.

| Module | Theorems | The property that a run checks |
|---|---|---|
| AuditFileSystem_proofs | `OneFile`, `Refinement`, `Budgets`, `OpenedAliases`, `NoFalseAlarm` | `OneFileBehindEachPath`, `ImplementsPinnedView`, `BudgetsHold`, `OpenedAliasesAgree`, `QuietDiskNeverFails` |
| NativeFileRead_proofs | `ReadsAuthorized`, `OneInstant` | `ReadsOnlyAuthorizedObjects`, `ReadIsOneInstant` |
| AuditExtraction_proofs | `OneSource`, `OneInstant` | `CompleteFactsHaveOneSource`, `ResultIsOneInstant` |
| AuditProvider_proofs | `NeverDowngraded`, `FactsAreOfTheInputs`, `Confined` | `IsolationNeverDowngraded`, `FactsDescribeAcceptedInputs`, `DiscoveryStaysConfined` |
| — HeaderClosure | `KeyCovers` | `KeyCoversPreprocessing` |
| IsolatedBuild_proofs | `OnlyVerified`, `PublicationsBelongTogether` | `OnlyVerifiedOutput`, `PublicationBelongsTogether` |
| CppDriver_proofs | `NothingUncheckedIsCompiled`, `EveryCompilerIsJoined`, `SuccessMeansComplete` | `CheckedBeforeCompiling`, `NothingRunsOn`, `SuccessIsComplete` |
| DebugAdapter_proofs | `WholePairsInOrder`, `OneInstant`, `NothingLeftBehind` | `CompleteOnSuccess`, `FrozenUntilContinue`, `NoProgramLeftBehind` |
| — DebugLayout, NinjaNames | `LayoutFits`, `NamesAreToldApart` | `DescriptorFitsPayload`, `OutputsAreToldApart` |
| RewrittenFiles_proofs: StubSession | `NothingIsLost` | `TextIsNeverLost` |
| — ProductConfig | `SetAllOrNothing`, `PlainLayersReadBack` | `SetIsAllOrNothing`, `ReadsBackAsWritten` |
| — AppCheck | `OwnProject` | `ChecksItsOwnProject` |

With them every safety property that a passing run checks of these modules is proved for every value
of the constants: sets of files, processes and callers of any size, any number of moves and calls, headers
that include one another to any depth, arrays of any number of dimensions, names of any length.

### Why each property holds

* **AuditFileSystem**, one file behind each path. A replayed status has no physical path, so only
  the table `statuses_` ties it to the other answers, and the table is filled in the middle of a
  status query. `IInv` adds `Known` (every positive answer with metadata agrees with the table,
  no negative answer is about a path in it) and `PendingKnown` (a query under way has its metadata
  in the table and no answer yet). `FittingAnswer` reduces storing an answer to `Fits`, and each
  action shows that what it stores fits. From the same invariant each step is one of PinnedView or
  a stutter (`Refinement`).
  Budgets: each charge is checked before it is made, except that the metadata of a status is
  charged at its start and the answer stored at its end; `BudgetInv` says that a query
  under way has kept room for its answer. Aliases: `AliasInv` says every answer of an opened
  file equals what `identities_` keeps for it. No false alarm: `QuietInv` says that
  everything recorded is what the unmoved disk says now, so that no comparison can differ; it
  needs that an error of the disk and an error of the recorder are different.
* **NativeFileRead**. The reader checks the place of its descriptor against the policy before the
  first byte, and then the object may be renamed or unlinked: `PlaceOK` keeps that an authorized
  place is among those the object has been seen at, from `Granting` on. One instant: `HeldOK` says
  that the present content is among those the object had since the first `fstat`, and is the only
  one while its timestamp is the first and no write was hidden; `GotOK` that what was read is a
  prefix of it; `BoundsOK` gives the loop's arithmetic.
* **AuditExtraction**. Nothing is locked, so the argument is by contents: a problem once seen stays
  (`unresolved` is never reset, `ThereOK`), facts that were kept carry the digests of the table
  (`FactsOK`), and a file that has its recorded contents during the final comparison had them when
  that began or got them back since (`InstantOK`). The instant of the theorem is the start of the
  comparison, and not one of the parses. A file that had changed and was put back during the
  comparison is the exception the theorem names (`restored`): no digest can tell, and the bytes
  the facts come from are still those of the digests (`OneSource` has no exception).
* **AuditProvider**. The policy, the expectation and the plan of a load are three fields set by
  different calls. `ExpectedOK` relates them whenever isolation is required, `LoadOK` for each
  step of a load, `AuditOK` for what a load left, and `CacheOK` for what another process left:
  the tool that ran is the one named, because tools are compared before and after the run and
  their versions only grow (`Older`).
* **IsolatedBuild**. Tools are compared before and after a run and never during it; `Between` says
  why that is enough: versions only grow. `OwnerOK` and `OneOwner` say that a build between its
  first and its last rename owns the target, since the first refuses a library that is there.
* **CppDriver**. The pinned model's file is read twice, and between the reads any model may take its place,
  also the one this call has computed. What is compiled is what the second read found; `PinnedOK` and `LaunchOK`
  say that this is the pinned model, unless the file was replaced between the reads (`swapped`), which the
  theorem names as the exception: the digest is then of a file that is no longer there.
  `ResultsOK`: a task that ended well has made its output in this call, the loop over the
  results passed only such tasks, and nothing runs once the call has left.
* **DebugAdapter**. `WireOK` says for each point of `main()` what is on the wire: nothing before the
  hit, a pair for each variable the loop has passed, all of them behind the loop.
  Frozen: only Launch() and Continue() let the program run, and no call between the hit and the
  continue does.
* **StubSession**. A caller's results and its call under way are one list, `Reads`; for an undisturbed file
  at most one caller uses it (`OneUser`), and its list either begins with the user's text or keeps
  nothing and the text is on disk (`KeptOK`). `Careful` is what each action must do for that: a first text
  stays first or is put back, a file is read before it is changed. A file of which a caller has read a piece and
  takes it for the whole text counts as disturbed, as section 7 says.
* **HeaderClosure**. The preprocessor follows one body of each macro, the closure all of them at once, so
  the argument is about what is left of an operand: `Covered` says that its expansion does not throw and
  that every path it may lead to is in the key. Once there is a key every lookup is covered (`KeyedOK`); the
  body a macro has is among those collected (`DefinedOK`), so that what is covered stays covered when
  a macro is replaced; and a file that is a candidate and exists has been scanned (`FoundOK`), so that the
  next file's lookups are covered too. `expandHeaderLookup` is recursive: that it has a value follows by
  induction over the number of identifiers it has not replaced, since it throws at one it has (`ExpansionIs`).
* **ProductConfig**. `set()` changes the layer first and writes the file last: `ProgramSafe` says that
  while the file is written the value is in the layer and nothing is reported yet, so that an error reported
  earlier leaves the layer as it was. Reading back is an equivalence, in two lemmas: of a `Plain` layer every key is
  printed whole, and of any other one loses something (`PlainReadsBack`, `ReadBackIsPlain`).
* **AppCheck**. Calls of one process have different numbers, since each takes one below the counter
  (`Counted`, `OneEach`); a directory that was not left over was made by a call with its number
  (`DirectoriesOK`). So an undisturbed call finds none, and nobody but it writes there: what is in it is what the
  call has written so far (`CallSafe`, `SoFar`).
* **DebugLayout, NinjaNames**. Both are recursive functions over positions. Induction is the well-foundedness of
  finite sets (`UpTo_n`: the numbers for which something holds, as a set), and a recursive definition is known
  by its recursion equations, which one lemma (`Recursion`) gives for any step. Layout: an element lies within the block of
  the dimensions inside it, and the first dimension in which two elements differ orders them
  (`ElementsStayWithin`, `ElementsAreOrdered`). Names: Ninja's reader, at the place where the text of the first
  k characters ends, has read those k (`ReadBack_k`), and what is escaped later does not change what is before it
  (`WrittenStays`). Two sources of the project that are made relative to it stay different: the first token that is
  no step up is at an odd place, which says how many steps up there were, and so what was dropped
  (`ClimbedOnce`, `RelativeDiffers`).

### What the proofs assume

Only the named assumptions of the modules: bounds and sizes are naturals; files and directories,
errors of the disk and of the recorder, and `None` and the values are different things; the policy names
physical places, finitely many where they are counted; a pinned tool version is one that there is; the identifiers
of a compilation are finitely many and its files sequences of lines; a key of the configuration is a path, and what an
editor saves is a file; a word of a name contains no separator and nothing that
Ninja escapes or ends a path at, and is not `..`; the project's directory is a sequence of words.
No assumption bounds a number of processes, files or moves. TLC evaluates them in the runs.

A tool in AuditProvider, IsolatedBuild and CppDriver, a source of CppDriver and a file of AuditProvider
change to versions they never had. The code compares digests before and after a run, so that a tool
replaced before the run and put back after it goes unnoticed; that is outside these models, and their
theorems do not speak of it. Contents come back in AuditFileSystem, NativeFileRead, AuditExtraction and
the source of IsolatedBuild.

A model's bounds that are guards (`MaxMoves`, `MaxCalls`, `MaxEdits`) are constants of the theorems, for every
value of them.

### What the proofs changed in the models

* `DiscoveryStaysConfined` could not be proved as it was stated: it took the roots of the analysed
  project only, and held in the run because each compilation model there listed files of its own project.
  A policy that an earlier call granted is in force until it is replaced, and a model may list any
  file. The property now allows the policy in force, and the run's models list every file for every
  project.
* `CompleteOnSuccess` compared kinds of records; `PairsSent` now says of each pair that its descriptor
  is that of the variable, with the right kind.
* Flags of a forged model are not flags of a call (CppDriver), the place of an unlinked file is no
  place (NativeFileRead), and `ELOOP` and lost paths are not physical places (AuditFileSystem):
  assumptions the models had made silently.

* AppCheck and HeaderClosure were functions of a request, checked on lists of schedules and programs. They are
  state machines now: any number of calls in any order, with reads and writes that fail; files of any number of lines,
  branches taken either way, each open file with its place.
* ProductConfig: the build keys are keys of the file too; the editor may save them.
* DebugLayout and NinjaNames are written without `RECURSIVE`, and `DescriptorFitsPayload` also says
  that elements lie in the order of their indices. DebugAdapter's requests are all lists up to a length, and no longer
  a set the run gives.

### Only model-checked

* `AdapterEnds` and `CallsReturn`: liveness under fairness.
* What PureFunctions asks of TranslateExpr, ExtractBody, AppGraph, AppStatic (AppRegex, AppClang), SourceText,
  CppStub, SymbolScanners (CallScanners, CppLines) and MacroScan: these are about recursive operators over trees and
  folds over lines, which the prover cannot unfold, and are checked on every input up to a depth.

## 6. What is not modelled

* Windows variants throughout (`#ifdef _WIN32`): the POSIX ones differ in their calls,
  not in their order.
* The Topo core: LSP bridge, process library, sandbox. They are used as external
  actions that may fail or take any result their interface allows.
* The language-server extractors, CppImportExtractor, the catalogue's tables of names,
  templates and the LLDB formatter: conversions of text whose correctness is about the text
  itself. The containment check that reads the extractors' results is the Topo core's.
* In the scanners of lines: `#define` over several lines, `#if` branches (all are read), the
  types of parameters, and the many patterns of CppCallSiteExtractor, of which a call and an
  escape stand for all. In the static front end: `wrapSource()`, and what Clang's JSON
  looks like beyond the nodes that are read.
* Runtime containers and wrappers: one-line members, or calls into a library that is
  not here.
* Parts of modelled components: relative spellings and pinned handles of the recording
  file system; discovery by directory walk beyond its set of roots in the provider;
  the generation of the Ninja file's text; the emitter's statements, types and template
  clauses; the extractor's signatures; the compile model's tokenizer and sanitiser, the
  limits of the header closure and the compiler's built-in macros in it; in the configuration, queries and the browse
  interface, and types of values beyond what the file format distinguishes.

## 7. Findings

Three runs are expected to find a violation.

* **extraction_response** (CppAuditExtractor.cpp:314). The digests of a unit's response
  files replace those of earlier units without a comparison. Two units use one
  response file, it is edited between them, and only the later digest is compared at
  the end: the result is complete although the first unit was parsed with other
  arguments. Lines 384-385 say the result is bound "to the exact parsed input set".
* **failed_set** (config.h:598). `write_external()` truncates the file before the new
  text is computed. A datetime taken from the user's file cannot be written, nor can
  an integer of nine digits with a minus sign once it was read back as a date: `set()`
  throws and the file is empty. config_model.h:594-595 says a rejected write "never
  leaves a partial state".

* **debug_timeout** (adapter.cpp:469, :515). adapter.cpp:21 says that a clock of ten seconds "guards
  the breakpoint wait", and 478-479 that it bounds "the total wait". The deadline is read only
  between two calls that block: a program that neither stops nor ends keeps the adapter in
  the wait for ever, with the deadline long past.

Disagreements met while modelling, stated in comments of the modules and not run:

* A program that the adapter kills after the continue is an exit code 0 as well.
* A check model that is replaced between its digest (CppDriver.cpp:117) and its second
  reading (:120) by the model of the present commands is executed, though it is not the
  pinned one; `CheckedBeforeCompiling` says what holds.
* `splitSite()` accepts `-1`, `12x` and numbers wider than the line field
  (adapter.cpp:178-179).
* `flattenSourceName()` is called unique (NinjaGen.h:40): `a/b.cpp`, `a_b.cpp` and `a\b.cpp` share
  an output, as do `main.cpp` and `main.cc`; a source given from the root and one given from the project
  may. A bar in a path is not escaped and ends it. `OutputsAreToldApart` states when names differ and paths are kept.
* A source edited after the check and before its compiler reads it is compiled
  (CppDriver.h:20-21).
* Case labels that share a statement lose all but one (main.cpp:1610-1611), a do-while
  becomes a while (1645), of several declarators or nested blocks the first is kept.
* The emitter prints no parentheses around an operand that binds less tightly; the
  extractor loses casts, receivers of member calls and the quotes of strings in places.
* Forms of expressions that lose something without a mark: `p->m` is emitted as `p.m`, a member
  without its object as `this.m` (main.cpp:1110-1126), `new T(x)` becomes the construction of a
  pointer type (1281-1292), an operator of a class loses its left operand and a
  constructor's expression its type (1161-1164), copies become their object, and qualifiers and
  template arguments are dropped. `Loses` in TranslateExpr lists them.
  The properties of the pure functions say for which trees this does not matter.
* `from_file()` drops the policies of the store it replaces (config.h:453-456); records,
  keys below keys with values and infinities do not survive the file. `ReadsBackAsWritten`
  says what does.
* app_static.h:11-14 says every construct it does not read is detected; `MisreadByRegex`
  lists those that are neither refused nor flagged (calls in loops or disabled branches,
  names that are sums or macros, a second flow, lambdas, namesakes in two namespaces), and
  `strip_comments()` takes a digit separator for a quote (:97-99).
* AppStaticAnalyze.h:43-46 says nothing is dropped silently; `MisreadByTool` lists what is,
  with exit code 0 and no warning.
* app_readback.h:116 takes records to be flat, while app.h makes nested ones; a stage named
  `void` is read back as the end of its flow.
* app_check.h:61 calls the scratch directory unique to the process, but its number starts at
  0 in each process and nothing is removed: files of an earlier run are checked too.
* CppStubGenerator.cpp:31-34 has `u8'e'` told apart from a digit separator; it is not. A void
  function whose name is qualified or whose return type trails is stubbed with a value
  (`GivenAValue`), a member of an initializer list is taken for the function (`Initializes`).
  A write that fails when the stream is closed, after `good()` was asked (:58), is reported
  as a success, and a caller that ends takes the only copy of the text with it. A read that
  breaks off is a success with a piece of the text (:44-51), which a stub or a restore then writes back as the whole.
* CppCallSiteExtractor leaves no function whose braces are in one line, and enters one at
  a prototype, so that calls of later functions are reported for it (:571-574, :621-625);
  CppSymbolAccessExtractor.cpp:420-429 was repaired for the first, CppCallEdgeExtractor for the
  second. None of them knows a head `C::m()` or a scope opened and closed in one line. A
  dangerous call in an initializer outside of functions is not reported, although F1.2
  (CppCallSiteExtractor.cpp:658) scans there. A statement beside the brace that closes a body
  is skipped. CppSymbolExtractor reports `return f(x)` as a symbol, and a member behind a
  nested class as private. `MisreadFor...` in SymbolScanners is the list for each scanner.
* A call that only a second build command compiles, one in the text of a header that is not
  analyzed itself, and one that a macro makes where the text has the same name unused
  are reported by neither half of the safety analysis, nor is one for whose token clangd has
  no hover or no name, which is skipped without a warning (CppSafetyAnalyzer.cpp:174-179) while
  the subtraction counts its text; files without tokens "were
  covered only by F4b" (CppSafetyAnalyzer.cpp:115), which covers calls made by macros only.
