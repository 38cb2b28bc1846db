-------------------------------- MODULE CppDriver --------------------------------
(* topo-build/CppDriver.cpp: the check model, and the compilation of the sources *)
(* to LLVM IR, directly with one concurrent compiler per source, or by Ninja,    *)
(* and the step from optimized IR to the product (linkCpp).                      *)
(* topo-check writes a model of the compile commands (writeCppCheckModel); a     *)
(* later call with a pinned model must find its own commands equal to it.        *)
(* Between and during the calls, sources are edited, the compiler is upgraded,   *)
(* and the model's file is replaced: also between the two reads a call makes.    *)
EXTENDS Integers

CONSTANTS
    NumSources,   \* length of cfg.sources
    Flags,        \* the command lines a configuration may ask for
    Forged,       \* a command line no configuration asks for
    MaxMoves,     \* bound: edits, upgrades and replaced files in one behaviour
    MaxCalls,     \* bound: calls in one behaviour
    Torn, None

ASSUME SourceAssumption == NumSources \in Nat
ASSUME FlagAssumption == Flags # {} /\ Forged \notin Flags
ASSUME BoundAssumption == MaxMoves \in Nat /\ MaxCalls \in Nat

Sources == 1 .. NumSources
Entries == {"writeCppCheckModel", "validateCppCheckModel", "compileCpp", "compileCppIncremental", "linkCpp"}
OutputTypes == {"exe", "shared", "static"}
Modes == {"", "commands", "isolated-build"}
Versions == 0 .. MaxMoves

(* What writeCppCheckModel() writes down, each part by its version or digest. *)
Models == [flags : Flags \cup {Forged}, compiler : Versions, source : [Sources -> Versions]]
Objects == [source : Versions, flags : Flags \cup {Forged}, call : 0 .. MaxCalls]

(* The file of the check model: a model, none, or one whose writing failed. *)
Contents == Models \cup {None, Torn}

ASSUME NoneAssumption == None \notin Objects \cup Models \cup {0, 1, Torn} /\ Torn \notin Models

VARIABLES
    source, compiler,     \* the machine: versions
    file,                 \* the machine: the contents of the check model's file
    moves, calls,
    cfg,                  \* the BuildConfig and entry point of the call
    pc, exit,             \* the caller's thread
    model,                \* the model computed so far in this call
    index,                \* its loop variable
    second, swapped,      \* ghosts: what the second read of the pinned file found in this
                          \* call, and whether the file changed between its two reads
    task,                 \* per source: the std::async task of this call
    outputs,              \* the .ll files, per directory and source
    object, product       \* linkCpp: the object file in tempDir and the product at
                          \* outputPath, by the call whose IR they are of, or None;
                          \* Torn if a tool died on it

machine == <<source, compiler, file, moves>>
vars == <<source, compiler, file, moves, calls, cfg, pc, exit, model, index, second, swapped, task, outputs,
          object, product>>
linked == <<object, product>>
reads == <<second, swapped>>

--------------------------------------------------------------------------------
IgnoresRecorder == cfg.evidence # "" \/ cfg.pinned # None     \* mutant
(* Calls that must execute the checked command model. *)
Audited == cfg.recorder \/ cfg.evidence # "" \/ cfg.pinned # None

Step(from, to) == pc = from /\ pc' = to /\ UNCHANGED <<calls, cfg, linked>>
Fail(from) == Step(from, "idle") /\ exit' = 1 /\ UNCHANGED <<machine, model, index, task, outputs>>

NoConfig == [entry |-> "compileCpp", evidence |-> "", recorder |-> FALSE,
             flags |-> CHOOSE f \in Flags : TRUE, pinned |-> None, output |-> "exe"]

(* A caller pins the model it finds on disk, or none; only those with commands   *)
(* to execute take a recorder.  compileCpp() and Ninja part ways at once.        *)
Call ==
    /\ pc = "idle" /\ calls < MaxCalls
    /\ calls' = calls + 1
    /\ cfg' \in [entry : Entries, evidence : Modes, recorder : BOOLEAN,
                 flags : Flags, pinned : {None, file}, output : OutputTypes]
    /\ cfg'.entry = "writeCppCheckModel" => cfg'.pinned = None
    /\ cfg'.recorder => cfg'.entry \in {"compileCpp", "compileCppIncremental"}
    /\ IF cfg'.entry = "linkCpp"
         THEN cfg' = [NoConfig EXCEPT !.entry = "linkCpp", !.output = cfg'.output] /\ pc' = "link"
         ELSE cfg'.output = "exe" /\ pc' = "begin"
    /\ exit' = None
    /\ model' = [flags |-> cfg'.flags, compiler |-> 0, source |-> [s \in Sources |-> 0]]
    /\ index' = 1 /\ task' = [s \in Sources |-> "none"]
    /\ second' = None /\ swapped' = FALSE
    /\ UNCHANGED <<machine, outputs, linked>>

ByNinja == cfg.entry = "compileCppIncremental" /\ ~Audited
Compiles == cfg.entry \in {"compileCpp", "compileCppIncremental"}

(* The evidence guard of compileCpp(), then cppCommandModel(): resolve and hash  *)
(* the compiler, which may fail; then hash one source after another.             *)
Begin ==
    /\ ~ByNinja
    /\ IF Compiles /\ cfg.evidence = "isolated-build"
         THEN Fail("begin")
         ELSE /\ Step("begin", "hash")
              /\ model' = [model EXCEPT !.compiler = compiler]
              /\ UNCHANGED <<machine, exit, index, task, outputs>>
    /\ UNCHANGED reads

HashSource ==
    /\ index \in Sources
    /\ Step("hash", "hash")
    /\ model' = [model EXCEPT !.source[index] = source[index]]
    /\ index' = index + 1
    /\ UNCHANGED <<machine, exit, task, outputs, reads>>

HashFails == pc \in {"begin", "hash"} /\ ~ByNinja /\ Fail(pc) /\ UNCHANGED reads

(* checkedCppCommandModel(): without a pinned model what was computed is taken;  *)
(* with one, its file must have the pinned digest and then, in a second read,    *)
(* the bytes of the model computed here.                                         *)
Checked == IF Compiles THEN "spawn" ELSE "answer"

Computed ==
    /\ index \notin Sources
    /\ \/ cfg.pinned = None /\ Step("hash", Checked)
       \/ cfg.pinned # None /\ file = cfg.pinned /\ Step("hash", "compare")
    /\ index' = 1
    /\ UNCHANGED <<machine, exit, model, task, outputs, reads>>

Changed ==
    /\ index \notin Sources /\ cfg.pinned # None /\ file # cfg.pinned
    /\ Fail("hash")
    /\ UNCHANGED reads

DigestOnly == TRUE         \* mutant: the pinned digest is taken for the comparison
SameBytes == file = model

Compare ==
    /\ \/ /\ SameBytes
          /\ Step("compare", Checked)
          /\ UNCHANGED <<machine, exit, model, index, task, outputs>>
       \/ ~SameBytes /\ Fail("compare")
    /\ second' = file
    /\ UNCHANGED swapped

(* writeCppCheckModel() and validateCppCheckModel() return.  The first truncates  *)
(* the file and writes the model, unless the file cannot be opened or written.   *)
Answer ==
    /\ Step("answer", "idle")
    /\ IF cfg.entry = "writeCppCheckModel"
         THEN \/ exit' = 0 /\ file' = model
              \/ exit' = 1 /\ file' \in {file, Torn}
         ELSE exit' = 0 /\ UNCHANGED file
    /\ UNCHANGED <<source, compiler, moves, model, index, task, outputs, reads>>

--------------------------------------------------------------------------------
(* compileCpp(): one std::async per command, then get() in order. *)
Spawn ==
    /\ IF index \in Sources
         THEN /\ Step("spawn", "spawn")
              /\ task' = [task EXCEPT ![index] = "running"]
              /\ index' = index + 1
         ELSE Step("spawn", "wait") /\ index' = 1 /\ UNCHANGED task
    /\ UNCHANGED <<machine, exit, model, outputs, reads>>

(* A compiler reads its source now, whatever was hashed before, and replaces its *)
(* output only when it succeeds.                                                 *)
Compile(s) ==
    /\ task[s] = "running"
    /\ \/ /\ task' = [task EXCEPT ![s] = "ok"]
          /\ outputs' = [outputs EXCEPT !["direct"][s] =
                           [source |-> source[s], flags |-> model.flags, call |-> calls]]
       \/ task' = [task EXCEPT ![s] = "failed"] /\ UNCHANGED outputs
    /\ UNCHANGED <<machine, calls, cfg, pc, exit, model, index, linked, reads>>

Get ==
    /\ index \in Sources /\ task[index] = "ok"
    /\ Step("wait", "wait")
    /\ index' = index + 1
    /\ UNCHANGED <<machine, exit, model, task, outputs, reads>>

MissesLaterFailures ==      \* mutant: only the first result is looked at
    /\ index = 1 /\ task[index] = "failed"
    /\ Step("wait", "leave")
    /\ exit' = 1
    /\ UNCHANGED <<machine, model, index, task, outputs, reads>>
GetFailure ==
    /\ index \in Sources /\ task[index] = "failed"
    /\ Step("wait", "leave")
    /\ exit' = 1
    /\ UNCHANGED <<machine, model, index, task, outputs, reads>>

GetAll ==
    /\ index \notin Sources
    /\ Step("wait", "leave")
    /\ exit' = 0
    /\ UNCHANGED <<machine, model, index, task, outputs, reads>>

(* The futures' destructors wait for the tasks get() was not called for. *)
Detached == TRUE       \* mutant: threads that nobody joins
AllJoined == \A s \in Sources : task[s] # "running"
Leave ==
    /\ AllJoined
    /\ Step("leave", "idle")
    /\ UNCHANGED <<machine, exit, model, index, task, outputs, reads>>

--------------------------------------------------------------------------------
(* The other path of compileCppIncremental(): generate build.ninja and run Ninja *)
(* (external), which keeps an output that exists or makes it anew, by times and  *)
(* command lines; a failed run may have made some of them.                       *)
Ninja ==
    /\ ByNinja
    /\ Step("begin", "idle")
    /\ \E made \in SUBSET Sources :
         /\ outputs' = [outputs EXCEPT !["ninja"] = [s \in Sources |->
                IF s \in made
                  THEN [source |-> source[s], flags |-> cfg.flags, call |-> calls]
                  ELSE @[s]]]
         /\ \/ exit' = 1
            \/ exit' = 0 /\ \A s \in Sources \ made : outputs.ninja[s] # None
    /\ UNCHANGED <<machine, model, index, task, reads>>

--------------------------------------------------------------------------------
(* linkCpp(): an executable or a shared library takes one tool, which writes the  *)
(* product, or fails with the old one or half of one.                            *)
Product(from, result) ==
    /\ pc = from /\ pc' = "idle"
    /\ \/ exit' = 0 /\ product' = result
       \/ exit' = 1 /\ product' \in {product, Torn}
    /\ UNCHANGED <<machine, calls, cfg, model, index, task, outputs, object, reads>>
Link == cfg.output \in {"exe", "shared"} /\ Product("link", calls)

(* A static library takes two: "cpp-object", which leaves the old object or none *)
(* when it fails, and "cpp-archive", which needs the object to be there.         *)
MakeObject ==
    /\ pc = "link" /\ cfg.output = "static"
    /\ \/ object' = calls /\ pc' = "archive" /\ UNCHANGED exit
       \/ object' \in {object, None} /\ pc' = "idle" /\ exit' = 1
    /\ UNCHANGED <<machine, calls, cfg, model, index, task, outputs, product, reads>>
Archive == Product("archive", object) /\ (exit' = 0 => object # None)

--------------------------------------------------------------------------------
(* The machine moves at any time.  Another process may replace the model's file  *)
(* by one of the machine as it is, for any configuration or forged, leave half   *)
(* of one there, or remove it.                                                   *)
Moves ==
    /\ moves < MaxMoves
    /\ moves' = moves + 1
    /\ \/ \E s \in Sources : source' = [source EXCEPT ![s] = @ + 1] /\ UNCHANGED <<compiler, file>>
       \/ compiler' = compiler + 1 /\ UNCHANGED <<source, file>>
       \/ /\ file' \in {None, Torn} \cup [flags : Flags \cup {Forged}, compiler : {compiler}, source : {source}]
          /\ UNCHANGED <<source, compiler>>
    /\ swapped' = (swapped \/ (pc = "compare" /\ file' # file))
    /\ UNCHANGED <<calls, cfg, pc, exit, model, index, second, task, outputs, linked>>

Init ==
    /\ source = [s \in Sources |-> 0] /\ compiler = 0 /\ file = None
    /\ moves = 0 /\ calls = 0
    /\ cfg = NoConfig /\ pc = "idle" /\ exit = None
    /\ model = [flags |-> NoConfig.flags, compiler |-> 0, source |-> source]
    /\ index = 1 /\ task = [s \in Sources |-> "none"]
    /\ second = None /\ swapped = FALSE
    /\ outputs = [d \in {"direct", "ninja"} |-> [s \in Sources |-> None]]
    /\ object = None /\ product = None

Driver ==
    \/ Begin \/ HashSource \/ HashFails \/ Computed \/ Changed \/ Compare \/ Answer
    \/ Spawn \/ Get \/ GetFailure \/ GetAll \/ Leave \/ Ninja
    \/ Link \/ MakeObject \/ Archive

Next == Call \/ Driver \/ (\E s \in Sources : Compile(s)) \/ Moves

(* The caller's thread runs, and every compiler ends. *)
Fairness == WF_vars(Driver) /\ \A s \in Sources : WF_vars(Compile(s))

Spec == Init /\ [][Next]_vars /\ Fairness

--------------------------------------------------------------------------------
(* Every variable stays in its type. *)
TypeOK ==
    /\ source \in [Sources -> Versions] /\ compiler \in Versions
    /\ file \in Contents /\ moves \in Versions /\ calls \in 0 .. MaxCalls
    /\ cfg.entry \in Entries /\ cfg.evidence \in Modes /\ cfg.recorder \in BOOLEAN
    /\ cfg.flags \in Flags /\ cfg.pinned \in Contents /\ cfg.output \in OutputTypes
    /\ pc \in {"idle", "begin", "hash", "compare", "answer", "spawn", "wait", "leave",
              "link", "archive"}
    /\ exit \in {None, 0, 1}
    /\ model \in Models /\ index \in 1 .. NumSources + 1
    /\ second \in Contents /\ swapped \in BOOLEAN
    /\ task \in [Sources -> {"none", "running", "ok", "failed"}]
    /\ outputs \in [{"direct", "ninja"} -> [Sources -> Objects \cup {None}]]
    /\ object \in {None} \cup 1 .. MaxCalls /\ product \in {None, Torn} \cup 1 .. MaxCalls

(* No compiler starts in a call that asks for isolated evidence, nor in one whose *)
(* pinned file is found to describe other commands than the call executes: "stale *)
(* source/tool/environment/config inputs" are rejected "before any compiler is    *)
(* launched" (CppDriver.cpp:121-122).  The digest that was pinned is compared in  *)
(* an earlier read (:117), so that the commands are those of the pinned model     *)
(* itself unless the file is replaced between the two.  The compilers read their  *)
(* sources later: one edited in between is compiled, whatever its digest.         *)
CheckedBeforeCompiling ==
    \A s \in Sources : task[s] # "none" =>
        /\ cfg.evidence # "isolated-build"
        /\ cfg.pinned # None => model = second /\ (second = cfg.pinned \/ swapped)

(* When a call has returned, with whatever result, no compiler of it runs on and *)
(* writes into the output directory: a failure leaves the loop early, and only   *)
(* the destructors of the futures wait for the rest.                             *)
NothingRunsOn == pc = "idle" => \A s \in Sources : task[s] # "running"

(* A call that succeeds has an output for every source where it says it has, and *)
(* an audited one has made them all itself with the commands of its model: the   *)
(* Ninja cache is never evidence.  A link that succeeds leaves a product of its  *)
(* own IR: a library is never archived from the object of an earlier call.       *)
SuccessIsComplete ==
    pc = "idle" /\ exit = 0 =>
        /\ cfg.entry = "linkCpp" => product = calls
        /\ Compiles =>
             LET place == IF ByNinja THEN "ninja" ELSE "direct"
             IN  \A s \in Sources :
                   /\ outputs[place][s] # None
                   /\ cfg.recorder \/ cfg.evidence # "" \/ cfg.pinned # None =>
                        /\ outputs["direct"][s] # None
                        /\ outputs["direct"][s].call = calls
                        /\ outputs["direct"][s].flags = model.flags

(* Every call returns, also when compilers fail in any order. *)
CallsReturn == pc # "idle" ~> pc = "idle"
================================================================================
