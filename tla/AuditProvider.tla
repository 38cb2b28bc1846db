----------------------------- MODULE AuditProvider -----------------------------
(* CppAnalysisProvider (topo-check/analysis/CppAnalysisProvider.{h,cpp}) as the *)
(* checker drives it: choose isolated execution or not, load a semantic audit   *)
(* through the extractor process, or import one an earlier process exported.    *)
(* Calls come in any order the interface allows, processes end and others       *)
(* start, and sources, extractor and sandbox tools are edited or upgraded       *)
(* between any two steps.                                                       *)
EXTENDS Integers, FiniteSets

CONSTANTS
    Projects,     \* project directories, each with its one compilation model
    Roots,        \* directories that can be named as input roots; a project can
    Outside,      \* the rest of the machine
    Files,        \* files an analysis may read
    Home,         \* the directory of each file
    Units,        \* project -> sources its compilation model lists
    MaxMoves,     \* bound: edits and upgrades in one behaviour
    MaxProcesses, \* bound: provider processes in one behaviour
    MaxExports,   \* bound: entries in the store
    None

Directories == Projects \cup Roots \cup {Outside}
Tools == {"startup", "image"}     \* sandbox launcher; extractor and its libraries

ASSUME HomeAssumption == Home \in [Files -> Directories]
ASSUME UnitAssumption == Units \in [Projects -> SUBSET Files]
ASSUME BoundAssumption == MaxMoves \in Nat /\ MaxProcesses \in Nat /\ MaxExports \in Nat

Contents == [Files -> Nat]
ToolVersions == [Tools -> Nat]
Executions == [roots : SUBSET Directories, tool : ToolVersions]

ASSUME NoneAssumption == /\ None \notin Projects \cup Executions /\ \A d \in SUBSET Directories : d # None
                         /\ Outside \notin Projects \cup Roots

VARIABLES
    content, tool,   \* the machine: versions of files and tools; a version
                     \* number stands for a digest and never returns
    moves, processes,
    cache,           \* the checker's store: everything ever exported
    requireAuditIsolation, auditInputRoots, projectDir,
    audit_,          \* the snapshot, or None
    expectedAuditExecution, expectedAuditProject,
    auditReadPolicy, \* input roots of the read policy, or None
    load             \* loadAuditSnapshot() between its external calls

world == <<content, tool, moves, processes>>
expected == <<expectedAuditExecution, expectedAuditProject, auditReadPolicy>>
session == <<requireAuditIsolation, auditInputRoots>>
vars == <<content, tool, moves, processes, cache, requireAuditIsolation, auditInputRoots,
          projectDir, audit_, expectedAuditExecution, expectedAuditProject, auditReadPolicy, load>>

--------------------------------------------------------------------------------
NoAudit == [exists |-> FALSE, published |-> FALSE, label |-> "none", execution |-> None,
            inputs |-> {}, parsed |-> [f \in Files |-> 0], ranTool |-> [t \in Tools |-> 0],
            accepted |-> [f \in Files |-> 0], complete |-> FALSE]
Idle == [step |-> "idle"]

Within(dirs) == {f \in Files : Home[f] \in dirs}
InputRoots(p) == {p} \cup auditInputRoots

(* The identity of an isolated execution: its authorization and the tools it    *)
(* was measured with.                                                           *)
Execution(p) == [roots |-> InputRoots(p), tool |-> tool]

(* loadAuditSnapshot() before it has results, and fail(). *)
Unestablished == [NoAudit EXCEPT !.exists = TRUE, !.label = "unestablished"]
Bounded == [NoAudit EXCEPT !.exists = TRUE, !.label = "bounded", !.published = TRUE]
Failing(a) == [a EXCEPT !.complete = FALSE]

(* A payload is the extractor's word: the files it says it read, the versions   *)
(* it parsed, and the verdict.  It need not respect the policy.                 *)
Payloads == [inputs : SUBSET Files, complete : BOOLEAN]

(* validateAuditPayloadInputs(). *)
validateAuditPayloadInputs(payload, policy) == payload.inputs \subseteq Within(policy)

(* consumeAuditPayload(): validate, publish, and compare every digest with the  *)
(* file it names.  The extractor's own digest is taken here, after the run.     *)
UnchangedAnyway(payload, execution) ==     \* mutant: one comparison forgotten
    execution # None => tool = execution.tool
Current(payload, execution) ==
    /\ \A f \in payload.inputs : payload.parsed[f] = content[f]
    /\ execution # None => tool = execution.tool

Consume(a, payload) ==
    IF requireAuditIsolation /\ ~validateAuditPayloadInputs(payload, auditReadPolicy)
    THEN Failing(a)
    ELSE [a EXCEPT !.inputs = payload.inputs, !.parsed = payload.parsed,
                   !.ranTool = payload.ranTool, !.accepted = content,
                   !.complete = /\ payload.complete
                                /\ Current(payload, IF requireAuditIsolation THEN a.execution ELSE None)]

--------------------------------------------------------------------------------
(* The provider's operations.  A call that returns while a load is in progress  *)
(* cannot happen: one thread drives the provider.                               *)
Ready == load = Idle

ForgetExpected ==
    /\ expectedAuditExecution' = None /\ expectedAuditProject' = None /\ auditReadPolicy' = None

(* It fails when the platform cannot isolate, or at the first root that is not  *)
(* a directory; the roots before that one stay.                                 *)
configureAuditExecution ==
    /\ Ready
    /\ requireAuditIsolation' = TRUE
    /\ ForgetExpected
    /\ audit_' = NoAudit
    /\ auditInputRoots' \in SUBSET Roots
    /\ UNCHANGED <<world, cache, projectDir, load>>

KeepsOldAudit ==      \* mutant: the snapshot survives
    /\ Ready
    /\ requireAuditIsolation' = TRUE
    /\ ForgetExpected
    /\ auditInputRoots' \in SUBSET Roots
    /\ UNCHANGED <<world, cache, projectDir, audit_, load>>

configureAnalysis(p) ==
    /\ Ready
    /\ projectDir' = p
    /\ IF requireAuditIsolation THEN ForgetExpected ELSE UNCHANGED expected
    /\ \/ audit_' = NoAudit /\ UNCHANGED load      \* no model was given
       \/ /\ audit_' = IF requireAuditIsolation THEN Unestablished ELSE Bounded
          /\ load' = [step |-> "prepare"]
    /\ UNCHANGED <<world, cache, session>>

(* No extractor, one inside the project, isolation not available or not         *)
(* established, a probe, model or run that fails, an oversized answer.          *)
LoadFails ==
    /\ load # Idle
    /\ load' = Idle
    /\ audit_' = Failing(audit_)
    /\ UNCHANGED <<world, cache, session, projectDir, expected>>

(* prepareIsolatedCppAudit(); its two probes of the tools agree. *)
Prepare ==
    /\ load.step = "prepare"
    /\ IF requireAuditIsolation
       THEN /\ auditReadPolicy' = InputRoots(projectDir)
            /\ audit_' = [audit_ EXCEPT !.published = TRUE]
            /\ load' = [step |-> "run", plan |-> Execution(projectDir)]
       ELSE /\ load' = [step |-> "run", plan |-> None]
            /\ UNCHANGED <<auditReadPolicy, audit_>>
    /\ UNCHANGED <<world, cache, session, projectDir, expectedAuditExecution, expectedAuditProject>>

(* The extractor runs; verifyExecutionIdentity() then measures the startup      *)
(* tools again.                                                                 *)
Run ==
    /\ load.step = "run"
    /\ \E p \in Payloads :
          load' = [step |-> "consume",
                   payload |-> [inputs |-> p.inputs, complete |-> p.complete,
                                parsed |-> content, ranTool |-> tool]]
    /\ IF requireAuditIsolation
       THEN /\ load.plan.tool["startup"] = tool["startup"]
            /\ expectedAuditExecution' = load.plan
            /\ audit_' = [audit_ EXCEPT !.execution = load.plan, !.label = "isolated"]
       ELSE UNCHANGED <<expectedAuditExecution, audit_>>
    /\ UNCHANGED <<world, cache, session, projectDir, expectedAuditProject, auditReadPolicy>>

ConsumePayload ==
    /\ load.step = "consume"
    /\ load' = Idle
    /\ audit_' = Consume(audit_, load.payload)
    /\ UNCHANGED <<world, cache, session, projectDir, expected>>

(* auditCacheIdentity(): in isolated mode it re-establishes the policy for the  *)
(* project it is asked about, or leaves none.                                   *)
auditCacheIdentity(p) ==
    /\ Ready
    /\ IF requireAuditIsolation
       THEN \/ ForgetExpected
            \/ /\ expectedAuditExecution' = Execution(p)
               /\ expectedAuditProject' = p
               /\ auditReadPolicy' = InputRoots(p)
       ELSE UNCHANGED expected
    /\ UNCHANGED <<world, cache, session, projectDir, audit_, load>>

exportAuditCache ==
    /\ Ready /\ audit_.complete /\ Cardinality(cache) < MaxExports
    /\ cache' = cache \cup
         {[project |-> projectDir, execution |-> audit_.execution,
           payload |-> [inputs |-> audit_.inputs, complete |-> TRUE,
                        parsed |-> audit_.parsed, ranTool |-> audit_.ranTool]]}
    /\ UNCHANGED <<world, session, projectDir, audit_, expected, load>>

(* importAuditCache(): what isolated mode demands of an entry. *)
AnyProject(e) ==      \* mutant: the project of the entry is not compared
    /\ auditReadPolicy # None /\ expectedAuditExecution # None
    /\ e.execution = expectedAuditExecution
    /\ validateAuditPayloadInputs(e.payload, auditReadPolicy)
Admissible(e) ==
    /\ auditReadPolicy # None /\ expectedAuditExecution # None
    /\ e.execution = expectedAuditExecution
    /\ e.project = expectedAuditProject
    /\ validateAuditPayloadInputs(e.payload, auditReadPolicy)

(* The session the entry puts the provider in; it stays even when the entry is  *)
(* refused afterwards.                                                          *)
importAuditCache(e) ==
    LET fresh == [NoAudit EXCEPT !.exists = TRUE, !.published = TRUE,
                     !.label = IF requireAuditIsolation THEN "isolated" ELSE "bounded",
                     !.execution = e.execution]
        imported == Consume(fresh, e.payload)
    IN
    /\ Ready
    /\ IF requireAuditIsolation => Admissible(e)
       THEN /\ projectDir' = e.project
            /\ audit_' = IF imported.complete THEN imported ELSE NoAudit
       ELSE audit_' = NoAudit /\ UNCHANGED projectDir
    /\ UNCHANGED <<world, cache, session, expected, load>>

--------------------------------------------------------------------------------
(* The model can be read again under the present policy, or at all. *)
ModelReadable == requireAuditIsolation => projectDir \in auditReadPolicy

(* collectSourceFiles(): a pure query of the state. *)
WalksAfterFailure(p) ==      \* mutant: only a complete audit keeps it from the disk
    IF audit_.complete THEN audit_.inputs ELSE Within({p} \cup Roots)
collectSourceFiles(p) ==
    IF requireAuditIsolation /\ (~audit_.exists \/ auditReadPolicy = None) THEN {}
    ELSE IF ~audit_.exists THEN Within({p} \cup Roots)      \* project and include directories
    ELSE IF requireAuditIsolation /\ ~ModelReadable THEN {}
    ELSE audit_.inputs \cup
         (IF requireAuditIsolation THEN Units[projectDir] \cap Within(auditReadPolicy)
                                   ELSE Units[projectDir])

--------------------------------------------------------------------------------
(* The machine: edits and upgrades, also while a load is in progress, and the   *)
(* end of one provider process and the start of the next.                       *)
Edit == \E f \in Files : content' = [content EXCEPT ![f] = @ + 1] /\ UNCHANGED tool
Upgrade == \E t \in Tools : tool' = [tool EXCEPT ![t] = @ + 1] /\ UNCHANGED content

WorldMoves ==
    /\ moves < MaxMoves /\ moves' = moves + 1
    /\ Edit \/ Upgrade
    /\ UNCHANGED <<processes, cache, session, projectDir, audit_, expected, load>>

Restart ==
    /\ processes < MaxProcesses /\ processes' = processes + 1
    /\ requireAuditIsolation' = FALSE /\ auditInputRoots' = {} /\ projectDir' \in Projects
    /\ audit_' = NoAudit /\ ForgetExpected /\ load' = Idle
    /\ UNCHANGED <<content, tool, moves, cache>>

Init ==
    /\ content = [f \in Files |-> 0] /\ tool = [t \in Tools |-> 0]
    /\ moves = 0 /\ processes = 1 /\ cache = {}
    /\ requireAuditIsolation = FALSE /\ auditInputRoots = {} /\ projectDir \in Projects
    /\ audit_ = NoAudit /\ load = Idle
    /\ expectedAuditExecution = None /\ expectedAuditProject = None /\ auditReadPolicy = None

Next ==
    \/ configureAuditExecution
    \/ \E p \in Projects : configureAnalysis(p) \/ auditCacheIdentity(p)
    \/ LoadFails \/ Prepare \/ Run \/ ConsumePayload
    \/ exportAuditCache
    \/ \E e \in cache : importAuditCache(e)
    \/ WorldMoves \/ Restart

Spec == Init /\ [][Next]_vars

--------------------------------------------------------------------------------
FullPayloads == [inputs : SUBSET Files, complete : BOOLEAN, parsed : Contents, ranTool : ToolVersions]
Audits == [exists : BOOLEAN, published : BOOLEAN,
           label : {"none", "unestablished", "bounded", "isolated"},
           execution : Executions \cup {None}, inputs : SUBSET Files, parsed : Contents,
           ranTool : ToolVersions, accepted : Contents, complete : BOOLEAN]
Loads ==
    {Idle} \cup [step : {"prepare"}] \cup [step : {"run"}, plan : Executions \cup {None}]
    \cup [step : {"consume"}, payload : FullPayloads]

TypeOK ==
    /\ content \in Contents /\ tool \in ToolVersions
    /\ moves \in 0..MaxMoves /\ processes \in Nat
    /\ \A e \in cache : e \in [project : Projects, execution : Executions \cup {None},
                               payload : FullPayloads]
    /\ requireAuditIsolation \in BOOLEAN /\ auditInputRoots \in SUBSET Roots
    /\ projectDir \in Projects
    /\ audit_ \in Audits /\ load \in Loads
    /\ expectedAuditExecution \in Executions \cup {None}
    /\ expectedAuditProject \in Projects \cup {None}
    /\ auditReadPolicy \in (SUBSET Directories) \cup {None}

(* Whatever came before -- an unisolated audit, another project, other roots,   *)
(* a cache of another process, a failure half-way -- once isolation is required *)
(* a complete audit was executed, now or when it was exported, under exactly    *)
(* the present authorization for the present project, says so, and names no     *)
(* input outside it.                                                            *)
IsolationNeverDowngraded ==
    requireAuditIsolation /\ audit_.complete =>
        /\ audit_.label = "isolated"
        /\ audit_.execution # None /\ audit_.execution.roots = InputRoots(projectDir)
        /\ audit_.inputs \subseteq Within(InputRoots(projectDir))

(* The facts of a complete audit describe the files as they were when the       *)
(* provider accepted them, however the extractor run, a cache, and edits        *)
(* interleave; and an isolated audit was computed by the tools its execution    *)
(* identity names, which were still installed when it was accepted.             *)
FactsDescribeAcceptedInputs ==
    audit_.complete =>
        /\ \A f \in audit_.inputs : audit_.parsed[f] = audit_.accepted[f]
        /\ requireAuditIsolation => audit_.ranTool = audit_.execution.tool

(* "Audit failures must never select the ordinary unconfined discovery path"    *)
(* (CppAnalysisProvider.cpp:612): in every state reachable under required       *)
(* isolation the list of sources stays inside the directories authorized for    *)
(* the project that is analysed, and for the one the policy in force is of: a   *)
(* cache identity may have been asked for another project since the audit.      *)
Authorized == InputRoots(projectDir) \cup (IF auditReadPolicy = None THEN {} ELSE auditReadPolicy)
DiscoveryStaysConfined ==
    requireAuditIsolation => \A p \in Projects : collectSourceFiles(p) \subseteq Within(Authorized)

================================================================================
