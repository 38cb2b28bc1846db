-------------------------- MODULE AuditProvider_proofs --------------------------
(* Proofs about the analysis provider: for any projects, roots, files and        *)
(* compilation models, and any order of calls, failures, edits, upgrades and     *)
(* restarts, required isolation is never downgraded, facts are of the files that *)
(* were accepted, and no discovery leaves the authorized directories.  The last  *)
(* part is about the cache key of an audit: it covers whatever a preprocessor    *)
(* looks at.                                                                     *)
EXTENDS AuditProvider, HeaderClosure, FiniteSetTheorems, WellFoundedInduction, SequenceTheorems, TLAPS

USE HomeAssumption, UnitAssumption, BoundAssumption, NoneAssumption

(* A policy was granted to a project, with the roots that are configured, and an *)
(* expectation goes with it; while a load is in progress none is left over.      *)
ExpectedOK ==
    requireAuditIsolation =>
        /\ load.step \in {"run", "consume"} => auditReadPolicy = InputRoots(projectDir)
        /\ load # Idle => expectedAuditProject = None
        /\ expectedAuditExecution # None /\ expectedAuditProject # None =>
              /\ auditReadPolicy = InputRoots(expectedAuditProject)
              /\ expectedAuditExecution.roots = InputRoots(expectedAuditProject)

(* A load in progress: the audit holds no facts yet; the tools that ran are no   *)
(* older than the identity says, and no newer than what is installed.            *)
Older(v, w) == \A t \in Tools : v[t] <= w[t]
LoadOK ==
    /\ load # Idle => ~audit_.complete /\ audit_.inputs = {}
    /\ load.step \in {"prepare", "run"} => audit_.execution = None
    /\ load.step \in {"run", "consume"} /\ ~requireAuditIsolation => audit_.execution = None
    /\ load.step = "run" /\ requireAuditIsolation =>
          load.plan # None /\ load.plan.roots = InputRoots(projectDir) /\ Older(load.plan.tool, tool)
    /\ load.step = "consume" /\ requireAuditIsolation =>
          /\ audit_.label = "isolated"
          /\ audit_.execution # None /\ audit_.execution.roots = InputRoots(projectDir)
          /\ Older(audit_.execution.tool, load.payload.ranTool) /\ Older(load.payload.ranTool, tool)

(* What an accepted audit is, and what an exported one was. *)
AuditOK ==
    /\ requireAuditIsolation => audit_.inputs \subseteq Within(InputRoots(projectDir))
    /\ audit_.complete =>
          /\ requireAuditIsolation => /\ audit_.label = "isolated" /\ audit_.execution # None
                                      /\ audit_.execution.roots = InputRoots(projectDir)
          /\ \A f \in audit_.inputs : audit_.parsed[f] = audit_.accepted[f]
          /\ audit_.execution # None => audit_.ranTool = audit_.execution.tool
CacheOK == \A e \in cache : e.execution # None => e.payload.ranTool = e.execution.tool

IInv == TypeOK /\ ExpectedOK /\ LoadOK /\ AuditOK /\ CacheOK

--------------------------------------------------------------------------------
(* The operators the operations are made of. *)

LEMMA LoadCases ==
    ASSUME TypeOK
    PROVE  /\ load = Idle \/ load.step \in {"prepare", "run", "consume"}
           /\ load = Idle <=> load.step = "idle"
           /\ load.step = "run" => load.plan \in Executions \cup {None}
           /\ load.step = "consume" => load.payload \in FullPayloads
  BY DEF TypeOK, Loads, Idle

LEMMA RootsType ==
    ASSUME TypeOK, NEW p \in Projects
    PROVE  /\ InputRoots(p) \in SUBSET Directories /\ InputRoots(p) # None
           /\ Execution(p) \in Executions /\ Execution(p) # None
           /\ Execution(p).roots = InputRoots(p) /\ Execution(p).tool = tool
  BY DEF TypeOK, InputRoots, Execution, Executions, Directories

LEMMA AuditTypes ==
    /\ NoAudit \in Audits /\ Unestablished \in Audits /\ Bounded \in Audits
    /\ ~NoAudit.complete /\ NoAudit.inputs = {} /\ NoAudit.execution = None
    /\ ~Unestablished.complete /\ Unestablished.inputs = {} /\ Unestablished.execution = None
    /\ ~Bounded.complete /\ Bounded.inputs = {} /\ Bounded.execution = None
  <1>1. [f \in Files |-> 0] \in Contents /\ [t \in Tools |-> 0] \in ToolVersions
    BY DEF Contents, ToolVersions
  <1> QED
    BY <1>1 DEF NoAudit, Unestablished, Bounded, Audits

LEMMA FailingKeeps ==
    ASSUME NEW a \in Audits
    PROVE  /\ Failing(a) \in Audits /\ ~Failing(a).complete
           /\ Failing(a).inputs = a.inputs /\ Failing(a).execution = a.execution
  BY DEF Failing, Audits

(* consumeAuditPayload(): what it keeps, what it takes, and what a complete      *)
(* answer has been compared with.                                                *)
LEMMA ConsumeResult ==
    ASSUME TypeOK, NEW a \in Audits, NEW payload \in FullPayloads
    PROVE  LET c == Consume(a, payload)
           IN  /\ c \in Audits
               /\ c.label = a.label /\ c.execution = a.execution
               /\ c.inputs = a.inputs \/ c.inputs = payload.inputs
               /\ requireAuditIsolation => c.inputs = a.inputs \/ payload.inputs \subseteq Within(auditReadPolicy)
               /\ c.complete => /\ c.ranTool = payload.ranTool
                                /\ \A f \in c.inputs : c.parsed[f] = c.accepted[f]
                                /\ requireAuditIsolation /\ a.execution # None => tool = a.execution.tool
  <1> DEFINE current == Current(payload, IF requireAuditIsolation THEN a.execution ELSE None)
             taken == [a EXCEPT !.inputs = payload.inputs, !.parsed = payload.parsed,
                                !.ranTool = payload.ranTool, !.accepted = content,
                                !.complete = payload.complete /\ current]
  <1>1. current \in BOOLEAN
    BY DEF Current
  <1>2. /\ payload.inputs \in SUBSET Files /\ payload.complete \in BOOLEAN /\ payload.parsed \in Contents
        /\ payload.ranTool \in ToolVersions /\ content \in Contents
    BY DEF TypeOK, FullPayloads
  <1>3. CASE requireAuditIsolation /\ ~validateAuditPayloadInputs(payload, auditReadPolicy)
    BY <1>3, FailingKeeps DEF Consume, Failing, Audits
  <1>4. CASE ~(requireAuditIsolation /\ ~validateAuditPayloadInputs(payload, auditReadPolicy))
    <2>1. Consume(a, payload) = taken
      BY <1>4 DEF Consume
    <2>2. taken \in Audits /\ taken.label = a.label /\ taken.execution = a.execution /\ taken.inputs = payload.inputs
          /\ taken.parsed = payload.parsed /\ taken.accepted = content /\ taken.ranTool = payload.ranTool
          /\ taken.complete = (payload.complete /\ current)
      BY <1>1, <1>2 DEF Audits
    <2>3. current => /\ \A f \in payload.inputs : payload.parsed[f] = content[f]
                     /\ requireAuditIsolation /\ a.execution # None => tool = a.execution.tool
      BY DEF Current
    <2>4. requireAuditIsolation => payload.inputs \subseteq Within(auditReadPolicy)
      BY <1>4 DEF validateAuditPayloadInputs
    <2> HIDE DEF taken, current
    <2> QED
      BY <1>2, <2>1, <2>2, <2>3, <2>4
  <1> QED
    BY <1>3, <1>4

--------------------------------------------------------------------------------
(* Types. *)
Entries == [project : Projects, execution : Executions \cup {None}, payload : FullPayloads]

LEMMA RunAudit ==
    ASSUME NEW a \in Audits, NEW e \in Executions, NEW r, r = [a EXCEPT !.execution = e, !.label = "isolated"]
    PROVE  r \in Audits /\ r.complete = a.complete /\ r.inputs = a.inputs /\ r.label = "isolated" /\ r.execution = e
  BY DEF Audits

LEMMA PublishedAudit ==
    ASSUME NEW a \in Audits
    PROVE  LET r == [a EXCEPT !.published = TRUE]
           IN  r \in Audits /\ r.complete = a.complete /\ r.inputs = a.inputs /\ r.execution = a.execution
  BY DEF Audits

Fresh(e) == [NoAudit EXCEPT !.exists = TRUE, !.published = TRUE,
                !.label = IF requireAuditIsolation THEN "isolated" ELSE "bounded", !.execution = e.execution]

LEMMA FreshAudit ==
    ASSUME TypeOK, NEW e \in Entries
    PROVE  /\ Fresh(e) \in Audits /\ Fresh(e).execution = e.execution /\ Fresh(e).inputs = {}
           /\ requireAuditIsolation => Fresh(e).label = "isolated"
  <1>1. [f \in Files |-> 0] \in Contents /\ [t \in Tools |-> 0] \in ToolVersions
    BY DEF Contents, ToolVersions
  <1> QED
    BY <1>1 DEF Fresh, NoAudit, Audits, Entries

LEMMA ExportedEntry ==
    ASSUME TypeOK
    PROVE  LET e == [project |-> projectDir, execution |-> audit_.execution,
                     payload |-> [inputs |-> audit_.inputs, complete |-> TRUE,
                                  parsed |-> audit_.parsed, ranTool |-> audit_.ranTool]]
           IN  e \in Entries /\ e.execution = audit_.execution /\ e.payload.ranTool = audit_.ranTool
  <1>1. [inputs |-> audit_.inputs, complete |-> TRUE, parsed |-> audit_.parsed, ranTool |-> audit_.ranTool]
          \in FullPayloads
    BY DEF TypeOK, Audits, FullPayloads
  <1>2. projectDir \in Projects /\ audit_.execution \in Executions \cup {None}
    BY DEF TypeOK, Audits
  <1> QED
    BY <1>1, <1>2 DEF Entries

LEMMA MachineStep ==
    ASSUME TypeOK, [Next]_vars
    PROVE  /\ content' \in Contents /\ tool' \in ToolVersions
           /\ \A t \in Tools : tool[t] <= tool'[t]
           /\ moves' \in 0 .. MaxMoves /\ processes' \in Nat
  <1> USE DEF TypeOK
  <1>1. CASE UNCHANGED world
    BY <1>1 DEF world, ToolVersions
  <1>2. CASE WorldMoves
    <2>1. CASE Edit
      BY <1>2, <2>1 DEF WorldMoves, Edit, Contents, ToolVersions
    <2>2. CASE Upgrade
      BY <1>2, <2>2 DEF WorldMoves, Upgrade, Contents, ToolVersions
    <2> QED
      BY <1>2, <2>1, <2>2 DEF WorldMoves
  <1>3. CASE Restart
    BY <1>3 DEF Restart, ToolVersions
  <1> QED
    BY <1>1, <1>2, <1>3 DEF Next, vars, world, configureAuditExecution, configureAnalysis, auditCacheIdentity, LoadFails,
         Prepare, Run, ConsumePayload, exportAuditCache, importAuditCache

LEMMA CacheStep ==
    ASSUME TypeOK, AuditOK, CacheOK, [Next]_vars
    PROVE  cache' \subseteq Entries /\ CacheOK'
  <1>1. cache \subseteq Entries
    BY DEF TypeOK, Entries
  <1>2. CASE UNCHANGED cache
    BY <1>1, <1>2 DEF CacheOK
  <1>3. CASE exportAuditCache
    <2>1. audit_.complete
      BY <1>3 DEF exportAuditCache
    <2> QED
      BY <1>1, <1>3, <2>1, ExportedEntry DEF exportAuditCache, CacheOK, AuditOK
  <1> QED
    BY <1>2, <1>3 DEF Next, vars, configureAuditExecution, configureAnalysis, auditCacheIdentity, LoadFails,
         Prepare, Run, ConsumePayload, importAuditCache, WorldMoves, Restart

LEMMA TypeStep ==
    ASSUME TypeOK, LoadOK, AuditOK, CacheOK, [Next]_vars
    PROVE  TypeOK'
  <1> DEFINE PolicyType == /\ expectedAuditExecution \in Executions \cup {None}
                           /\ expectedAuditProject \in Projects \cup {None}
                           /\ auditReadPolicy \in (SUBSET Directories) \cup {None}
             SessionType == /\ requireAuditIsolation \in BOOLEAN /\ auditInputRoots \in SUBSET Roots
                            /\ projectDir \in Projects
  <1>0. PolicyType /\ SessionType /\ audit_ \in Audits /\ load \in Loads
    BY DEF TypeOK
  <1>1. \A e \in cache' : e \in Entries
    BY CacheStep
  <1> USE DEF session, expected, ForgetExpected
  <1> SUFFICES PolicyType' /\ SessionType' /\ audit_' \in Audits /\ load' \in Loads
    BY <1>1, MachineStep DEF TypeOK, Entries
  <1>2. CASE UNCHANGED <<projectDir, session, audit_, expected, load>>
    BY <1>0, <1>2
  <1>3. Idle \in Loads /\ [step |-> "prepare"] \in Loads
    BY DEF Loads
  <1>4. CASE configureAuditExecution
    BY <1>0, <1>4, AuditTypes DEF configureAuditExecution
  <1>5. ASSUME NEW p \in Projects, configureAnalysis(p) PROVE PolicyType' /\ SessionType' /\ audit_' \in Audits /\ load' \in Loads
    BY <1>0, <1>3, <1>5, AuditTypes DEF configureAnalysis
  <1>6. ASSUME NEW p \in Projects, auditCacheIdentity(p) PROVE PolicyType' /\ SessionType' /\ audit_' \in Audits /\ load' \in Loads
    BY <1>0, <1>6, RootsType DEF auditCacheIdentity
  <1>7. CASE LoadFails
    BY <1>0, <1>3, <1>7, FailingKeeps DEF LoadFails
  <1>8. CASE Prepare
    <2>1. \A e \in Executions \cup {None} : [step |-> "run", plan |-> e] \in Loads
      BY DEF Loads
    <2> QED
      BY <1>0, <1>8, <2>1, RootsType, PublishedAudit DEF Prepare
  <1>9. CASE Run
    <2>1. load.plan \in Executions \cup {None}
      BY <1>9, LoadCases DEF Run
    <2>2. load' \in Loads
      <3>1. PICK p \in Payloads :
              load' = [step |-> "consume",
                       payload |-> [inputs |-> p.inputs, complete |-> p.complete, parsed |-> content, ranTool |-> tool]]
        BY <1>9 DEF Run
      <3>2. [inputs |-> p.inputs, complete |-> p.complete, parsed |-> content, ranTool |-> tool] \in FullPayloads
        BY DEF Payloads, FullPayloads, TypeOK
      <3> QED
        BY <3>1, <3>2 DEF Loads
    <2>3. requireAuditIsolation => load.plan \in Executions
      BY <1>9, <2>1 DEF Run, LoadOK
    <2>4. audit_' \in Audits /\ expectedAuditExecution' \in Executions \cup {None}
      <3>1. CASE requireAuditIsolation
        <4>1. audit_' = [audit_ EXCEPT !.execution = load.plan, !.label = "isolated"] /\ expectedAuditExecution' = load.plan
          BY <1>9, <3>1 DEF Run
        <4> QED
          BY <1>0, <2>3, <3>1, <4>1, RunAudit
      <3>2. CASE ~requireAuditIsolation
        BY <1>0, <1>9, <3>2 DEF Run
      <3> QED
        BY <3>1, <3>2
    <2> QED
      BY <1>0, <1>9, <2>2, <2>4 DEF Run
  <1>10. CASE ConsumePayload
    <2>1. load.payload \in FullPayloads
      BY <1>10, LoadCases DEF ConsumePayload
    <2> QED
      BY <1>0, <1>3, <1>10, <2>1, ConsumeResult DEF ConsumePayload
  <1>11. ASSUME NEW e \in cache, importAuditCache(e) PROVE PolicyType' /\ SessionType' /\ audit_' \in Audits /\ load' \in Loads
    <2>1. e \in Entries /\ e.payload \in FullPayloads /\ e.project \in Projects
      BY DEF TypeOK, Entries
    <2>2. Consume(Fresh(e), e.payload) \in Audits
      BY <2>1, FreshAudit, ConsumeResult
    <2>3. audit_' \in {Consume(Fresh(e), e.payload), NoAudit} /\ projectDir' \in {projectDir, e.project}
      BY <1>11 DEF importAuditCache, Fresh
    <2> QED
      BY <1>0, <1>11, <2>1, <2>2, <2>3, AuditTypes DEF importAuditCache
  <1>12. CASE Restart
    BY <1>0, <1>3, <1>12, AuditTypes DEF Restart
  <1> QED
    BY <1>2, <1>4, <1>5, <1>6, <1>7, <1>8, <1>9, <1>10, <1>11, <1>12 DEF Next, vars, exportAuditCache, WorldMoves

--------------------------------------------------------------------------------
(* The parts of the invariant. *)

LEMMA ExpectedStep ==
    ASSUME TypeOK, ExpectedOK, [Next]_vars
    PROVE  ExpectedOK'
  <1> USE LoadCases DEF session, expected, ForgetExpected, ExpectedOK, Ready, Idle, InputRoots
  <1>1. CASE UNCHANGED <<projectDir, session, expected, load>>
    BY <1>1
  <1>2. CASE configureAuditExecution
    BY <1>2 DEF configureAuditExecution
  <1>3. ASSUME NEW p \in Projects, configureAnalysis(p) PROVE ExpectedOK'
    BY <1>3 DEF configureAnalysis
  <1>4. ASSUME NEW p \in Projects, auditCacheIdentity(p) PROVE ExpectedOK'
    <2>1. UNCHANGED <<projectDir, session, load>> /\ load = Idle
      BY <1>4 DEF auditCacheIdentity
    <2>2. CASE expectedAuditExecution' = None \/ ~requireAuditIsolation
      BY <2>1, <2>2
    <2>3. CASE requireAuditIsolation /\ expectedAuditExecution' # None
      BY <1>4, <2>1, <2>3, RootsType DEF auditCacheIdentity
    <2> QED
      BY <2>2, <2>3
  <1>5. CASE LoadFails \/ ConsumePayload
    <2>1. UNCHANGED <<projectDir, session, expected>> /\ load' = Idle
      BY <1>5 DEF LoadFails, ConsumePayload
    <2> QED
      BY <2>1
  <1>6. CASE Prepare
    BY <1>6 DEF Prepare
  <1>7. CASE Run
    <2>1. UNCHANGED <<projectDir, session, expectedAuditProject, auditReadPolicy>> /\ load.step = "run"
      BY <1>7 DEF Run
    <2>2. load.step \in {"run", "consume"} /\ load # Idle
      BY <2>1
    <2> QED
      BY <2>1, <2>2
  <1>8. ASSUME NEW e \in cache, importAuditCache(e) PROVE ExpectedOK'
    BY <1>8 DEF importAuditCache
  <1>9. CASE Restart
    BY <1>9 DEF Restart
  <1> QED
    BY <1>1, <1>2, <1>3, <1>4, <1>5, <1>6, <1>7, <1>8, <1>9 DEF Next, vars, exportAuditCache, WorldMoves

LEMMA OlderStep ==
    ASSUME TypeOK, [Next]_vars, NEW v \in ToolVersions, Older(v, tool)
    PROVE  Older(v, tool')
  BY MachineStep DEF TypeOK, ToolVersions, Older

LEMMA LoadStep ==
    ASSUME TypeOK, ExpectedOK, LoadOK, [Next]_vars
    PROVE  LoadOK'
  <1> USE LoadCases DEF session, LoadOK, Ready, InputRoots
  <1>1. CASE UNCHANGED <<projectDir, session, audit_, load>>
    <2>1. load.step = "run" /\ load.plan # None => load.plan.tool \in ToolVersions
      BY DEF Executions
    <2>2. load.step = "consume" => load.payload.ranTool \in ToolVersions
      BY DEF FullPayloads
    <2> QED
      BY <1>1, <2>1, <2>2, OlderStep
  <1>2. CASE configureAuditExecution \/ LoadFails \/ ConsumePayload \/ Restart \/ \E e \in cache : importAuditCache(e)
    <2>1. load' = Idle
      BY <1>2 DEF configureAuditExecution, LoadFails, ConsumePayload, Restart, importAuditCache
    <2> QED
      BY <2>1 DEF Idle
  <1>3. ASSUME NEW p \in Projects, configureAnalysis(p) PROVE LoadOK'
    <2>1. CASE load' = Idle
      BY <2>1 DEF Idle
    <2>2. CASE load' # Idle
      <3>1. load'.step = "prepare" /\ audit_' \in {Unestablished, Bounded}
        BY <1>3, <2>2 DEF configureAnalysis
      <3> QED
        BY <3>1, AuditTypes
    <2> QED
      BY <2>1, <2>2
  <1>4. CASE Prepare
    <2>1. load.step = "prepare" /\ load'.step = "run" /\ ~audit_.complete /\ audit_.inputs = {} /\ audit_.execution = None
      BY <1>4 DEF Prepare, Idle
    <2>2. ~audit_'.complete /\ audit_'.inputs = {} /\ audit_'.execution = None
      BY <1>4, <2>1, PublishedAudit DEF Prepare, TypeOK
    <2>3. requireAuditIsolation' = requireAuditIsolation /\ projectDir' = projectDir /\ auditInputRoots' = auditInputRoots
          /\ tool' = tool
      BY <1>4 DEF Prepare, world
    <2>4. requireAuditIsolation => load'.plan = Execution(projectDir)
      BY <1>4 DEF Prepare
    <2>5. projectDir \in Projects /\ tool \in ToolVersions
      BY DEF TypeOK
    <2>6. Older(tool, tool)
      BY <2>5 DEF Older, ToolVersions
    <2>7. requireAuditIsolation => load'.plan # None /\ load'.plan.roots = InputRoots(projectDir) /\ load'.plan.tool = tool
      BY <2>4, <2>5, RootsType
    <2> QED
      BY <2>1, <2>2, <2>3, <2>6, <2>7
  <1>5. CASE Run
    <2>1. load.step = "run" /\ load'.step = "consume" /\ ~audit_.complete /\ audit_.inputs = {}
          /\ load'.payload.ranTool = tool
      BY <1>5 DEF Run, Idle
    <2>2. requireAuditIsolation' = requireAuditIsolation /\ projectDir' = projectDir /\ auditInputRoots' = auditInputRoots
          /\ tool' = tool
      BY <1>5 DEF Run, world
    <2>3. CASE ~requireAuditIsolation
      <3>1. audit_' = audit_
        BY <1>5, <2>3 DEF Run
      <3> QED
        BY <2>1, <2>2, <2>3, <3>1
    <2>4. CASE requireAuditIsolation
      <3>1. audit_' = [audit_ EXCEPT !.execution = load.plan, !.label = "isolated"]
        BY <1>5, <2>4 DEF Run
      <3>2. load.plan \in Executions /\ load.plan.roots = InputRoots(projectDir) /\ Older(load.plan.tool, tool)
        BY <2>1, <2>4
      <3>3. audit_'.complete = audit_.complete /\ audit_'.inputs = audit_.inputs /\ audit_'.label = "isolated"
            /\ audit_'.execution = load.plan
        <4>1. audit_ \in Audits /\ load.plan \in Executions
          BY <3>2 DEF TypeOK
        <4> QED
          BY <3>1, <4>1 DEF Audits
      <3>4. Older(tool, tool)
        BY DEF Older, TypeOK, ToolVersions
      <3> QED
        BY <2>1, <2>2, <2>4, <3>2, <3>3, <3>4
    <2> QED
      BY <2>3, <2>4
  <1>6. ASSUME NEW p \in Projects, auditCacheIdentity(p) PROVE LoadOK'
    BY <1>1, <1>6 DEF auditCacheIdentity
  <1> QED
    BY <1>1, <1>2, <1>3, <1>4, <1>5, <1>6 DEF Next, vars, exportAuditCache, WorldMoves

LEMMA SameTools ==
    ASSUME NEW u \in ToolVersions, NEW v \in ToolVersions, Older(u, v), Older(v, u)
    PROVE  u = v
  <1>1. \A t \in Tools : u[t] = v[t]
    BY DEF Older, ToolVersions
  <1> QED
    BY <1>1 DEF ToolVersions

LEMMA AcceptedLoad ==
    ASSUME IInv, ConsumePayload
    PROVE  AuditOK'
  <1> DEFINE c == Consume(audit_, load.payload)
  <1>1. /\ audit_' = c /\ load.step = "consume" /\ UNCHANGED <<requireAuditIsolation, auditInputRoots, projectDir>>
        /\ audit_ \in Audits /\ load.payload \in FullPayloads
    BY LoadCases DEF ConsumePayload, session, IInv, TypeOK
  <1>2. load # Idle /\ audit_.inputs = {}
    BY <1>1, LoadCases DEF Idle, IInv, LoadOK
  <1> HIDE DEF c
  <1>3. /\ c.label = audit_.label /\ c.execution = audit_.execution
        /\ c.inputs = {} \/ c.inputs = load.payload.inputs
        /\ requireAuditIsolation => c.inputs = {} \/ load.payload.inputs \subseteq Within(auditReadPolicy)
        /\ c.complete => /\ c.ranTool = load.payload.ranTool
                         /\ \A f \in c.inputs : c.parsed[f] = c.accepted[f]
                         /\ requireAuditIsolation /\ audit_.execution # None => tool = audit_.execution.tool
    BY <1>1, <1>2, ConsumeResult DEF c, IInv
  <1>4. requireAuditIsolation => c.inputs \subseteq Within(InputRoots(projectDir))
    BY <1>1, <1>3 DEF IInv, ExpectedOK
  <1>5. requireAuditIsolation => /\ c.label = "isolated" /\ c.execution # None
                                 /\ c.execution.roots = InputRoots(projectDir)
    BY <1>1, <1>3 DEF IInv, LoadOK
  <1>6. c.complete /\ c.execution # None => c.ranTool = c.execution.tool
    <2> SUFFICES ASSUME c.complete, c.execution # None PROVE c.ranTool = c.execution.tool
      OBVIOUS
    <2>1. requireAuditIsolation
      BY <1>1, <1>3 DEF IInv, LoadOK
    <2>2. c.execution.tool = tool /\ c.ranTool = load.payload.ranTool
      BY <1>3, <2>1
    <2>3. Older(tool, load.payload.ranTool) /\ Older(load.payload.ranTool, tool)
      BY <1>1, <1>3, <2>1, <2>2 DEF IInv, LoadOK
    <2>4. tool \in ToolVersions /\ load.payload.ranTool \in ToolVersions
      BY <1>1 DEF IInv, TypeOK, FullPayloads
    <2> QED
      BY <2>2, <2>3, <2>4, SameTools
  <1> QED
    BY <1>1, <1>3, <1>4, <1>5, <1>6 DEF AuditOK, Within, InputRoots

LEMMA AcceptedImport ==
    ASSUME IInv, NEW e \in cache, importAuditCache(e)
    PROVE  AuditOK'
  <1> DEFINE c == Consume(Fresh(e), e.payload)
  <1>1. e \in Entries /\ e.payload \in FullPayloads /\ e.project \in Projects /\ e.execution \in Executions \cup {None}
    BY DEF IInv, TypeOK, Entries
  <1>2. UNCHANGED <<requireAuditIsolation, auditInputRoots>>
    BY DEF importAuditCache, session
  <1>3. CASE audit_' = NoAudit
    BY <1>3, AuditTypes DEF AuditOK
  <1>4. CASE audit_' # NoAudit
    <2>1. audit_' = c /\ projectDir' = e.project /\ (requireAuditIsolation => Admissible(e))
      BY <1>4 DEF importAuditCache, Fresh
    <2> HIDE DEF c
    <2>2. /\ c.execution = e.execution /\ (requireAuditIsolation => c.label = "isolated")
          /\ c.inputs = {} \/ c.inputs = e.payload.inputs
          /\ c.complete => /\ c.ranTool = e.payload.ranTool
                           /\ \A f \in c.inputs : c.parsed[f] = c.accepted[f]
      BY <1>1, FreshAudit, ConsumeResult DEF c, IInv
    <2>3. requireAuditIsolation =>
            /\ e.execution # None /\ e.execution.roots = InputRoots(e.project)
            /\ e.payload.inputs \subseteq Within(InputRoots(e.project))
      BY <1>1, <2>1 DEF Admissible, validateAuditPayloadInputs, IInv, ExpectedOK
    <2>4. c.complete /\ c.execution # None => c.ranTool = c.execution.tool
      BY <2>2 DEF IInv, CacheOK
    <2> QED
      BY <1>2, <2>1, <2>2, <2>3, <2>4 DEF AuditOK, Within, InputRoots
  <1> QED
    BY <1>3, <1>4

LEMMA AuditStep ==
    ASSUME IInv, [Next]_vars
    PROVE  AuditOK'
  <1> USE LoadCases DEF session, InputRoots, Within
  <1>0. TypeOK /\ LoadOK /\ AuditOK
    BY DEF IInv
  <1>1. CASE UNCHANGED <<projectDir, session, audit_>>
    BY <1>0, <1>1 DEF AuditOK
  <1>2. CASE audit_' \in {NoAudit, Unestablished, Bounded}
    BY <1>2, AuditTypes DEF AuditOK
  <1>3. CASE LoadFails
    <2>1. audit_' = Failing(audit_) /\ UNCHANGED <<projectDir, session>>
      BY <1>3 DEF LoadFails
    <2>2. ~audit_'.complete /\ audit_'.inputs = audit_.inputs
      BY <1>0, <2>1, FailingKeeps DEF TypeOK
    <2> QED
      BY <1>0, <2>1, <2>2 DEF AuditOK
  <1>4. CASE Prepare \/ Run
    <2>1. load # Idle /\ UNCHANGED <<projectDir, session>>
      BY <1>4 DEF Prepare, Run, Idle
    <2>2. ~audit_'.complete /\ audit_'.inputs = {}
      BY <1>0, <1>4, <2>1, LoadStep DEF IInv, Prepare, Run, Next, Idle, LoadOK
    <2> QED
      BY <2>2 DEF AuditOK
  <1>5. CASE ConsumePayload \/ \E e \in cache : importAuditCache(e)
    BY <1>5, AcceptedLoad, AcceptedImport
  <1> QED
    BY <1>1, <1>2, <1>3, <1>4, <1>5 DEF Next, vars, configureAuditExecution, configureAnalysis, auditCacheIdentity,
         exportAuditCache, WorldMoves, Restart

--------------------------------------------------------------------------------
(* The invariant and its consequences. *)

LEMMA Initially == Init => IInv
  <1> SUFFICES ASSUME Init PROVE IInv
    OBVIOUS
  <1>1. Idle \in Loads /\ content \in Contents /\ tool \in ToolVersions
    BY DEF Init, Loads, Contents, ToolVersions
  <1>2. TypeOK
    <2>1. moves \in 0 .. MaxMoves /\ processes \in Nat /\ auditInputRoots \in SUBSET Roots /\ projectDir \in Projects
      BY DEF Init
    <2>2. requireAuditIsolation \in BOOLEAN /\ cache = {} /\ audit_ \in Audits /\ load \in Loads
      BY <1>1, AuditTypes DEF Init
    <2> QED
      BY <1>1, <2>1, <2>2 DEF Init, TypeOK
  <1>3. ExpectedOK /\ LoadOK /\ AuditOK /\ CacheOK
    BY AuditTypes DEF Init, ExpectedOK, LoadOK, AuditOK, CacheOK, Idle
  <1> QED
    BY <1>2, <1>3 DEF IInv

LEMMA Inductive == IInv /\ [Next]_vars => IInv'
  BY TypeStep, ExpectedStep, LoadStep, AuditStep, CacheStep DEF IInv

LEMMA Invariant == Spec => []IInv
  BY Initially, Inductive, PTL DEF Spec

(* Every variable keeps its type, for any projects, files and processes.          *)
THEOREM TypeCorrect == Spec => []TypeOK
  <1>1. IInv => TypeOK
    BY DEF IInv
  <1> QED
    BY <1>1, Invariant, PTL

(* Whatever an earlier call, cache or process left behind, a complete audit under *)
(* required isolation was executed under the authorization of its own project.    *)
THEOREM NeverDowngraded == Spec => []IsolationNeverDowngraded
  <1>1. IInv => IsolationNeverDowngraded
    BY DEF IInv, AuditOK, IsolationNeverDowngraded
  <1> QED
    BY <1>1, Invariant, PTL

(* A complete audit was parsed from the versions the provider compared it with,   *)
(* by the tools its execution names: tools are compared before and after the run, *)
(* and a version never returns.                                                   *)
THEOREM FactsAreOfTheInputs == Spec => []FactsDescribeAcceptedInputs
  <1>1. IInv => FactsDescribeAcceptedInputs
    BY DEF IInv, AuditOK, FactsDescribeAcceptedInputs
  <1> QED
    BY <1>1, Invariant, PTL

(* Under required isolation the list of sources never leaves the directories      *)
(* authorized for the analysed project or by the policy in force, whatever the    *)
(* compilation models list and whatever has failed.                               *)
THEOREM Confined == Spec => []DiscoveryStaysConfined
  <1>1. IInv => DiscoveryStaysConfined
    <2> SUFFICES ASSUME IInv, requireAuditIsolation, NEW p \in Projects
                 PROVE  collectSourceFiles(p) \subseteq Within(Authorized)
      BY DEF DiscoveryStaysConfined
    <2>1. audit_.inputs \subseteq Within(Authorized)
      BY DEF IInv, AuditOK, Within, Authorized
    <2>2. auditReadPolicy # None => Units[projectDir] \cap Within(auditReadPolicy) \subseteq Within(Authorized)
      BY DEF Within, Authorized
    <2> QED
      BY <2>1, <2>2 DEF collectSourceFiles
  <1> QED
    BY <1>1, Invariant, PTL

--------------------------------------------------------------------------------
(* The cache key (HeaderClosure): for any roots, macros, commands and files,     *)
(* whatever a preprocessor asks about or opens is in the key.  An expansion is a *)
(* recursion over the identifiers that it has not replaced yet; that it has a    *)
(* solution follows by induction over their number, and induction is the         *)
(* well-foundedness of finite sets.                                              *)
HIDE HomeAssumption
HIDE UnitAssumption
HIDE BoundAssumption
HIDE NoneAssumption

(* Induction up to n, with the numbers for which it holds as a set T. *)
LEMMA UpTo_n ==
    ASSUME NEW n \in Nat, NEW T, 0 \in T, \A k \in 0 .. n - 1 : k \in T => k + 1 \in T
    PROVE  \A k \in 0 .. n : k \in T
  <1> DEFINE Bad == {0 .. k : k \in {k \in 0 .. n : k \notin T}}
  <1> SUFFICES ASSUME NEW m \in 0 .. n, m \notin T PROVE FALSE
    OBVIOUS
  <1>1. Bad \subseteq FiniteSubsetsOf(Nat)
    <2>1. ASSUME NEW k \in 0 .. n PROVE 0 .. k \in FiniteSubsetsOf(Nat)
      <3>1. IsFiniteSet(0 .. k)
        <4>1. k \in Int /\ 0 \in Int
          OBVIOUS
        <4> QED
          BY <4>1, FS_Interval
      <3>2. 0 .. k \in SUBSET Nat
        OBVIOUS
      <3> QED
        BY <3>1, <3>2 DEF FiniteSubsetsOf
    <2> QED
      BY <2>1
  <1>2. Bad # {}
    OBVIOUS
  <1>3. IsWellFoundedOn(StrictSubsetOrdering(Nat), FiniteSubsetsOf(Nat))
    BY FS_StrictSubsetOrderingWellFounded
  <1>4. PICK x \in Bad : \A y \in Bad : <<y, x>> \notin StrictSubsetOrdering(Nat)
    <2> HIDE DEF Bad
    <2> QED
      BY <1>1, <1>2, <1>3, WFMin
  <1>5. PICK k \in 0 .. n : k \notin T /\ x = 0 .. k
    BY <1>4
  <1>6. k - 1 \in 0 .. n /\ k - 1 \notin T
    BY <1>5
  <1>7. 0 .. k - 1 \in Bad
    BY <1>6
  <1>8. 0 .. k - 1 \subseteq 0 .. k /\ k \in 0 .. k /\ k \notin 0 .. k - 1
    BY <1>5
  <1>9. <<0 .. k - 1, x>> \in StrictSubsetOrdering(Nat)
    BY <1>5, <1>8 DEF StrictSubsetOrdering
  <1> QED
    BY <1>4, <1>7, <1>9

(* One step of an expansion looks only at the bodies of the identifier.           *)
LEMMA ExpandedDepends ==
    ASSUME NEW bodies, NEW g, NEW h, NEW o, NEW A,
           o.form = "identifier" /\ o.name \notin A =>
             \A b \in bodies[o.name] : g[<<b, A \cup {o.name}>>] = h[<<b, A \cup {o.name}>>]
    PROVE  o.form \in {"quoted", "angle", "complex", "identifier"} =>
             ExpandOnce(bodies, g, o, A) = ExpandOnce(bodies, h, o, A)
  <1>1. CASE o.form = "identifier" /\ o.name \notin A
    <2>1. {g[<<b, A \cup {o.name}>>] : b \in bodies[o.name]} = {h[<<b, A \cup {o.name}>>] : b \in bodies[o.name]}
      BY <1>1
    <2> QED
      BY <1>1, <2>1 DEF ExpandOnce
  <1>2. CASE o.form # "identifier" \/ o.name \in A
    BY <1>2 DEF ExpandOnce
  <1> QED
    BY <1>1, <1>2

Rank(A) == Cardinality(Macros \ A)
LEMMA RankFalls ==
    ASSUME NEW A \in SUBSET Macros, NEW m \in Macros, m \notin A
    PROVE  /\ Rank(A) \in 0 .. Cardinality(Macros) /\ Rank(A \cup {m}) = Rank(A) - 1
           /\ A \cup {m} \in SUBSET Macros
  <1>1. IsFiniteSet(Macros \ A) /\ IsFiniteSet(Macros)
    BY MacroAssumption, FS_Subset, Macros \ A \subseteq Macros
  <1>2. Cardinality(Macros \ A) \in Nat /\ Cardinality(Macros) \in Nat
        /\ Cardinality(Macros \ A) <= Cardinality(Macros)
    BY <1>1, FS_CardinalityType, FS_Subset, Macros \ A \subseteq Macros
  <1>3. Cardinality((Macros \ A) \ {m}) = Cardinality(Macros \ A) - 1
    BY <1>1, FS_RemoveElement
  <1>4. (Macros \ A) \ {m} = Macros \ (A \cup {m})
    OBVIOUS
  <1> QED
    BY <1>2, <1>3, <1>4 DEF Rank

LEMMA RankType ==
    ASSUME NEW A \in SUBSET Macros
    PROVE  Cardinality(Macros) \in Nat /\ Rank(A) \in 0 .. Cardinality(Macros)
  <1>1. IsFiniteSet(Macros \ A) /\ IsFiniteSet(Macros)
    BY MacroAssumption, FS_Subset, Macros \ A \subseteq Macros
  <1>2. Cardinality(Macros \ A) \in Nat /\ Cardinality(Macros) \in Nat
        /\ Cardinality(Macros \ A) <= Cardinality(Macros)
    BY <1>1, FS_CardinalityType, FS_Subset, Macros \ A \subseteq Macros
  <1> QED
    BY <1>2 DEF Rank

LEMMA FormOfOperand ==
    ASSUME NEW o \in HeaderOperands
    PROVE  /\ o.form \in {"quoted", "angle", "complex", "identifier"}
           /\ o.form = "identifier" => o.name \in Macros
           /\ o.form = "complex" <=> o = Complex
           /\ o # Unset
           /\ o.form \in {"quoted", "angle"} => o \in HeaderNames
  BY DEF HeaderOperands, HeaderNames, Identifiers, Complex, Unset

(* Every step replaces an identifier that was not being replaced, so that an      *)
(* expansion ends, and the recursion that defines it has a solution.              *)
LEMMA ExpansionIs ==
    ASSUME NEW bodies \in [Macros -> SUBSET HeaderOperands]
    PROVE  \A o \in HeaderOperands, A \in SUBSET Macros :
             expandHeaderLookup(bodies)[<<o, A>>] = ExpandOnce(bodies, expandHeaderLookup(bodies), o, A)
  <1> DEFINE n == Cardinality(Macros)
             S == HeaderOperands \X SUBSET Macros
             Solves(g, k) == \A o \in HeaderOperands, A \in SUBSET Macros :
                               Rank(A) < k => g[<<o, A>>] = ExpandOnce(bodies, g, o, A)
             T == {k \in 0 .. n + 1 : \E g : Solves(g, k)}
  <1>0. n \in Nat /\ \A A \in SUBSET Macros : Rank(A) \in 0 .. n
    <2>1. {} \in SUBSET Macros
      OBVIOUS
    <2> QED
      BY <2>1, RankType
  <1> HIDE DEF n
  <1>1. 0 \in T
    <2>1. Solves([p \in S |-> p], 0)
      BY <1>0
    <2> HIDE DEF Solves
    <2> QED
      BY <1>0, <2>1
  <1>2. ASSUME NEW k \in 0 .. n, k \in T PROVE k + 1 \in T
    <2>1. PICK g : Solves(g, k)
      BY <1>2
    <2> DEFINE h == [p \in S |-> ExpandOnce(bodies, g, p[1], p[2])]
    <2>2. \A o \in HeaderOperands, A \in SUBSET Macros : h[<<o, A>>] = ExpandOnce(bodies, g, o, A)
      OBVIOUS
    <2> HIDE DEF h
    <2>3. ASSUME NEW o \in HeaderOperands, NEW A \in SUBSET Macros, Rank(A) < k + 1
          PROVE  h[<<o, A>>] = ExpandOnce(bodies, h, o, A)
      <3>1. ASSUME o.form = "identifier", o.name \notin A, NEW b \in bodies[o.name]
            PROVE  g[<<b, A \cup {o.name}>>] = h[<<b, A \cup {o.name}>>]
        <4>1. o.name \in Macros
          BY <3>1, FormOfOperand
        <4>2. b \in HeaderOperands
          BY <4>1
        <4>3. Rank(A \cup {o.name}) < k /\ A \cup {o.name} \in SUBSET Macros
          <5>1. Rank(A \cup {o.name}) = Rank(A) - 1 /\ A \cup {o.name} \in SUBSET Macros
            BY <3>1, <4>1, RankFalls
          <5> QED
            BY <1>0, <2>3, <5>1
        <4>4. g[<<b, A \cup {o.name}>>] = ExpandOnce(bodies, g, b, A \cup {o.name})
          BY <2>1, <4>2, <4>3
        <4> QED
          BY <2>2, <4>2, <4>3, <4>4
      <3>2. ExpandOnce(bodies, g, o, A) = ExpandOnce(bodies, h, o, A)
        BY <3>1, FormOfOperand, ExpandedDepends
      <3> QED
        BY <2>2, <3>2
    <2>4. Solves(h, k + 1)
      BY <2>3
    <2> HIDE DEF Solves
    <2>5. k + 1 \in 0 .. n + 1
      BY <1>0
    <2> QED
      BY <2>4, <2>5
  <1> HIDE DEF T
  <1>3. n + 1 \in T
    BY <1>0, <1>1, <1>2, UpTo_n
  <1>4. PICK g : Solves(g, n + 1)
    BY <1>3 DEF T
  <1> DEFINE f == [p \in S |-> g[p]]
  <1>5. \A o \in HeaderOperands, A \in SUBSET Macros : f[<<o, A>>] = g[<<o, A>>]
    OBVIOUS
  <1> HIDE DEF f
  <1>6. ASSUME NEW o \in HeaderOperands, NEW A \in SUBSET Macros
        PROVE  f[<<o, A>>] = ExpandOnce(bodies, f, o, A)
    <2>1. Rank(A) < n + 1
      BY <1>0
    <2>2. f[<<o, A>>] = ExpandOnce(bodies, g, o, A)
      BY <1>4, <1>5, <2>1
    <2>3. ASSUME o.form = "identifier", o.name \notin A, NEW b \in bodies[o.name]
          PROVE  g[<<b, A \cup {o.name}>>] = f[<<b, A \cup {o.name}>>]
      <3>1. o.name \in Macros
        BY <2>3, FormOfOperand
      <3>2. b \in HeaderOperands /\ A \cup {o.name} \in SUBSET Macros
        BY <3>1
      <3> QED
        BY <1>5, <3>2
    <2>4. ExpandOnce(bodies, g, o, A) = ExpandOnce(bodies, f, o, A)
      BY <2>3, FormOfOperand, ExpandedDepends
    <2> QED
      BY <2>2, <2>4
  <1>7. f = [p \in S |-> ExpandOnce(bodies, f, p[1], p[2])]
    <2>1. \A p \in S : f[p] = ExpandOnce(bodies, f, p[1], p[2])
      <3> SUFFICES ASSUME NEW o \in HeaderOperands, NEW A \in SUBSET Macros
                   PROVE  f[<<o, A>>] = ExpandOnce(bodies, f, o, A)
        OBVIOUS
      <3> QED
        BY <1>6
    <2>2. f = [p \in S |-> f[p]]
      BY DEF f
    <2> QED
      BY <2>1, <2>2
  <1>8. expandHeaderLookup(bodies) =
          [p \in S |-> ExpandOnce(bodies, expandHeaderLookup(bodies), p[1], p[2])]
    BY <1>7 DEF expandHeaderLookup
  <1> HIDE DEF S
  <1>9. ASSUME NEW o \in HeaderOperands, NEW A \in SUBSET Macros
        PROVE  expandHeaderLookup(bodies)[<<o, A>>] = ExpandOnce(bodies, expandHeaderLookup(bodies), o, A)
    <2>1. <<o, A>> \in S
      BY DEF S
    <2> QED
      BY <1>8, <2>1
  <1> QED
    BY <1>9

(* The paths an expansion leads to are in the key, and it does not throw.         *)
Covered(file, operand, seen) ==
    LET expansion == expandHeaderLookup(macros)[<<operand, seen>>]
    IN  ~expansion.throws /\ Candidates(file, expansion.names) \subseteq candidates

(* What has been scanned is understood, and its macros and lookups are known.     *)
ScannedOK ==
    \A f \in visited :
        /\ ~ThrowsOn(tree[f].lines)
        /\ \A m \in Macros : Bodies(tree[f].lines, m) \subseteq macros[m]
        /\ \A o \in headerLookups(tree[f].lines) : <<f, o>> \in lookups
DefinedOK == \A m \in Macros : defined[m] \in macros[m] \cup {Unset}
FoundOK == {Source} \cup ToSet(unit.forced) \cup (candidates \cap DOMAIN tree) \subseteq visited \cup pending

(* Once there is a key nothing is pending and every lookup is covered; only then  *)
(* does the preprocessor run, and what is left of an operand stays covered.       *)
KeyedOK ==
    /\ pc \in {"scan", "refused"} => stack = <<>> /\ use = Unused
    /\ pc \in {"keyed", "stopped"} => pending = {} /\ \A l \in lookups : Covered(l[1], l[2], {})
    /\ use # Unused => stack # <<>> /\ Covered(Top.file, use.operand, use.seen)

ClosureIInv ==
    ClosureTypeOK /\ ScannedOK /\ DefinedOK /\ FoundOK /\ KeyedOK /\ KeyCoversPreprocessing

--------------------------------------------------------------------------------
LEMMA LinesOf ==
    ASSUME ClosureTypeOK, NEW f \in visited
    PROVE  /\ tree[f].lines \in Seq(Lines)
           /\ \A i \in 1 .. Len(tree[f].lines) :
                tree[f].lines[i] \in Lines /\ tree[f].lines[i] \in ToSet(tree[f].lines)
  BY CompilationAssumption DEF ClosureTypeOK, tree, ToSet

LEMMA LineTypes ==
    ASSUME NEW d \in Lines
    PROVE  d.macro \in Macros /\ d.operand \in HeaderOperands
  BY DEF Lines

LEMMA LookupsType ==
    ASSUME NEW lines \in Seq(Lines)
    PROVE  headerLookups(lines) \subseteq HeaderOperands
  <1>1. ToSet(lines) \subseteq Lines
    BY DEF ToSet
  <1> QED
    BY <1>1, LineTypes DEF headerLookups, With

LEMMA BodiesType ==
    ASSUME NEW lines \in Seq(Lines), NEW m \in Macros
    PROVE  Bodies(lines, m) \subseteq HeaderOperands
  <1>1. ToSet(lines) \subseteq Lines
    BY DEF ToSet
  <1>2. Complex \in HeaderOperands
    BY DEF HeaderOperands
  <1> QED
    BY <1>1, <1>2, LineTypes DEF Bodies, With

(* The last mention of a macro on the command line is at most one.                *)
LEMMA CommandType ==
    ASSUME NEW u \in Compilations
    PROVE  CommandMacros(u.command) \in [Macros -> SUBSET HeaderOperands]
  <1> DEFINE D == [op : {"define", "undef"}, macro : Macros, operand : HeaderOperands]
  <1>1. u.command \in Seq(D)
    BY CompilationAssumption
  <1>2. \A i \in DOMAIN u.command : u.command[i].operand \in HeaderOperands
    <2>1. \A i \in DOMAIN u.command : u.command[i] \in D
      <3> HIDE DEF D
      <3> QED
        BY <1>1
    <2> QED
      BY <2>1
  <1>3. \A m \in Macros : LastMention(u.command, m) \subseteq DOMAIN u.command
    BY DEF LastMention
  <1> QED
    BY <1>2, <1>3 DEF CommandMacros

(* What is covered stays so when a macro is replaced by a body of it.             *)
LEMMA CoveredIdentifier ==
    ASSUME ClosureTypeOK, NEW file, NEW o \in HeaderOperands, NEW A \in SUBSET Macros,
           o.form = "identifier", Covered(file, o, A), NEW b \in macros[o.name]
    PROVE  /\ o.name \in Macros /\ o.name \notin A /\ b \in HeaderOperands
           /\ A \cup {o.name} \in SUBSET Macros /\ Covered(file, b, A \cup {o.name})
  <1> DEFINE ex == expandHeaderLookup(macros)
             value == ex[<<b, A \cup {o.name}>>]
             values == {ex[<<c, A \cup {o.name}>>] : c \in macros[o.name]}
  <1>1. macros \in [Macros -> SUBSET HeaderOperands] /\ o.name \in Macros
    BY FormOfOperand DEF ClosureTypeOK
  <1>2. ex[<<o, A>>] = ExpandOnce(macros, ex, o, A)
    BY <1>1, ExpansionIs
  <1>3. ~ExpandOnce(macros, ex, o, A).throws /\ Candidates(file, ExpandOnce(macros, ex, o, A).names) \subseteq candidates
    BY <1>2 DEF Covered
  <1>4. o.name \notin A
    BY <1>3 DEF ExpandOnce
  <1>5. ExpandOnce(macros, ex, o, A) =
          [names |-> UNION {v.names : v \in values}, throws |-> \E v \in values : v.throws,
           complete |-> values # {} /\ \A v \in values : v.complete]
    <2> HIDE DEF ex
    <2> QED
      BY <1>4 DEF ExpandOnce
  <1>6. value \in values
    OBVIOUS
  <1> HIDE DEF value, values, ex
  <1>7. ExpandOnce(macros, ex, o, A).names = UNION {v.names : v \in values}
        /\ ExpandOnce(macros, ex, o, A).throws = \E v \in values : v.throws
    BY <1>5
  <1>8. ~value.throws /\ value.names \subseteq ExpandOnce(macros, ex, o, A).names
    BY <1>3, <1>6, <1>7
  <1>9. Candidates(file, value.names) \subseteq candidates
    BY <1>3, <1>8 DEF Candidates
  <1> QED
    BY <1>1, <1>4, <1>8, <1>9 DEF Covered, value, ex

(* A name that is covered is looked for only where the key says.                  *)
LEMMA CoveredName ==
    ASSUME ClosureTypeOK, NEW file, NEW o \in HeaderOperands, NEW A \in SUBSET Macros,
           o.form # "identifier", Covered(file, o, A)
    PROVE  o # Complex /\ \A d \in Search(file, o) : <<d, o.name>> \in candidates
  <1> DEFINE ex == expandHeaderLookup(macros)
  <1>1. macros \in [Macros -> SUBSET HeaderOperands]
    BY DEF ClosureTypeOK
  <1>2. ex[<<o, A>>] = ExpandOnce(macros, ex, o, A)
    BY <1>1, ExpansionIs
  <1>3. ~ExpandOnce(macros, ex, o, A).throws /\ Candidates(file, ExpandOnce(macros, ex, o, A).names) \subseteq candidates
    BY <1>2 DEF Covered
  <1> HIDE DEF ex
  <1>4. o.form \in {"quoted", "angle", "complex"}
    BY FormOfOperand
  <1>5. o.form # "complex" /\ ExpandOnce(macros, ex, o, A).names = {o}
    BY <1>3, <1>4 DEF ExpandOnce
  <1> QED
    BY <1>3, <1>5 DEF Candidates, Complex

(* The innermost frame, and the stack with another in its place.                  *)
LEMMA InnermostFrame ==
    ASSUME NEW S, NEW s \in Seq(S), NEW x \in S
    PROVE  /\ Tail(s) \in Seq(S) \/ s = <<>>
           /\ s # <<>> => /\ s[1] \in S /\ Tail(s) \in Seq(S)
                          /\ <<x>> \o Tail(s) \in Seq(S) /\ (<<x>> \o Tail(s))[1] = x
                          /\ <<x>> \o Tail(s) # <<>>
           /\ <<x>> \o s \in Seq(S) /\ (<<x>> \o s)[1] = x /\ <<x>> \o s # <<>>
  <1>1. <<x>> \in Seq(S) /\ Len(<<x>>) = 1 /\ <<x>>[1] = x
    OBVIOUS
  <1>2. ASSUME NEW t \in Seq(S)
        PROVE  <<x>> \o t \in Seq(S) /\ (<<x>> \o t)[1] = x /\ <<x>> \o t # <<>>
    <2>1. Len(<<x>> \o t) = 1 + Len(t) /\ <<x>> \o t \in Seq(S) /\ (<<x>> \o t)[1] = <<x>>[1]
      BY <1>1, ConcatProperties
    <2> QED
      BY <1>1, <2>1
  <1>3. s # <<>> => Tail(s) \in Seq(S) /\ s[1] \in S
    OBVIOUS
  <1> QED
    BY <1>2, <1>3

(* What a line that is read is, and the stack behind it.                          *)
LEMMA LineRead ==
    ASSUME ClosureTypeOK, Reading
    PROVE  /\ Top \in Frames /\ Top.file \in visited
           /\ Line \in Lines /\ Line \in ToSet(tree[Top.file].lines)
           /\ \A n \in Nat : /\ Past(n) \in Seq(Frames) /\ Past(n) # <<>>
                             /\ Past(n)[1].file = Top.file
  <1>1. stack \in Seq(Frames) /\ stack # <<>> /\ Top.next <= Len(tree[Top.file].lines)
    BY DEF Reading, ClosureTypeOK
  <1>2. Top \in Frames
    BY <1>1 DEF Top
  <1>3. Top.file \in visited /\ Top.next \in Nat \ {0} /\ Top.skipping \in Nat
    BY <1>2 DEF Frames
  <1>4. Line \in Lines /\ Line \in ToSet(tree[Top.file].lines)
    <2>1. Top.next \in 1 .. Len(tree[Top.file].lines)
      <3>1. Len(tree[Top.file].lines) \in Nat
        BY <1>3, LinesOf
      <3> QED
        BY <1>1, <1>3, <3>1
    <2> QED
      BY <1>3, <2>1, LinesOf DEF Line
  <1>5. ASSUME NEW n \in Nat
        PROVE  /\ Past(n) \in Seq(Frames) /\ Past(n) # <<>>
               /\ Past(n)[1].file = Top.file
    <2> DEFINE x == [file |-> Top.file, next |-> Top.next + 1, skipping |-> n]
    <2>1. x \in Frames /\ x.file = Top.file
      BY <1>3 DEF Frames
    <2> HIDE DEF x
    <2>2. <<x>> \o Tail(stack) \in Seq(Frames) /\ (<<x>> \o Tail(stack))[1] = x /\ <<x>> \o Tail(stack) # <<>>
      BY <1>1, <2>1, InnermostFrame
    <2>3. Past(n) = <<x>> \o Tail(stack)
      BY DEF Past, At, x
    <2> QED
      BY <2>1, <2>2, <2>3
  <1> QED
    BY <1>2, <1>3, <1>4, <1>5

--------------------------------------------------------------------------------
(* The preprocessor leaves the key alone.                                         *)
LEMMA KeyStays ==
    ASSUME ClosureIInv, KeyUnchanged, pc = "keyed", pc' \in {"keyed", "stopped"},
           todo' \in Seq({Source} \cup ToSet(unit.forced)), stack' \in Seq(Frames),
           defined' \in [Macros -> HeaderOperands \cup {Unset}], \A m \in Macros : defined'[m] \in macros[m] \cup {Unset},
           use' \in Uses \cup {Unused},
           use' # Unused => stack' # <<>> /\ Covered(stack'[1].file, use'.operand, use'.seen),
           asked' \subseteq candidates \cup visited, opened' \subseteq visited
    PROVE  ClosureIInv'
  <1>1. /\ unit' = unit /\ visited' = visited /\ pending' = pending /\ macros' = macros
        /\ lookups' = lookups /\ candidates' = candidates
    BY DEF KeyUnchanged, closure
  <1>2. Frames' = Frames
    BY <1>1 DEF Frames
  <1>3. \A f, o, A : Covered(f, o, A)' = Covered(f, o, A)
    BY <1>1 DEF Covered, Candidates, Search, tree
  <1>4. ClosureTypeOK'
    BY <1>1, <1>2 DEF ClosureIInv, ClosureTypeOK, tree
  <1>5. ScannedOK' /\ DefinedOK' /\ FoundOK'
    BY <1>1 DEF ClosureIInv, ScannedOK, DefinedOK, FoundOK, tree
  <1>6. KeyedOK'
    <2>1. pending = {} /\ \A l \in lookups : Covered(l[1], l[2], {})
      BY DEF ClosureIInv, KeyedOK
    <2> QED
      BY <1>1, <1>3, <2>1 DEF KeyedOK, Top
  <1>7. KeyCoversPreprocessing'
    BY <1>1 DEF KeyCoversPreprocessing
  <1> QED
    BY <1>4, <1>5, <1>6, <1>7 DEF ClosureIInv

LEMMA BeginStep == ASSUME ClosureIInv, Begin PROVE ClosureIInv'
  <1>1. todo \in Seq({Source} \cup ToSet(unit.forced)) /\ todo # <<>> /\ use = Unused
    BY DEF ClosureIInv, ClosureTypeOK, KeyedOK, Begin
  <1>2. todo[1] \in {Source} \cup ToSet(unit.forced) /\ Tail(todo) \in Seq({Source} \cup ToSet(unit.forced))
    BY <1>1
  <1>3. todo[1] \in visited /\ todo[1] \in DOMAIN tree
    BY <1>2 DEF ClosureIInv, ClosureTypeOK, FoundOK, KeyedOK, Begin
  <1>4. NewFrame(todo[1]) \in Frames /\ <<NewFrame(todo[1])>> \in Seq(Frames)
    BY <1>3 DEF NewFrame, Frames
  <1>5. KeyUnchanged /\ pc = "keyed" /\ pc' = "keyed" /\ todo' = Tail(todo) /\ stack' = <<NewFrame(todo[1])>>
        /\ defined' = defined /\ use' = Unused /\ asked' = asked \cup {todo[1]} /\ opened' = opened \cup {todo[1]}
    BY <1>1, <1>3 DEF Begin
  <1>6. defined \in [Macros -> HeaderOperands \cup {Unset}] /\ \A m \in Macros : defined[m] \in macros[m] \cup {Unset}
    BY DEF ClosureIInv, ClosureTypeOK, DefinedOK
  <1>7. asked' \subseteq candidates \cup visited /\ opened' \subseteq visited
    BY <1>3, <1>5 DEF ClosureIInv, KeyCoversPreprocessing
  <1> QED
    BY <1>2, <1>4, <1>5, <1>6, <1>7, KeyStays

(* What a step that asks about nothing must keep.                                 *)
LEMMA QuietStep ==
    ASSUME ClosureIInv, KeyUnchanged, pc = "keyed", pc' \in {"keyed", "stopped"},
           UNCHANGED <<todo, asked, opened>>, stack' \in Seq(Frames),
           \/ defined' = defined
           \/ \E m \in Macros : \E o \in macros[m] \cup {Unset} : defined' = [defined EXCEPT ![m] = o],
           use' \in Uses \cup {Unused},
           use' # Unused => stack' # <<>> /\ Covered(stack'[1].file, use'.operand, use'.seen)
    PROVE  ClosureIInv'
  <1>1. /\ macros \in [Macros -> SUBSET HeaderOperands] /\ todo \in Seq({Source} \cup ToSet(unit.forced))
        /\ defined \in [Macros -> HeaderOperands \cup {Unset}] /\ \A m \in Macros : defined[m] \in macros[m] \cup {Unset}
    BY DEF ClosureIInv, ClosureTypeOK, DefinedOK
  <1>2. asked' \subseteq candidates \cup visited /\ opened' \subseteq visited
    BY DEF ClosureIInv, KeyCoversPreprocessing
  <1>3. /\ defined' \in [Macros -> HeaderOperands \cup {Unset}]
        /\ \A n \in Macros : defined'[n] \in macros[n] \cup {Unset}
    <2>1. CASE defined' = defined
      BY <1>1, <2>1
    <2>2. CASE \E m \in Macros : \E o \in macros[m] \cup {Unset} : defined' = [defined EXCEPT ![m] = o]
      BY <1>1, <2>2
    <2> QED
      BY <2>1, <2>2
  <1> QED
    BY <1>1, <1>2, <1>3, KeyStays

LEMMA EndOfFileStep == ASSUME ClosureIInv, EndOfFile PROVE ClosureIInv'
  <1>1. stack \in Seq(Frames) /\ stack # <<>> /\ use = Unused
    BY DEF ClosureIInv, ClosureTypeOK, EndOfFile
  <1>2. Tail(stack) \in Seq(Frames)
    BY <1>1
  <1> QED
    BY <1>1, <1>2, QuietStep DEF EndOfFile

LEMMA SkipStep == ASSUME ClosureIInv, Skip PROVE ClosureIInv'
  <1>1. Reading /\ ClosureTypeOK /\ use = Unused /\ pc = "keyed"
    BY DEF ClosureIInv, Skip, Reading
  <1>2. Top.skipping \in Nat /\ Top.skipping > 0
    BY <1>1, LineRead DEF Skip, Frames
  <1>3. PICK n \in Nat : stack' = Past(n)
    <2>1. Top.skipping + 1 \in Nat /\ Top.skipping - 1 \in Nat
      BY <1>2
    <2> QED
      BY <1>2, <2>1 DEF Skip
  <1>4. stack' \in Seq(Frames)
    BY <1>1, <1>3, LineRead
  <1> QED
    BY <1>1, <1>4, QuietStep DEF Skip

LEMMA BranchStep == ASSUME ClosureIInv, Branch PROVE ClosureIInv'
  <1>1. Reading /\ ClosureTypeOK /\ use = Unused /\ pc = "keyed"
    BY DEF ClosureIInv, Branch, Reading
  <1>2. PICK n \in Nat : stack' = Past(n)
    <2>1. PICK n \in {0, 1} : stack' = Past(n)
      BY DEF Branch
    <2> QED
      BY <2>1
  <1>3. stack' \in Seq(Frames)
    BY <1>1, <1>2, LineRead
  <1> QED
    BY <1>1, <1>3, QuietStep DEF Branch

LEMMA DefineMacroStep == ASSUME ClosureIInv, DefineMacro PROVE ClosureIInv'
  <1>1. Reading /\ ClosureTypeOK /\ use = Unused /\ pc = "keyed"
    BY DEF ClosureIInv, DefineMacro, Reading
  <1>2. stack' \in Seq(Frames)
    BY <1>1, LineRead DEF DefineMacro
  <1>3. Line \in Lines /\ Line.macro \in Macros /\ Line \in ToSet(tree[Top.file].lines) /\ Top.file \in visited
    BY <1>1, LineRead, LineTypes
  <1>4. Line.op = "define" => Line.operand \in macros[Line.macro]
    <2>1. Line.op = "define" => Line.operand \in Bodies(tree[Top.file].lines, Line.macro)
      BY <1>3 DEF Bodies, With
    <2> QED
      BY <1>3, <2>1 DEF ClosureIInv, ScannedOK
  <1> QED
    BY <1>1, <1>2, <1>3, <1>4, QuietStep DEF DefineMacro

LEMMA UseOperandStep == ASSUME ClosureIInv, UseOperand PROVE ClosureIInv'
  <1>1. Reading /\ ClosureTypeOK /\ pc = "keyed"
    BY DEF ClosureIInv, UseOperand, Reading
  <1>2. /\ stack' \in Seq(Frames) /\ stack' # <<>> /\ stack'[1].file = Top.file
        /\ Top.file \in visited /\ Line \in Lines /\ Line \in ToSet(tree[Top.file].lines)
    BY <1>1, LineRead DEF UseOperand
  <1>3. Line.op # "unclassified"
    BY <1>2 DEF ClosureIInv, ScannedOK, ThrowsOn, With
  <1>4. Line.op \in {"include", "probe"} /\ use' = [op |-> Line.op, operand |-> Line.operand, seen |-> {}]
    BY <1>3 DEF UseOperand
  <1>5. Line.operand \in headerLookups(tree[Top.file].lines)
    BY <1>2, <1>4 DEF headerLookups, With
  <1>6. <<Top.file, Line.operand>> \in lookups
    BY <1>2, <1>5 DEF ClosureIInv, ScannedOK
  <1>7. Covered(Top.file, Line.operand, {})
    BY <1>1, <1>6 DEF ClosureIInv, KeyedOK
  <1>8. use' \in Uses
    BY <1>2, <1>4, LineTypes DEF Uses
  <1> QED
    BY <1>1, <1>2, <1>4, <1>7, <1>8, QuietStep DEF UseOperand

(* An operand that is in use, and where.                                          *)
LEMMA InUse ==
    ASSUME ClosureIInv, use # Unused
    PROVE  /\ use \in Uses /\ use.operand \in HeaderOperands /\ use.seen \in SUBSET Macros
           /\ stack \in Seq(Frames) /\ stack # <<>> /\ Top \in Frames /\ Top.file \in visited
           /\ Covered(Top.file, use.operand, use.seen)
  <1>1. use \in Uses /\ stack \in Seq(Frames) /\ stack # <<>> /\ Covered(Top.file, use.operand, use.seen)
    BY DEF ClosureIInv, ClosureTypeOK, KeyedOK
  <1>2. Top \in Frames
    BY <1>1 DEF Top
  <1> QED
    BY <1>1, <1>2 DEF Uses, Frames

LEMMA ReplaceStep == ASSUME ClosureIInv, Replace PROVE ClosureIInv'
  <1>1. use # Unused
    BY DEF Replace, Unused, Unset
  <1>2. /\ use \in Uses /\ use.operand \in HeaderOperands /\ use.seen \in SUBSET Macros /\ use.operand.form = "identifier"
        /\ stack \in Seq(Frames) /\ stack # <<>> /\ Covered(Top.file, use.operand, use.seen) /\ ClosureTypeOK
    BY <1>1, InUse DEF Replace, ClosureIInv
  <1>3. use.operand.name \in Macros
    BY <1>2, FormOfOperand
  <1> DEFINE m == use.operand.name
  <1>4. CASE m \in use.seen \/ defined[m] = Unset
    BY <1>2, <1>4, QuietStep DEF Replace, Stop, preprocessor, Top
  <1>5. CASE ~(m \in use.seen \/ defined[m] = Unset)
    <2>1. use' = [use EXCEPT !.operand = defined[m], !.seen = @ \cup {m}] /\ stack' = stack
      BY <1>5 DEF Replace
    <2>2. defined[m] \in macros[m]
      BY <1>3, <1>5 DEF ClosureIInv, DefinedOK
    <2>3. /\ defined[m] \in HeaderOperands /\ use.seen \cup {m} \in SUBSET Macros
          /\ Covered(Top.file, defined[m], use.seen \cup {m})
      <3> DEFINE o == use.operand
                 A == use.seen
                 file == Top.file
                 b == defined[o.name]
      <3>1. /\ o \in HeaderOperands /\ A \in SUBSET Macros /\ o.form = "identifier" /\ Covered(file, o, A)
            /\ b \in macros[o.name] /\ ClosureTypeOK
        BY <1>2, <2>2
      <3> HIDE DEF o, A, file, b
      <3>2. b \in HeaderOperands /\ A \cup {o.name} \in SUBSET Macros /\ Covered(file, b, A \cup {o.name})
        BY <3>1, CoveredIdentifier
      <3> QED
        BY <3>2 DEF o, A, file, b
    <2>4. use' = [op |-> use.op, operand |-> defined[m], seen |-> use.seen \cup {m}]
      BY <1>2, <2>1 DEF Uses
    <2>5. use' \in Uses
      BY <1>2, <2>3, <2>4 DEF Uses
    <2>6. Covered(stack'[1].file, use'.operand, use'.seen)
      BY <2>1, <2>3, <2>4 DEF Top
    <2> QED
      BY <1>2, <1>5, <2>1, <2>5, <2>6, QuietStep DEF Replace
  <1> QED
    BY <1>4, <1>5

(* A compiler looks for a name only where the key has candidates.                 *)
LEMMA OrderWithin ==
    ASSUME NEW o, NEW file, NEW parent \in {tree[file].parent, tree[file].resolved}
    PROVE  /\ Order(o, parent) \in Seq(Search(file, o))
           /\ \A i \in DOMAIN Order(o, parent) : Order(o, parent)[i] \in Search(file, o)
  <1> DEFINE X == Search(file, o)
  <1>1. IncludeRoots \in Seq(X) /\ (o.form = "quoted" => QuotedRoots \in Seq(X) /\ parent \in X)
    <2>1. ToSet(IncludeRoots) = Range(IncludeRoots) /\ ToSet(QuotedRoots) = Range(QuotedRoots)
      BY DEF ToSet, Range
    <2>2. Range(IncludeRoots) \subseteq X /\ (o.form = "quoted" => Range(QuotedRoots) \subseteq X /\ parent \in X)
      BY <2>1 DEF Search
    <2> HIDE DEF X
    <2>3. \A S, T : S \subseteq T => Seq(S) \subseteq Seq(T)
      OBVIOUS
    <2> QED
      BY <2>2, <2>3, RootAssumption
  <1> HIDE DEF X
  <1>2. CASE o.form = "quoted"
    <2>1. <<parent>> \in Seq(X)
      BY <1>1, <1>2
    <2>2. <<parent>> \o QuotedRoots \in Seq(X)
      BY <1>1, <1>2, <2>1, ConcatProperties
    <2>3. (<<parent>> \o QuotedRoots) \o IncludeRoots \in Seq(X)
      BY <1>1, <2>2, ConcatProperties
    <2>4. Order(o, parent) = (<<parent>> \o QuotedRoots) \o IncludeRoots
      BY <1>2 DEF Order
    <2> QED
      BY <2>3, <2>4 DEF X
  <1>3. CASE o.form # "quoted"
    <2>1. Order(o, parent) = <<>> \o IncludeRoots
      BY <1>3 DEF Order
    <2>2. <<>> \in Seq(X)
      OBVIOUS
    <2>3. <<>> \o IncludeRoots \in Seq(X)
      BY <1>1, <2>2, ConcatProperties
    <2> QED
      BY <2>1, <2>3 DEF X
  <1> QED
    BY <1>2, <1>3

(* The first of some positions. *)
LEMMA FirstOfThem ==
    ASSUME NEW S \in SUBSET Nat, S # {}
    PROVE  (CHOOSE i \in S : \A j \in S : i <= j) \in S
  <1>1. \E i \in S : \A j \in S : i <= j
    <2> SUFFICES ASSUME \A i \in S : \E j \in S : ~(i <= j) PROVE FALSE
      OBVIOUS
    <2>0. PICK m \in S : m \in Nat
      OBVIOUS
    <2>1. m \in S /\ m \in Nat /\ m \in 0 .. m
      BY <2>0
    <2> DEFINE T == {k \in 0 .. m : \A i \in S : i > k}
    <2>2. 0 \in T
      BY <2>1
    <2>3. ASSUME NEW k \in 0 .. m - 1, k \in T PROVE k + 1 \in T
      BY <2>1, <2>3
    <2> HIDE DEF T
    <2>4. m \in T
      BY <2>1, <2>2, <2>3, UpTo_n
    <2> QED
      BY <2>1, <2>4 DEF T
  <1> QED
    BY <1>1

LEMMA LookUpStep == ASSUME ClosureIInv, LookUp PROVE ClosureIInv'
  <1> DEFINE o == use.operand
             file == Top.file
  <1>1. /\ o \in HeaderOperands /\ stack \in Seq(Frames) /\ stack # <<>> /\ Top \in Frames /\ file \in visited
        /\ Covered(file, o, use.seen) /\ use.seen \in SUBSET Macros /\ ClosureTypeOK /\ o.form # "identifier"
    BY InUse DEF LookUp, ClosureIInv
  <1>2. o # Complex /\ \A d \in Search(file, o) : <<d, o.name>> \in candidates
    <2> HIDE DEF o, file
    <2> QED
      BY <1>1, CoveredName
  <1>3. PICK parent \in {tree[file].parent, tree[file].resolved} : LookUpFrom(parent)
    BY <1>2 DEF LookUp
  <1> DEFINE dirs == Order(o, parent)
             path(i) == <<dirs[i], o.name>>
             there == {i \in DOMAIN dirs : path(i) \in DOMAIN tree}
             first == CHOOSE i \in there : \A j \in there : i <= j
  <1>4. \A i \in DOMAIN dirs : dirs[i] \in Search(file, o) /\ path(i) \in candidates
    <2> HIDE DEF o, file
    <2> QED
      BY <1>2, OrderWithin
  <1>5. there # {} => first \in there /\ path(first) \in visited
    <2>1. dirs \in Seq(Search(file, o))
      BY OrderWithin
    <2>2. DOMAIN dirs \subseteq Nat
      <3> HIDE DEF dirs
      <3> QED
        BY <2>1
    <2>3. there \in SUBSET Nat
      BY <2>2
    <2>4. there # {} => first \in there
      <3> HIDE DEF there
      <3> QED
        BY <2>3, FirstOfThem
    <2>5. \A i \in there : path(i) \in candidates \cap DOMAIN tree
      BY <1>4
    <2>6. candidates \cap DOMAIN tree \subseteq visited
      BY DEF ClosureIInv, FoundOK, KeyedOK, LookUp
    <2> HIDE DEF there, first, path
    <2> QED
      BY <2>4, <2>5, <2>6
  <1>6. asked' \subseteq candidates \cup visited
    <2>1. asked' = asked \cup {path(i) : i \in {j \in DOMAIN dirs : there = {} \/ j <= first}}
      BY <1>3 DEF LookUpFrom
    <2>2. asked \subseteq candidates \cup visited
      BY DEF ClosureIInv, KeyCoversPreprocessing
    <2> HIDE DEF there, first, path, dirs
    <2> QED
      BY <1>4, <2>1, <2>2
  <1>7. stack' \in Seq(Frames) /\ opened' \subseteq visited /\ pc' \in {"keyed", "stopped"}
    <2>0. opened \subseteq visited /\ pc = "keyed"
      BY DEF ClosureIInv, KeyCoversPreprocessing, LookUp
    <2>1. CASE use.op = "probe"
      <3>1. PICK skipping \in {0, 1} : stack' = At(Top.next, skipping)
        BY <1>3, <2>1 DEF LookUpFrom
      <3> DEFINE x == [file |-> Top.file, next |-> Top.next, skipping |-> skipping]
      <3>2. x \in Frames
        BY <1>1 DEF Frames
      <3> HIDE DEF x
      <3>3. stack' \in Seq(Frames)
        <4>1. <<x>> \o Tail(stack) \in Seq(Frames)
          BY <1>1, <3>2, InnermostFrame
        <4> QED
          BY <3>1, <4>1 DEF At, x
      <3> QED
        BY <1>3, <2>0, <2>1, <3>3 DEF LookUpFrom
    <2>2. CASE use.op # "probe" /\ there # {} /\ Len(stack) < MaxDepth
      <3>1. stack' = <<NewFrame(path(first))>> \o stack /\ opened' = opened \cup {path(first)} /\ pc' = pc
        BY <1>3, <2>2 DEF LookUpFrom
      <3>2. path(first) \in visited
        BY <1>5, <2>2
      <3> HIDE DEF path, first, there
      <3>3. NewFrame(path(first)) \in Frames
        BY <3>2 DEF NewFrame, Frames
      <3> QED
        BY <1>1, <2>0, <3>1, <3>2, <3>3, InnermostFrame
    <2>3. CASE use.op # "probe" /\ ~(there # {} /\ Len(stack) < MaxDepth)
      <3>1. pc' = "stopped" /\ stack' = stack /\ opened' = opened
        BY <1>3, <2>3 DEF LookUpFrom
      <3> QED
        BY <1>1, <2>0, <3>1
    <2> QED
      BY <2>1, <2>2, <2>3
  <1>8. /\ KeyUnchanged /\ pc = "keyed" /\ use' = Unused /\ todo' = todo /\ defined' = defined
        /\ todo \in Seq({Source} \cup ToSet(unit.forced)) /\ defined \in [Macros -> HeaderOperands \cup {Unset}]
        /\ \A m \in Macros : defined[m] \in macros[m] \cup {Unset}
    BY DEF LookUp, ClosureIInv, ClosureTypeOK, DefinedOK
  <1> QED
    BY <1>6, <1>7, <1>8, KeyStays

--------------------------------------------------------------------------------
(* The scan. *)
LEMMA RefuseStep ==
    ASSUME ClosureIInv, pc = "scan", Refuse, UNCHANGED <<unit, preprocessor>>
    PROVE  ClosureIInv'
  <1>1. /\ unit' = unit /\ visited' = visited /\ pending' = pending /\ macros' = macros
        /\ lookups' = lookups /\ candidates' = candidates /\ pc' = "refused"
        /\ todo' = todo /\ stack' = stack /\ defined' = defined /\ use' = use /\ asked' = asked /\ opened' = opened
    BY DEF Refuse, closure, preprocessor
  <1>2. Frames' = Frames
    BY <1>1 DEF Frames
  <1>3. stack = <<>> /\ use = Unused
    BY DEF ClosureIInv, KeyedOK
  <1>4. ClosureTypeOK'
    BY <1>1, <1>2 DEF ClosureIInv, ClosureTypeOK, tree
  <1> QED
    BY <1>1, <1>3, <1>4 DEF ClosureIInv, ScannedOK, DefinedOK, FoundOK, KeyedOK, KeyCoversPreprocessing, tree

LEMMA ScanPendingStep == ASSUME ClosureIInv, ScanPending PROVE ClosureIInv'
  <1>1. PICK f \in pending : Scan(f)
    BY DEF ScanPending
  <1>2. CASE f \notin DOMAIN tree \/ ThrowsOn(tree[f].lines)
    BY <1>1, <1>2, RefuseStep DEF Scan, ScanPending
  <1>3. CASE ~(f \notin DOMAIN tree \/ ThrowsOn(tree[f].lines))
    <2> DEFINE lines == tree[f].lines
    <2>1. /\ unit' = unit /\ visited' = visited \cup {f} /\ pending' = pending \ {f}
          /\ macros' = [m \in Macros |-> macros[m] \cup Bodies(lines, m)]
          /\ lookups' = lookups \cup {<<f, o>> : o \in headerLookups(lines)}
          /\ candidates' = candidates /\ pc' = "scan" /\ pc = "scan"
          /\ todo' = todo /\ stack' = stack /\ defined' = defined /\ use' = use /\ asked' = asked /\ opened' = opened
      BY <1>1, <1>3 DEF Scan, ScanPending, preprocessor, addHeaderMacros
    <2>2. /\ unit \in Compilations /\ visited \subseteq DOMAIN tree /\ macros \in [Macros -> SUBSET HeaderOperands]
          /\ defined \in [Macros -> HeaderOperands \cup {Unset}] /\ lookups \subseteq visited \X HeaderOperands
          /\ todo \in Seq({Source} \cup ToSet(unit.forced)) /\ stack = <<>> /\ use = Unused
          /\ f \in DOMAIN tree /\ ~ThrowsOn(lines)
      BY <1>3, <2>1 DEF ClosureIInv, ClosureTypeOK, KeyedOK
    <2>3. lines \in Seq(Lines)
      BY <2>2, CompilationAssumption DEF tree
    <2> HIDE DEF lines
    <2>4. headerLookups(lines) \subseteq HeaderOperands /\ \A m \in Macros : Bodies(lines, m) \subseteq HeaderOperands
      <3>1. headerLookups(lines) \subseteq HeaderOperands
        BY <2>3, LookupsType
      <3> QED
        BY <2>3, <3>1, BodiesType
    <2>5. macros' \in [Macros -> SUBSET HeaderOperands] /\ lookups' \subseteq visited' \X HeaderOperands
          /\ visited' \subseteq DOMAIN tree
      BY <2>1, <2>2, <2>4
    <2>6. ClosureTypeOK'
      <3>1. stack' \in Seq(Frames')
        BY <2>1, <2>2
      <3> QED
        BY <2>1, <2>2, <2>5, <3>1 DEF ClosureTypeOK, tree
    <2>7. \A m \in Macros : macros[m] \subseteq macros'[m] /\ Bodies(lines, m) \subseteq macros'[m]
      BY <2>1
    <2>8. ScannedOK'
      <3>1. ASSUME NEW g \in visited'
            PROVE  /\ ~ThrowsOn(tree[g].lines)
                   /\ \A m \in Macros : Bodies(tree[g].lines, m) \subseteq macros'[m]
                   /\ \A o \in headerLookups(tree[g].lines) : <<g, o>> \in lookups'
        <4>1. CASE g \in visited
          BY <2>1, <2>7, <4>1 DEF ClosureIInv, ScannedOK
        <4>2. CASE g = f
          BY <2>1, <2>2, <2>7, <4>2 DEF lines
        <4> QED
          BY <2>1, <4>1, <4>2
      <3>2. tree' = tree
        BY <2>1 DEF tree
      <3> QED
        BY <3>1, <3>2 DEF ScannedOK
    <2>9. DefinedOK'
      BY <2>1, <2>7 DEF ClosureIInv, DefinedOK
    <2>10. FoundOK'
      BY <2>1 DEF ClosureIInv, FoundOK, tree
    <2>11. KeyedOK' /\ KeyCoversPreprocessing'
      BY <2>1, <2>2 DEF ClosureIInv, KeyedOK, KeyCoversPreprocessing
    <2> QED
      BY <2>6, <2>8, <2>9, <2>10, <2>11 DEF ClosureIInv
  <1> QED
    BY <1>2, <1>3

LEMMA ExpandLookupsStep == ASSUME ClosureIInv, ExpandLookups PROVE ClosureIInv'
  <1>1. CASE \E l \in lookups : ExpansionOf(l[2]).throws
    BY <1>1, RefuseStep DEF ExpandLookups
  <1>2. CASE ~ \E l \in lookups : ExpansionOf(l[2]).throws
    <2>1. /\ unit' = unit /\ visited' = visited /\ macros' = macros /\ lookups' = lookups
          /\ pc = "scan" /\ pending = {}
          /\ candidates' = candidates \cup FoundPaths
          /\ pending' = ((FoundPaths \ candidates) \ visited) \cap DOMAIN tree
          /\ todo' = todo /\ stack' = stack /\ defined' = defined /\ use' = use /\ asked' = asked /\ opened' = opened
      BY <1>2 DEF ExpandLookups, preprocessor
    <2>2. pc' \in {"scan", "keyed", "refused"} /\ (pc' = "keyed" => pending' = {})
      BY <1>2 DEF ExpandLookups
    <2>3. stack = <<>> /\ use = Unused
      BY <2>1 DEF ClosureIInv, KeyedOK
    <2>4. Frames' = Frames
      BY <2>1 DEF Frames
    <2>5. ClosureTypeOK'
      BY <2>1, <2>2, <2>4 DEF ClosureIInv, ClosureTypeOK, tree
    <2>6. ScannedOK' /\ DefinedOK'
      BY <2>1 DEF ClosureIInv, ScannedOK, DefinedOK, tree
    <2>7. FoundOK'
      <3>1. tree' = tree
        BY <2>1 DEF tree
      <3> HIDE DEF tree
      <3> QED
        BY <2>1, <3>1 DEF ClosureIInv, FoundOK
    <2>8. ASSUME NEW l \in lookups PROVE Covered(l[1], l[2], {})'
      <3>1. ~ExpansionOf(l[2]).throws /\ Candidates(l[1], ExpansionOf(l[2]).names) \subseteq FoundPaths
        BY <1>2 DEF FoundPaths
      <3>2. Candidates(l[1], ExpansionOf(l[2]).names) \subseteq candidates'
        BY <2>1, <3>1
      <3>3. ExpansionOf(l[2]) = expandHeaderLookup(macros')[<<l[2], {}>>]
        BY <2>1 DEF ExpansionOf
      <3>4. \A file, names : Candidates(file, names)' = Candidates(file, names)
        BY <2>1 DEF Candidates, Search, tree
      <3> HIDE DEF ExpansionOf, Candidates
      <3> QED
        BY <3>1, <3>2, <3>3, <3>4 DEF Covered
    <2>9. KeyedOK'
      BY <2>1, <2>2, <2>3, <2>8 DEF KeyedOK
    <2>10. KeyCoversPreprocessing'
      BY <2>1 DEF ClosureIInv, KeyCoversPreprocessing
    <2> QED
      BY <2>5, <2>6, <2>7, <2>9, <2>10 DEF ClosureIInv
  <1> QED
    BY <1>1, <1>2

LEMMA ClosureInitially == ClosureInit => ClosureIInv
  <1> SUFFICES ASSUME ClosureInit PROVE ClosureIInv
    OBVIOUS
  <1>1. macros \in [Macros -> SUBSET HeaderOperands] /\ unit.forced \in Seq(ToSet(unit.forced))
    <2>1. ToSet(unit.forced) = Range(unit.forced)
      BY DEF ToSet, Range
    <2> QED
      BY <2>1, CommandType, CompilationAssumption DEF ClosureInit, ClosureStart
  <1>2. \A m \in Macros : defined[m] \in macros[m] \cup {Unset}
    BY DEF ClosureInit, ClosureStart
  <1>3. defined \in [Macros -> HeaderOperands \cup {Unset}]
    <2>1. \A m \in Macros : defined[m] \in HeaderOperands \cup {Unset}
      BY <1>1, <1>2
    <2>2. defined = [m \in Macros |-> defined[m]]
      BY DEF ClosureInit, ClosureStart
    <2> QED
      BY <2>1, <2>2
  <1>4. todo \in Seq({Source} \cup ToSet(unit.forced))
    <2> DEFINE X == {Source} \cup ToSet(unit.forced)
    <2>1. unit.forced \in Seq(X) /\ <<Source>> \in Seq(X)
      BY <1>1
    <2> HIDE DEF X
    <2>2. unit.forced \o <<Source>> \in Seq(X)
      BY <2>1, ConcatProperties
    <2> QED
      BY <2>2 DEF X, ClosureInit, ClosureStart
  <1>5. ClosureTypeOK
    <2>1. stack \in Seq(Frames)
      BY DEF ClosureInit, ClosureStart
    <2> QED
      BY <1>1, <1>3, <1>4, <2>1 DEF ClosureInit, ClosureStart, ClosureTypeOK
  <1>6. ScannedOK /\ DefinedOK /\ FoundOK
    BY <1>2 DEF ClosureInit, ClosureStart, ScannedOK, DefinedOK, FoundOK
  <1>7. KeyedOK /\ KeyCoversPreprocessing
    BY DEF ClosureInit, ClosureStart, KeyedOK, KeyCoversPreprocessing
  <1> QED
    BY <1>5, <1>6, <1>7 DEF ClosureIInv

LEMMA ClosureStutters == ASSUME ClosureIInv, UNCHANGED closureVars PROVE ClosureIInv'
  <1>1. /\ unit' = unit /\ visited' = visited /\ pending' = pending /\ macros' = macros
        /\ lookups' = lookups /\ candidates' = candidates /\ pc' = pc
        /\ todo' = todo /\ stack' = stack /\ defined' = defined /\ use' = use /\ asked' = asked /\ opened' = opened
    BY DEF closureVars, closure, preprocessor
  <1>2. Frames' = Frames
    BY <1>1 DEF Frames
  <1>3. \A f, o, A : Covered(f, o, A)' = Covered(f, o, A)
    BY <1>1 DEF Covered, Candidates, Search, tree
  <1>4. ClosureTypeOK'
    BY <1>1, <1>2 DEF ClosureIInv, ClosureTypeOK, tree
  <1>5. KeyedOK'
    BY <1>1, <1>3 DEF ClosureIInv, KeyedOK, Top
  <1> QED
    BY <1>1, <1>4, <1>5 DEF ClosureIInv, ScannedOK, DefinedOK, FoundOK, KeyCoversPreprocessing, tree

LEMMA ClosureInductive == ClosureIInv /\ [ClosureNext]_closureVars => ClosureIInv'
  BY ScanPendingStep, ExpandLookupsStep, BeginStep, EndOfFileStep, SkipStep, BranchStep, DefineMacroStep,
     UseOperandStep, ReplaceStep, LookUpStep, ClosureStutters DEF ClosureNext

LEMMA ClosureInvariant == ClosureSpec => []ClosureIInv
  BY ClosureInitially, ClosureInductive, PTL DEF ClosureSpec

(* Type correctness of the closure and of the preprocessor.                       *)
THEOREM ClosureTypeCorrect == ClosureSpec => []ClosureTypeOK
  <1>1. ClosureIInv => ClosureTypeOK
    BY DEF ClosureIInv
  <1> QED
    BY <1>1, ClosureInvariant, PTL

(* Whatever the preprocessor asks about or opens is in the key.                   *)
THEOREM KeyCovers == ClosureSpec => []KeyCoversPreprocessing
  <1>1. ClosureIInv => KeyCoversPreprocessing
    BY DEF ClosureIInv
  <1> QED
    BY <1>1, ClosureInvariant, PTL
================================================================================
