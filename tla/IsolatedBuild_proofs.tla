-------------------------- MODULE IsolatedBuild_proofs --------------------------
(* Proofs about the isolated build: for any number of builds of one target, any *)
(* edits, upgrades, failures and clean-ups between their steps, only verified   *)
(* libraries are published, and what is published belongs together.             *)
EXTENDS IsolatedBuild, TLAPS

USE SourceAssumption, BoundAssumption, NoneAssumption

(* The points of buildIsolatedCpp() from one of them to the manifest. *)
Publishing       == {"sidecar", "record", "manifest"}
FromPublish      == {"publish"} \cup Publishing
FromDependencies == {"dependencies"} \cup FromPublish
FromInspect      == {"inspect"} \cup FromDependencies
FromRecheck      == {"recheck"} \cup FromInspect
FromCompile      == {"compile"} \cup FromRecheck
FromAst          == {"ast"} \cup FromCompile
FromImages       == {"images"} \cup FromAst
Fresh            == {"digest", "copy", "compare"} \cup (FromImages \ Publishing)
Ended            == {"idle", "succeeded", "failed"}

(* Why a library that passes RecheckTools() was made by the pinned tools, though *)
(* that compares them before the run and after it, and never during it: versions *)
(* only grow, so what was used lies between the pin and the present.             *)
Between(low, versions) == \A t \in Tools : low <= versions[t] /\ versions[t] <= tool[t]
CopyOK(b) == pc[b] \in FromImages => stage[b].copy \in Sources
ImagesOK(b) == pc[b] \in FromAst => stage[b].images \in Nat /\ stage[b].images <= tool["images"]
AstOK(b) ==
    pc[b] \in FromCompile =>
        stage[b].ast \in Objects /\ stage[b].ast.source = stage[b].copy /\ stage[b].copy \notin Unsupported
LibraryOK(b) ==
    /\ pc[b] \in FromRecheck =>
         /\ stage[b].library \in Objects /\ stage[b].library.source = stage[b].copy
         /\ Between(Pin, stage[b].library.tools) /\ stage[b].images <= stage[b].library.tools["images"]
    /\ pc[b] \in FromInspect =>
         /\ stage[b].library.tools["compiler"] = Pin /\ stage[b].library.tools["linker"] = Pin
         /\ stage[b].library.tools["images"] = stage[b].images
    /\ pc[b] \in FromPublish => stage[b].library.source \notin Impure
StageOK(b) == CopyOK(b) /\ ImagesOK(b) /\ AstOK(b) /\ LibraryOK(b)

(* A build that publishes owns the target: what is there is its own.  One that   *)
(* found the target free and has not published finds no manifest unless another  *)
(* has published since.                                                          *)
SidecarOf(b) == [artifact |-> stage[b].library, exports |-> stage[b].copy]
RecordOf(b) == [input |-> stage[b].copy, output |-> stage[b].library, metadata |-> SidecarOf(b),
                images |-> stage[b].images]
OwnerOK(b) ==
    /\ pc[b] \in Publishing => output = stage[b].library /\ manifest = None
    /\ pc[b] \in {"record", "manifest"} => abi = SidecarOf(b)
    /\ pc[b] = "manifest" => stage[b].record = RecordOf(b)
    /\ pc[b] \in Fresh /\ output = None => manifest = None
OneOwner == \A b, c \in Builders : pc[b] \in Publishing /\ pc[c] \in Publishing => b = c

PublishedOK == OnlyVerifiedOutput /\ PublicationBelongsTogether
IInv ==
    /\ TypeOK
    /\ \A t \in Tools : Pin <= tool[t]
    /\ \A b \in Builders : StageOK(b) /\ OwnerOK(b)
    /\ OneOwner
    /\ PublishedOK

--------------------------------------------------------------------------------
(* Type correctness, and that versions grow. *)

LEMMA GoneStep ==      \* what every action of one builder does to the others
    ASSUME TypeOK, NEW b \in Builders, Step(b), NEW c \in Builders, c # b
    PROVE  pc'[c] = pc[c] /\ stage'[c] = stage[c]
  BY DEF TypeOK, Step, CheckConfiguration, CheckFreshness, DigestSource, CopySource, CompareSource,
         DigestImages, DumpAst, Compile, RecheckTools, Inspect, CheckDependencies, Publish, TearOutput,
         TearSidecar, WriteSidecar, RecordFiles, WriteManifest, Fail, Goto, Keep

LEMMA ToolsGrow ==
    ASSUME TypeOK, \A t \in Tools : Pin <= tool[t], [Next]_vars
    PROVE  /\ tool' \in ToolVersions
           /\ \A t \in Tools : tool[t] <= tool'[t] /\ Pin <= tool'[t]
  <1> USE DEF TypeOK, ToolVersions
  <1>1. CASE UNCHANGED tool
    BY <1>1
  <1>2. ASSUME NEW u \in Tools, tool' = [tool EXCEPT ![u] = @ + 1]
        PROVE  /\ tool' \in ToolVersions
               /\ \A t \in Tools : tool[t] <= tool'[t] /\ Pin <= tool'[t]
    <2>1. \A t \in Tools : tool'[t] = IF t = u THEN tool[t] + 1 ELSE tool[t]
      BY <1>2
    <2> QED
      BY <1>2, <2>1
  <1> QED
    BY <1>1, <1>2 DEF Next, vars, machine, published, Step, CheckConfiguration, CheckFreshness, DigestSource,
         CopySource, CompareSource, DigestImages, DumpAst, Compile, RecheckTools, Inspect, CheckDependencies,
         Publish, TearOutput, TearSidecar, WriteSidecar, RecordFiles, WriteManifest, Fail, OthersMove, Edit,
         Upgrade, Clear

LEMMA RecordType ==
    ASSUME IInv, NEW b \in Builders, pc[b] \in FromPublish
    PROVE  /\ stage[b].library \in Objects /\ SidecarOf(b) \in Sidecars /\ RecordOf(b) \in Records
           /\ stage[b].ast.source = stage[b].copy /\ stage[b].library.source = stage[b].copy
  <1>1. pc[b] \in FromImages /\ pc[b] \in FromAst /\ pc[b] \in FromCompile /\ pc[b] \in FromRecheck
    BY DEF FromImages, FromAst, FromCompile, FromRecheck, FromInspect, FromDependencies
  <1>2. StageOK(b)
    BY DEF IInv
  <1> QED
    BY <1>1, <1>2 DEF StageOK, CopyOK, ImagesOK, AstOK, LibraryOK, SidecarOf, RecordOf, Sidecars, Records, Objects

LEMMA TypeStep ==
    ASSUME IInv, [Next]_vars
    PROVE  TypeOK'
  <1>0. TypeOK /\ tool' \in ToolVersions
    BY ToolsGrow DEF IInv
  <1>1. CASE UNCHANGED vars
    BY <1>0, <1>1 DEF TypeOK, vars, machine, published
  <1>2. CASE OthersMove
    BY <1>0, <1>2 DEF TypeOK, OthersMove, Edit, Upgrade, published
  <1>3. CASE Clear
    BY <1>0, <1>3 DEF TypeOK, Clear, machine
  <1>4. ASSUME NEW b \in Builders, Step(b) PROVE TypeOK'
    <2> USE <1>0 DEF TypeOK, machine, published, At, Goto, Keep
    <2>1. CASE CheckConfiguration(b)
      <3>1. EmptyStage \in Stages
        BY DEF EmptyStage, Stages
      <3> QED
        BY <2>1, <3>1 DEF CheckConfiguration, Points
    <2>2. CASE CheckFreshness(b) \/ CompareSource(b) \/ RecheckTools(b) \/ Inspect(b) \/ CheckDependencies(b) \/ Fail(b)
      BY <2>2 DEF CheckFreshness, CompareSource, RecheckTools, Inspect, CheckDependencies, Fail, Points
    <2>3. CASE DigestSource(b) \/ CopySource(b)
      BY <2>3 DEF DigestSource, CopySource, Points, Stages
    <2>4. CASE DigestImages(b)
      <3>1. tool["images"] \in Nat
        BY DEF ToolVersions, Tools
      <3> QED
        BY <2>4, <3>1 DEF DigestImages, Points, Stages
    <2>5. CASE DumpAst(b) \/ Compile(b)
      <3>1. [source |-> stage[b].copy, tools |-> tool] \in Objects
        BY <2>5 DEF DumpAst, Compile, IInv, StageOK, CopyOK, FromImages, FromAst, FromCompile, Objects
      <3> QED
        BY <2>5, <3>1, SMTT(30) DEF DumpAst, Compile, Points, Stages
    <2>6. CASE Publish(b) \/ TearOutput(b) \/ TearSidecar(b)
      BY <2>6, RecordType DEF Publish, TearOutput, TearSidecar, FromPublish, Points
    <2>7. CASE WriteSidecar(b)
      <3>1. output = stage[b].library
        BY <2>7 DEF WriteSidecar, IInv, OwnerOK, Publishing
      <3>2. abi' = SidecarOf(b)
        BY <2>7, <3>1, RecordType DEF WriteSidecar, SidecarOf, FromPublish, Publishing
      <3> QED
        BY <2>7, <3>2, RecordType DEF WriteSidecar, Points, FromPublish, Publishing
    <2>8. CASE RecordFiles(b)
      <3>1. output = stage[b].library /\ abi = SidecarOf(b)
        BY <2>8 DEF RecordFiles, IInv, OwnerOK, Publishing
      <3>2. stage' = [stage EXCEPT ![b]["record"] = RecordOf(b)]
        BY <2>8, <3>1 DEF RecordFiles, RecordOf
      <3> QED
        BY <2>8, <3>2, RecordType DEF RecordFiles, Points, Stages, FromPublish, Publishing
    <2>9. CASE WriteManifest(b)
      <3>1. stage[b].record = RecordOf(b)
        BY <2>9 DEF WriteManifest, IInv, OwnerOK
      <3> QED
        BY <2>9, <3>1, RecordType DEF WriteManifest, Points, FromPublish, Publishing
    <2> QED
      BY <1>4, <2>1, <2>2, <2>3, <2>4, <2>5, <2>6, <2>7, <2>8, <2>9 DEF Step
  <1> QED
    BY <1>1, <1>2, <1>3, <1>4 DEF Next

--------------------------------------------------------------------------------
(* What a build has established about its stage stays true while the machine     *)
(* moves and others build.                                                       *)

LEMMA StageKept ==
    ASSUME IInv, [Next]_vars, NEW b \in Builders, pc'[b] = pc[b], stage'[b] = stage[b]
    PROVE  StageOK(b)'
  <1>1. StageOK(b) /\ \A t \in Tools : tool[t] <= tool'[t] /\ tool[t] \in Nat /\ tool'[t] \in Nat
    BY ToolsGrow DEF IInv, TypeOK, ToolVersions
  <1>2. \A o \in Objects : \A t \in Tools : o.tools[t] \in Nat
    BY DEF Objects, ToolVersions
  <1>3. CopyOK(b)' /\ AstOK(b)'
    BY <1>1 DEF StageOK, CopyOK, AstOK
  <1>4. ImagesOK(b)'
    BY <1>1 DEF StageOK, ImagesOK, Tools
  <1>5. LibraryOK(b)'
    BY <1>1, <1>2 DEF StageOK, LibraryOK, Between
  <1> QED
    BY <1>3, <1>4, <1>5 DEF StageOK

LEMMA StageStep ==
    ASSUME IInv, NEW b \in Builders, Step(b)
    PROVE  StageOK(b)'
  <1> USE DEF IInv, TypeOK, machine, published, At, Goto, Keep, StageOK, CopyOK, ImagesOK, AstOK, LibraryOK,
              FromImages, FromAst, FromCompile, FromRecheck, FromInspect, FromDependencies, FromPublish, Publishing
  <1>1. CASE CheckConfiguration(b) \/ CheckFreshness(b) \/ DigestSource(b) \/ CopySource(b) \/ Fail(b)
             \/ TearOutput(b) \/ TearSidecar(b)
    BY <1>1 DEF CheckConfiguration, CheckFreshness, DigestSource, CopySource, Fail, TearOutput, TearSidecar
  <1>2. CASE CompareSource(b)
    BY <1>2 DEF CompareSource
  <1>3. CASE DigestImages(b)
    <2>1. stage'[b] = [stage[b] EXCEPT !["images"] = tool["images"]] /\ tool["images"] \in Nat
      BY <1>3 DEF DigestImages, ToolVersions, Tools
    <2> QED
      BY <1>3, <2>1 DEF DigestImages, Stages
  <1>4. CASE DumpAst(b)
    <2> DEFINE o == [source |-> stage[b].copy, tools |-> tool]
    <2>1. stage'[b] = [stage[b] EXCEPT !["ast"] = o] /\ o \in Objects
      BY <1>4 DEF DumpAst, Objects
    <2> QED
      BY <1>4, <2>1 DEF DumpAst, Stages
  <1>5. CASE Compile(b)
    <2> DEFINE o == [source |-> stage[b].copy, tools |-> tool]
    <2>1. stage'[b] = [stage[b] EXCEPT !["library"] = o] /\ o \in Objects
      BY <1>5 DEF Compile, Objects
    <2>2. Between(Pin, o.tools) /\ stage[b].images <= o.tools["images"]
      BY <1>5 DEF Compile, Between, ToolVersions
    <2> QED
      BY <1>5, <2>1, <2>2 DEF Compile, Stages, Between
  <1>6. CASE RecheckTools(b)
    <2> DEFINE tools == stage[b].library.tools
    <2>1. stage[b].library \in Objects /\ Between(Pin, tools) /\ stage[b].images <= tools["images"]
      BY <1>6 DEF RecheckTools
    <2>2. \A t \in Tools : tools[t] \in Nat /\ tool[t] \in Nat
      BY <2>1 DEF Objects, ToolVersions
    <2>3. tools["compiler"] = Pin /\ tools["linker"] = Pin /\ tools["images"] = stage[b].images
      BY <1>6, <2>1, <2>2 DEF RecheckTools, ToolsUnchanged, Pinned, Between, Tools
    <2> QED
      BY <1>6, <2>3 DEF RecheckTools, Between
  <1>7. CASE Inspect(b) \/ CheckDependencies(b) \/ Publish(b) \/ WriteSidecar(b)
    BY <1>7 DEF Inspect, CheckDependencies, Publish, WriteSidecar, Between
  <1>8. CASE RecordFiles(b)
    BY <1>8 DEF RecordFiles, Between, Stages
  <1>9. CASE WriteManifest(b)
    BY <1>9 DEF WriteManifest
  <1> QED
    BY <1>1, <1>2, <1>3, <1>4, <1>5, <1>6, <1>7, <1>8, <1>9 DEF Step

--------------------------------------------------------------------------------
(* The target has one owner.  A build becomes it when it finds no library there, *)
(* which is never so while another owns the target.                              *)

LEMMA FreeTarget ==
    ASSUME IInv, NEW b \in Builders, pc[b] = "publish", output = None, NEW c \in Builders
    PROVE  pc[c] \notin Publishing /\ manifest = None
  <1>1. manifest = None
    BY DEF IInv, OwnerOK, Fresh, FromImages, FromAst, FromCompile, FromRecheck, FromInspect, FromDependencies,
           FromPublish, Publishing
  <1>2. ASSUME pc[c] \in Publishing PROVE FALSE
    <2>1. output = stage[c].library /\ stage[c].library \in Objects
      BY <1>2, RecordType DEF IInv, OwnerOK, FromPublish
    <2> QED
      BY <2>1
  <1> QED
    BY <1>1, <1>2

LEMMA OneOwnerStep ==
    ASSUME IInv, [Next]_vars
    PROVE  OneOwner'
  <1>1. CASE UNCHANGED pc
    BY <1>1 DEF IInv, OneOwner
  <1>2. ASSUME NEW b \in Builders, Step(b) PROVE OneOwner'
    <2>1. pc'[b] \in Publishing => pc[b] \in Publishing \/ (pc[b] = "publish" /\ output = None)
      BY <1>2 DEF IInv, TypeOK, Step, CheckConfiguration, CheckFreshness, DigestSource, CopySource, CompareSource,
             DigestImages, DumpAst, Compile, RecheckTools, Inspect, CheckDependencies, Publish, TearOutput,
             TearSidecar, WriteSidecar, RecordFiles, WriteManifest, Fail, Goto, At, Publishing
    <2>2. \A c \in Builders \ {b} : pc'[c] = pc[c]
      BY <1>2, GoneStep DEF IInv
    <2> QED
      BY <2>1, <2>2, FreeTarget DEF IInv, OneOwner
  <1> QED
    BY <1>1, <1>2 DEF Next, vars, OthersMove, Clear

LEMMA OwnerStep ==
    ASSUME IInv, NEW b \in Builders, Step(b)
    PROVE  OwnerOK(b)'
  <1> USE DEF IInv, TypeOK, machine, published, At, Goto, Keep, OwnerOK, Publishing
  <1>1. CASE CheckConfiguration(b) \/ Fail(b) \/ TearOutput(b) \/ TearSidecar(b) \/ WriteManifest(b)
    BY <1>1 DEF CheckConfiguration, Fail, TearOutput, TearSidecar, WriteManifest, Fresh, FromImages, FromAst,
           FromCompile, FromRecheck, FromInspect, FromDependencies, FromPublish
  <1>2. CASE CheckFreshness(b)
    BY <1>2 DEF CheckFreshness, FreshPaths
  <1>3. CASE DigestSource(b) \/ CopySource(b) \/ CompareSource(b) \/ DigestImages(b) \/ DumpAst(b) \/ Compile(b)
             \/ RecheckTools(b) \/ Inspect(b) \/ CheckDependencies(b)
    BY <1>3 DEF DigestSource, CopySource, CompareSource, DigestImages, DumpAst, Compile, RecheckTools, Inspect,
           CheckDependencies, Fresh, FromImages, FromAst, FromCompile, FromRecheck, FromInspect,
           FromDependencies, FromPublish
  <1>4. CASE Publish(b)
    BY <1>4, FreeTarget DEF Publish, Fresh, FromImages, FromAst, FromCompile, FromRecheck, FromInspect,
           FromDependencies, FromPublish
  <1>5. CASE WriteSidecar(b)
    BY <1>5, RecordType DEF WriteSidecar, SidecarOf, FromPublish, Fresh
  <1>6. CASE RecordFiles(b)
    <2>1. output = stage[b].library /\ abi = SidecarOf(b)
      BY <1>6 DEF RecordFiles
    <2>2. stage'[b] = [stage[b] EXCEPT !["record"] = RecordOf(b)]
      BY <1>6, <2>1 DEF RecordFiles, RecordOf
    <2> QED
      <3>1. stage[b] \in Stages
        OBVIOUS
      <3>2. /\ stage'[b].record = RecordOf(b) /\ RecordOf(b)' = RecordOf(b) /\ SidecarOf(b)' = SidecarOf(b)
            /\ stage'[b].library = stage[b].library
        BY <2>2, <3>1 DEF RecordOf, SidecarOf, Stages
      <3> QED
        BY <1>6, <2>1, <3>2 DEF RecordFiles, Fresh
  <1> QED
    BY <1>1, <1>2, <1>3, <1>4, <1>5, <1>6 DEF Step

(* A step of another build leaves the owner's files alone: it may only have      *)
(* taken a free target, or written to its own.                                   *)
LEMMA OthersFilesKept ==
    ASSUME IInv, NEW b \in Builders, Step(b), NEW c \in Builders, c # b
    PROVE  OwnerOK(c)'
  <1>1. pc'[c] = pc[c] /\ stage'[c] = stage[c]
    BY GoneStep DEF IInv
  <1>2. OwnerOK(c)
    BY DEF IInv
  <1>3. CASE UNCHANGED published
    BY <1>1, <1>2, <1>3 DEF published, OwnerOK, SidecarOf, RecordOf
  <1>4. CASE Publish(b) \/ TearOutput(b)
    <2>1. pc[c] \notin Publishing /\ manifest' = None
      BY <1>4, FreeTarget DEF Publish, TearOutput, At
    <2> QED
      BY <1>1, <2>1 DEF OwnerOK, Publishing
  <1>5. CASE TearSidecar(b) \/ WriteSidecar(b) \/ WriteManifest(b)
    <2>1. pc[b] \in Publishing
      BY <1>5 DEF TearSidecar, WriteSidecar, WriteManifest, At, Publishing
    <2>2. pc[c] \notin Publishing
      BY <2>1 DEF IInv, OneOwner
    <2>3. output' # None
      BY <1>5, <2>1, RecordType DEF TearSidecar, WriteSidecar, WriteManifest, IInv, OwnerOK, FromPublish
    <2> QED
      BY <1>1, <2>2, <2>3 DEF OwnerOK, Publishing
  <1> QED
    BY <1>3, <1>4, <1>5 DEF Step, CheckConfiguration, CheckFreshness, DigestSource, CopySource, CompareSource,
         DigestImages, DumpAst, Compile, RecheckTools, Inspect, CheckDependencies, RecordFiles, Fail, published

--------------------------------------------------------------------------------
(* What is published. *)

LEMMA PublishedStep ==
    ASSUME IInv, [Next]_vars
    PROVE  PublishedOK'
  <1> USE DEF PublishedOK, OnlyVerifiedOutput, PublicationBelongsTogether, ManifestMatchesOutput,
              SidecarMatchesManifest
  <1>1. CASE UNCHANGED published
    BY <1>1 DEF IInv, published, Verified
  <1>2. CASE Clear
    BY <1>2 DEF IInv, Clear, Verified
  <1>3. ASSUME NEW b \in Builders, Publish(b) PROVE PublishedOK'
    <2>1. pc[b] \in FromPublish /\ stage[b].library \in Objects /\ stage[b].library.source = stage[b].copy
      BY <1>3, RecordType DEF Publish, At, FromPublish
    <2>2. Verified(stage[b].library)
      BY <2>1 DEF IInv, StageOK, AstOK, LibraryOK, Verified, FromCompile, FromRecheck, FromInspect, FromDependencies
    <2>3. manifest = None
      BY <1>3, FreeTarget DEF Publish, At
    <2> QED
      BY <1>3, <2>2, <2>3 DEF Publish, Verified
  <1>4. ASSUME NEW b \in Builders, TearOutput(b) PROVE PublishedOK'
    <2>1. manifest = None
      BY <1>4, FreeTarget DEF TearOutput, At
    <2> QED
      BY <1>4, <2>1 DEF TearOutput
  <1>5. ASSUME NEW b \in Builders, TearSidecar(b) \/ WriteSidecar(b) PROVE PublishedOK'
    BY <1>5 DEF TearSidecar, WriteSidecar, IInv, Verified
  <1>6. ASSUME NEW b \in Builders, WriteManifest(b) PROVE PublishedOK'
    <2>1. manifest' = RecordOf(b) /\ output' = stage[b].library
      BY <1>6 DEF WriteManifest, At, IInv, OwnerOK, Publishing
    <2>2. pc[b] \in FromPublish /\ pc[b] \in FromInspect
      BY <1>6 DEF WriteManifest, At, FromPublish, Publishing, FromInspect, FromDependencies
    <2>3. SidecarOf(b) # Torn /\ stage[b].library.source = stage[b].copy
      BY <2>2, RecordType
    <2>4. stage[b].images = stage[b].library.tools["images"]
      BY <2>2 DEF IInv, StageOK, LibraryOK
    <2> QED
      BY <1>6, <2>1, <2>3, <2>4 DEF WriteManifest, IInv, Verified, RecordOf, SidecarOf
  <1> QED
    BY <1>1, <1>2, <1>3, <1>4, <1>5, <1>6 DEF Next, vars, published, Step, CheckConfiguration, CheckFreshness,
         DigestSource, CopySource, CompareSource, DigestImages, DumpAst, Compile, RecheckTools, Inspect,
         CheckDependencies, RecordFiles, Fail, OthersMove

LEMMA Initially == Init => IInv
  <1> SUFFICES ASSUME Init PROVE IInv
    OBVIOUS
  <1>1. TypeOK /\ \A t \in Tools : Pin <= tool[t]
    BY DEF Init, TypeOK, EmptyStage, Stages, Points, ToolVersions
  <1>2. \A b \in Builders : pc[b] = "idle"
    BY DEF Init
  <1>3. ASSUME NEW b \in Builders PROVE StageOK(b) /\ OwnerOK(b)
    BY <1>2 DEF StageOK, CopyOK, ImagesOK, AstOK, LibraryOK, OwnerOK, FromImages, FromAst, FromCompile, FromRecheck,
           FromInspect, FromDependencies, FromPublish, Publishing, Fresh
  <1>4. OneOwner /\ PublishedOK
    BY <1>2 DEF Init, OneOwner, Publishing, PublishedOK, OnlyVerifiedOutput, PublicationBelongsTogether,
           ManifestMatchesOutput, SidecarMatchesManifest
  <1> QED
    BY <1>1, <1>3, <1>4 DEF IInv

LEMMA Inductive == IInv /\ [Next]_vars => IInv'
  <1> SUFFICES ASSUME IInv, [Next]_vars PROVE IInv'
    OBVIOUS
  <1>1. TypeOK' /\ (\A t \in Tools : Pin <= tool[t])' /\ OneOwner' /\ PublishedOK'
    BY TypeStep, ToolsGrow, OneOwnerStep, PublishedStep DEF IInv
  <1>2. ASSUME NEW b \in Builders PROVE StageOK(b)' /\ OwnerOK(b)'
    <2>1. CASE Step(b)
      BY <2>1, StageStep, OwnerStep
    <2>2. ASSUME NEW c \in Builders, c # b, Step(c) PROVE StageOK(b)' /\ OwnerOK(b)'
      BY <2>2, GoneStep, StageKept, OthersFilesKept DEF IInv
    <2>3. CASE UNCHANGED <<pc, stage>>
      <3>1. StageOK(b)'
        BY <2>3, StageKept
      <3>2. CASE UNCHANGED published
        BY <2>3, <3>1, <3>2 DEF IInv, OwnerOK, SidecarOf, RecordOf, published
      <3>3. CASE Clear
        BY <3>1, <3>3 DEF Clear, Quiescent, OwnerOK, Publishing, Fresh, FromImages, FromAst, FromCompile, FromRecheck,
               FromInspect, FromDependencies, FromPublish
      <3>4. CASE \E c \in Builders : Step(c)
        BY <2>1, <2>2, <3>4
      <3> QED
        BY <3>2, <3>3, <3>4 DEF Next, vars, published, OthersMove
    <2> QED
      BY <2>1, <2>2, <2>3 DEF Next, vars, OthersMove, Clear
  <1> QED
    BY <1>1, <1>2 DEF IInv

(* Every variable keeps its type, for any set of builders, sources and versions. *)
THEOREM TypeCorrect == Spec => []TypeOK
  BY Initially, Inductive, PTL DEF Spec, IInv

(* Nothing but a library that passed every check is ever published whole, however *)
(* builds of one target, edits and upgrades interleave.                           *)
THEOREM OnlyVerified == Spec => []OnlyVerifiedOutput
  <1>1. IInv => OnlyVerifiedOutput
    BY DEF IInv, PublishedOK
  <1> QED
    BY <1>1, Initially, Inductive, PTL DEF Spec

(* A manifest, the library and the sidecar beside it are of one build.            *)
THEOREM PublicationsBelongTogether == Spec => []PublicationBelongsTogether
  <1>1. IInv => PublicationBelongsTogether
    BY DEF IInv, PublishedOK
  <1> QED
    BY <1>1, Initially, Inductive, PTL DEF Spec
================================================================================
