----------------------------- MODULE IsolatedBuild -----------------------------
(* buildIsolatedCpp() (topo-build/IsolatedCppBuild.cpp): copy one source into a *)
(* private stage, let a sandboxed, pinned compiler describe and compile it,     *)
(* inspect what came out, and only then publish a library, an ABI sidecar and   *)
(* an evidence manifest.  Several builds may run for the same target; the       *)
(* source is edited and tools are upgraded while they run; any step may fail,   *)
(* or the process may be killed, and what was published so far stays.           *)
EXTENDS Integers, FiniteSets

CONSTANTS
    Builders,     \* concurrent runs for one target
    Sources,      \* versions of the source file
    Unsupported,  \* versions outside the scalar C profile
    Impure,       \* versions that read a file besides themselves and the SDK settings
    Pin,          \* the version of compiler and linker the configuration pins
    MaxMoves,     \* bound: edits and upgrades in one behaviour
    MaxAttempts,  \* bound: calls of buildIsolatedCpp in one behaviour
    Torn,         \* a file whose writer was killed
    None

ASSUME SourceAssumption == Unsupported \cup Impure \subseteq Sources
ASSUME BoundAssumption == Pin \in Nat /\ MaxMoves \in Nat /\ MaxAttempts \in Nat

Tools == {"compiler", "linker", "images"}     \* images: the libraries both load
ToolVersions == [Tools -> Nat]
Objects == [source : Sources, tools : ToolVersions]
Sidecars == [artifact : Objects, exports : Sources]

ASSUME NoneAssumption ==
    {None, Torn} \cap Sources = {} /\ {None, Torn} \cap Objects = {} /\ {None, Torn} \cap Sidecars = {}

VARIABLES
    source,     \* the machine: the source file
    tool,       \* the machine: versions of the tools; they only grow
    moves, attempts,
    output, abi, manifest,    \* the published files, or None, or Torn
    pc,         \* per builder: the next step
    stage       \* per builder: what it keeps in its stage and in its locals

machine == <<source, tool, moves, attempts>>
published == <<output, abi, manifest>>
vars == <<source, tool, moves, attempts, output, abi, manifest, pc, stage>>

EmptyStage == [original |-> None, copy |-> None, images |-> None, ast |-> None,
               library |-> None, record |-> None]

--------------------------------------------------------------------------------
(* One step of a builder: at one point of the function, to the next. *)
At(b, step) == pc[b] = step
Goto(b, step) == pc' = [pc EXCEPT ![b] = step]
Keep(b, field, value) == stage' = [stage EXCEPT ![b][field] = value]

Pinned == tool["compiler"] = Pin /\ tool["linker"] = Pin

(* Any early return and any exception, at any step, and a killed process.  The  *)
(* stage is never removed; nobody reads it again.                               *)
Fail(b) ==
    /\ pc[b] \notin {"idle", "succeeded", "failed"}
    /\ Goto(b, "failed")
    /\ UNCHANGED <<machine, published, stage>>

(* Configuration, pins, SDK, source and paths; the checks that depend on state  *)
(* that moves are here, the others only lead to Fail.                           *)
CheckConfiguration(b) ==
    /\ pc[b] \in {"idle", "failed", "succeeded"} /\ attempts < MaxAttempts
    /\ attempts' = attempts + 1
    /\ stage' = [stage EXCEPT ![b] = EmptyStage]
    /\ IF Pinned THEN Goto(b, "freshness") ELSE Goto(b, "failed")
    /\ UNCHANGED <<source, tool, moves, published>>

FreshOutputOnly == output = None /\ abi = None     \* mutant: the manifest is forgotten
FreshPaths == output = None /\ abi = None /\ manifest = None

CheckFreshness(b) ==
    /\ At(b, "freshness") /\ FreshPaths
    /\ Goto(b, "digest")
    /\ UNCHANGED <<machine, published, stage>>

(* Digest, copy, and compare both digests: three reads of a file that moves.    *)
DigestSource(b) ==
    /\ At(b, "digest")
    /\ Keep(b, "original", source)
    /\ Goto(b, "copy")
    /\ UNCHANGED <<machine, published>>

CopySource(b) ==
    /\ At(b, "copy")
    /\ Keep(b, "copy", source)
    /\ Goto(b, "compare")
    /\ UNCHANGED <<machine, published>>

(* The second half of the guard notices an edit that is not in the copy. *)
CompareSource(b) ==
    /\ At(b, "compare")
    /\ stage[b].copy = stage[b].original /\ source = stage[b].original
    /\ Goto(b, "images")
    /\ UNCHANGED <<machine, published, stage>>

(* toolLibraries(): the digests of every library the two tools load. *)
DigestImages(b) ==
    /\ At(b, "images")
    /\ Keep(b, "images", tool["images"])
    /\ Goto(b, "ast")
    /\ UNCHANGED <<machine, published>>

(* exportedSignatures() accepts the AST the sandboxed compiler printed. *)
DumpAst(b) ==
    /\ At(b, "ast")
    /\ stage[b].copy \notin Unsupported
    /\ Keep(b, "ast", [source |-> stage[b].copy, tools |-> tool])
    /\ Goto(b, "compile")
    /\ UNCHANGED <<machine, published>>

Compile(b) ==
    /\ At(b, "compile")
    /\ Keep(b, "library", [source |-> stage[b].copy, tools |-> tool])
    /\ Goto(b, "recheck")
    /\ UNCHANGED <<machine, published>>

ToolsUnchanged(b) == Pinned /\ tool["images"] = stage[b].images

RecheckTools(b) ==
    /\ At(b, "recheck") /\ ToolsUnchanged(b)
    /\ Goto(b, "inspect")
    /\ UNCHANGED <<machine, published, stage>>

(* inspectDylib(): what the library exports is what the AST declares. *)
Inspect(b) ==
    /\ At(b, "inspect")
    /\ stage[b].library.source = stage[b].ast.source
    /\ Goto(b, "dependencies")
    /\ UNCHANGED <<machine, published, stage>>

IgnoresHeaders(b) ==      \* mutant
    /\ At(b, "dependencies")
    /\ Goto(b, "publish")
    /\ UNCHANGED <<machine, published, stage>>
CheckDependencies(b) ==
    /\ At(b, "dependencies")
    /\ stage[b].library.source \notin Impure
    /\ Goto(b, "publish")
    /\ UNCHANGED <<machine, published, stage>>

(* copy_file() without an overwrite option refuses an existing target. *)
Publish(b) ==
    /\ At(b, "publish") /\ output = None
    /\ output' = stage[b].library
    /\ Goto(b, "sidecar")
    /\ UNCHANGED <<machine, abi, manifest, stage>>

(* A process killed while it copies, or while it writes the sidecar. *)
TearOutput(b) ==
    /\ At(b, "publish") /\ output = None
    /\ output' = Torn
    /\ Goto(b, "failed")
    /\ UNCHANGED <<machine, abi, manifest, stage>>
TearSidecar(b) ==
    /\ At(b, "sidecar")
    /\ abi' = Torn
    /\ Goto(b, "failed")
    /\ UNCHANGED <<machine, output, manifest, stage>>

(* The sidecar names the digest of the published file, read back. *)
WriteSidecar(b) ==
    /\ At(b, "sidecar") /\ output # None
    /\ abi' = [artifact |-> output, exports |-> stage[b].ast.source]
    /\ Goto(b, "record")
    /\ UNCHANGED <<machine, output, manifest, stage>>

(* snapshotFile() reads back input, library and sidecar. *)
RecordFiles(b) ==
    /\ At(b, "record") /\ output # None /\ abi # None
    /\ Keep(b, "record", [input |-> stage[b].copy, output |-> output, metadata |-> abi,
                           images |-> stage[b].images])
    /\ Goto(b, "manifest")
    /\ UNCHANGED <<machine, published>>

WriteManifest(b) ==
    /\ At(b, "manifest")
    /\ manifest' = stage[b].record
    /\ Goto(b, "succeeded")
    /\ UNCHANGED <<machine, output, abi, stage>>

--------------------------------------------------------------------------------
(* Others: an edit, an upgrade, and a user who clears some of the published     *)
(* files while no build runs.                                                   *)
Edit == source' \in Sources /\ UNCHANGED tool
Upgrade == \E t \in Tools : tool' = [tool EXCEPT ![t] = @ + 1] /\ UNCHANGED source

OthersMove ==
    /\ moves < MaxMoves /\ moves' = moves + 1
    /\ Edit \/ Upgrade
    /\ UNCHANGED <<attempts, published, pc, stage>>

Quiescent == \A b \in Builders : pc[b] \in {"idle", "succeeded", "failed"}

Clear ==
    /\ Quiescent
    /\ output' \in {output, None} /\ abi' \in {abi, None} /\ manifest' \in {manifest, None}
    /\ UNCHANGED <<machine, pc, stage>>

Init ==
    /\ source \in Sources
    /\ tool \in [Tools -> {Pin}]
    /\ moves = 0 /\ attempts = 0
    /\ output = None /\ abi = None /\ manifest = None
    /\ pc = [b \in Builders |-> "idle"]
    /\ stage = [b \in Builders |-> EmptyStage]

Step(b) ==
    \/ CheckConfiguration(b) \/ CheckFreshness(b)
    \/ DigestSource(b) \/ CopySource(b) \/ CompareSource(b) \/ DigestImages(b)
    \/ DumpAst(b) \/ Compile(b) \/ RecheckTools(b) \/ Inspect(b) \/ CheckDependencies(b)
    \/ Publish(b) \/ TearOutput(b) \/ TearSidecar(b) \/ WriteSidecar(b) \/ RecordFiles(b) \/ WriteManifest(b)
    \/ Fail(b)

Next == (\E b \in Builders : Step(b)) \/ OthersMove \/ Clear

Spec == Init /\ [][Next]_vars

--------------------------------------------------------------------------------
Records == [input : Sources, output : Objects, metadata : Sidecars \cup {Torn}, images : Nat]
Stages == [original : Sources \cup {None}, copy : Sources \cup {None}, images : Nat \cup {None},
           ast : Objects \cup {None}, library : Objects \cup {None}, record : Records \cup {None}]
Points == {"idle", "freshness", "digest", "copy", "compare", "images", "ast", "compile",
           "recheck", "inspect", "dependencies", "publish", "sidecar", "record", "manifest",
           "succeeded", "failed"}

TypeOK ==
    /\ source \in Sources /\ tool \in ToolVersions
    /\ moves \in 0..MaxMoves /\ attempts \in 0..MaxAttempts
    /\ output \in Objects \cup {None, Torn} /\ abi \in Sidecars \cup {None, Torn}
    /\ manifest \in Records \cup {None}
    /\ pc \in [Builders -> Points] /\ stage \in [Builders -> Stages]

(* No whole library reaches the output path, not even of a build that fails      *)
(* later or is killed, before every check on it has passed: it was made by the pinned       *)
(* compiler and linker, and one set of tool libraries, from a source inside     *)
(* the profile that reads nothing else (tests NativeCallsOutsideScalarProfile-  *)
(* AreRejected, InlineAssemblyIsRejectedBeforeLink).                            *)
Verified(o) ==
    /\ o.tools["compiler"] = Pin /\ o.tools["linker"] = Pin
    /\ o.source \notin Unsupported \cup Impure

OnlyVerifiedOutput == output \notin {None, Torn} => Verified(output)

(* A manifest and whatever lies beside it belong together, through concurrent   *)
(* builds of the target, failed builds, partial clean-ups and rebuilds: the     *)
(* manifest's input is what the library was compiled from, its tool libraries   *)
(* are the ones that did it, its output is this library, and the sidecar it     *)
(* records describes this library (test RealSandboxBuildBindsActualExportsAnd-  *)
(* Bytes).                                                                      *)
ManifestMatchesOutput ==
    manifest # None /\ output # None =>
        /\ manifest.output = output
        /\ manifest.input = output.source
        /\ manifest.images = output.tools["images"]
SidecarMatchesManifest ==
    manifest # None =>
        /\ manifest.metadata # Torn
        /\ manifest.metadata.artifact = manifest.output
        /\ manifest.metadata.exports = manifest.input
PublicationBelongsTogether == ManifestMatchesOutput /\ SidecarMatchesManifest
================================================================================
