----------------------------- MODULE AuditExtraction -----------------------------
(* auditCppCompileModel() of topo-check/extractor/CppAuditExtractor.cpp: load a  *)
(* compile model, parse every unit twice, the second time from the bytes the     *)
(* first one saw, and say whether the facts are complete.  Files are edited,     *)
(* removed and made while it runs.  Each unit includes one header by a name that *)
(* resolves to Early if there is one and to Late otherwise.                      *)
EXTENDS Integers, Sequences

CONSTANTS
    Model,        \* compile_commands.json
    Response,     \* a response file in the command of every unit
    Early, Late,  \* the two candidates of the header
    UnitFiles,    \* the sources of the units, in the order of the model
    MaxMoves,     \* bound: edits, removals and creations in one behaviour
    Absent,       \* the contents of a file that is not there
    None

Units == DOMAIN UnitFiles
Sources == {UnitFiles[u] : u \in Units}
Files == {Model, Response, Early, Late} \cup Sources

ASSUME UnitAssumption == UnitFiles \in Seq(Sources) /\ UnitFiles # <<>>
ASSUME NameAssumption == Model # Response /\ Early # Late
                         /\ {Model, Response} \cap ({Early, Late} \cup Sources) = {}
                         /\ {Early, Late} \cap Sources = {}
ASSUME BoundAssumption == MaxMoves \in Nat

(* Contents are versions, each with a digest of its own; an edit makes a new one *)
(* or brings an earlier one back.                                                *)
Versions == 0 .. MaxMoves
Contents == Versions \cup {Absent}
Recordings == [Files -> Contents \cup {None}]
UnitFacts == [response : Contents, bytes : Recordings]

ASSUME NoneAssumption == Absent \notin Versions /\ None \notin Contents \cup UnitFacts

VARIABLES
    disk, moves,   \* the machine
    restored,      \* files that got their recorded contents back during the comparison
    pc, unit,      \* where the extractor is, and in which unit
    digests,       \* state.digests: file to contents, or None
    before,        \* the digest of the model when the extractor started
    loaded,        \* model.inputDigests, and the inputDigests of every unit
    pinned,        \* the bytes of the first pass of this unit
    parsed,        \* the bytes the accepted AST of this unit was made from
    facts,         \* per unit: its response file and the bytes of its AST, or None
    unresolved,    \* state.unresolved is not empty
    rest,          \* digests still to be compared with the disk
    instant        \* the disk when the comparison began, for the properties

machine == <<disk, moves, restored>>
accepted == <<facts, unresolved>>
vars == <<disk, moves, restored, pc, unit, digests, before, loaded, pinned, parsed, facts,
          unresolved, rest, instant>>

Nothing == [f \in Files |-> None]

(* sha256File() of a file that is not there is a problem of its own. *)
Problem(p) == unresolved' = (unresolved \/ p)

--------------------------------------------------------------------------------
(* capture() of the model, then loadCppCompileModel(): the model's bytes, and    *)
(* for each unit in turn the response file of its command.                       *)
CaptureModel ==
    /\ pc = "start" /\ pc' = "load"
    /\ digests' = [digests EXCEPT ![Model] = disk[Model]]
    /\ before' = disk[Model]
    /\ Problem(disk[Model] = Absent)
    /\ UNCHANGED <<machine, unit, loaded, pinned, parsed, facts, rest, instant>>

LoadModel ==
    /\ pc = "load" /\ pc' = "expand" /\ unit' = 1
    /\ loaded' = [loaded EXCEPT !.model = disk[Model]]
    /\ Problem(disk[Model] = Absent)
    /\ UNCHANGED <<machine, digests, before, pinned, parsed, facts, rest, instant>>

(* expandResponses() of a unit; a response file that is gone is an error of it.  *)
ExpandUnit ==
    /\ pc = "expand" /\ unit \in Units /\ unit' = unit + 1
    /\ loaded' = [loaded EXCEPT !.response[unit] = disk[Response]]
    /\ Problem(disk[Response] = Absent)
    /\ UNCHANGED <<machine, pc, digests, before, pinned, parsed, facts, rest, instant>>

(* With a CMake reply, its sources are captured; then the digests of the loaded  *)
(* model replace what was there.                                                 *)
ReadCMake ==
    /\ pc = "expand" /\ unit \notin Units /\ pc' = "unit" /\ unit' = 1
    /\ \E present \in BOOLEAN :
         /\ digests' = [f \in Files |->
               IF f = Model THEN loaded.model
               ELSE IF present /\ f \in Sources THEN disk[f] ELSE digests[f]]
         /\ Problem(present /\ \E f \in Sources : disk[f] = Absent)
    /\ UNCHANGED <<machine, before, loaded, pinned, parsed, facts, rest, instant>>

--------------------------------------------------------------------------------
(* A unit: its input digests replace what was recorded.  One with errors, or one *)
(* the driver check rejects, is left out.                                        *)
BeginUnit ==
    /\ pc = "unit" /\ unit \in Units
    /\ digests' = [digests EXCEPT ![Response] = loaded.response[unit]]
    /\ pinned' = Nothing /\ parsed' = Nothing
    /\ IF loaded.response[unit] = Absent
         THEN unit' = unit + 1 /\ UNCHANGED pc
         ELSE pc' = "source" /\ UNCHANGED unit
    /\ UNCHANGED <<machine, before, loaded, accepted, rest, instant>>

SkipUnit ==
    /\ pc \in {"source", "header", "again", "snapshot"} /\ pc' = "unit"
    /\ unit' = unit + 1
    /\ Problem(TRUE)
    /\ UNCHANGED <<machine, digests, before, loaded, pinned, parsed, facts, rest, instant>>

(* The first pass reads the source, then the header, from the disk; a diagnostic *)
(* of either is a problem, and what was read is pinned.                          *)
ParseSource ==
    /\ pc = "source" /\ disk[UnitFiles[unit]] # Absent /\ pc' = "header"
    /\ pinned' = [pinned EXCEPT ![UnitFiles[unit]] = disk[UnitFiles[unit]]]
    /\ UNCHANGED <<machine, unit, digests, before, loaded, parsed, accepted, rest, instant>>

Header(bytes) == IF bytes[Early] # Absent THEN Early ELSE Late

ParseHeader ==
    /\ pc = "header" /\ pc' = "again"
    /\ LET h == Header(disk)
       IN  IF disk[h] = Absent
             THEN Problem(TRUE) /\ UNCHANGED pinned
             ELSE pinned' = [pinned EXCEPT ![h] = disk[h]] /\ UNCHANGED unresolved
    /\ UNCHANGED <<machine, unit, digests, before, loaded, parsed, facts, rest, instant>>

(* The second pass takes pinned bytes for pinned files and looks for the header  *)
(* again; one that has appeared in the meantime is read from the disk.           *)
Buffer == [f \in Files |-> IF pinned[f] # None THEN pinned[f] ELSE disk[f]]

Reparse ==
    /\ pc = "again" /\ pc' = "snapshot"
    /\ LET h == Header(Buffer)
           used == {UnitFiles[unit]} \cup (IF Buffer[h] = Absent THEN {} ELSE {h})
       IN  /\ parsed' = [f \in Files |-> IF f \in used THEN Buffer[f] ELSE None]
           /\ Problem(used # {f \in Files : pinned[f] # None} \/ Buffer[h] = Absent)
    /\ UNCHANGED <<machine, unit, digests, before, loaded, pinned, facts, rest, instant>>

(* snapshot() of every parsed file: its digest must be the one recorded by an    *)
(* earlier unit, if any, and the one of the file on disk now.                    *)
NoComparison(f) == FALSE      \* mutant: a digest of an earlier unit is replaced
Differs(f) == digests[f] # None /\ digests[f] # parsed[f]

Snapshot ==
    /\ pc = "snapshot" /\ pc' = "unit" /\ unit' = unit + 1
    /\ LET used == {f \in Files : parsed[f] # None}
       IN  /\ digests' = [f \in Files |-> IF f \in used THEN parsed[f] ELSE digests[f]]
           /\ Problem(\E f \in used : Differs(f) \/ disk[f] # parsed[f])
    /\ facts' = [facts EXCEPT ![unit] = [response |-> loaded.response[unit], bytes |-> parsed]]
    /\ UNCHANGED <<machine, before, loaded, pinned, parsed, rest, instant>>

--------------------------------------------------------------------------------
(* At the end every digest is compared with the disk, one file after another,    *)
(* and the model's with the one taken first.                                     *)
RecheckNothing == {}      \* mutant
Recorded == {f \in Files : digests[f] # None}

BeginRecheck ==
    /\ pc = "unit" /\ unit \notin Units /\ pc' = "recheck"
    /\ rest' = Recorded
    /\ instant' = disk
    /\ UNCHANGED <<machine, unit, digests, before, loaded, pinned, parsed, accepted>>

Recheck(f) ==
    /\ pc = "recheck" /\ f \in rest
    /\ rest' = rest \ {f}
    /\ Problem(disk[f] # digests[f])
    /\ UNCHANGED <<machine, pc, unit, digests, before, loaded, pinned, parsed, facts, instant>>

SameModel == digests[Model] = before

Finish ==
    /\ pc = "recheck" /\ rest = {} /\ pc' = "done"
    /\ Problem(~SameModel)
    /\ UNCHANGED <<machine, unit, digests, before, loaded, pinned, parsed, facts, rest, instant>>

(* The machine: a file is edited, restored, made or removed at any time. *)
Move(f) ==
    /\ moves < MaxMoves /\ moves' = moves + 1
    /\ \E c \in ((0 .. moves + 1) \cup {Absent}) \ {disk[f]} :
         /\ disk' = [disk EXCEPT ![f] = c]
         /\ restored' = IF pc = "recheck" /\ c = digests[f] THEN restored \cup {f} ELSE restored
    /\ UNCHANGED <<pc, unit, digests, before, loaded, pinned, parsed, accepted, rest, instant>>

Init ==
    /\ disk \in [Files -> {0, Absent}] /\ moves = 0
    /\ \A f \in Files \ {Early, Late} : disk[f] = 0
    /\ restored = {}
    /\ pc = "start" /\ unit = 1
    /\ digests = Nothing /\ before = None
    /\ loaded = [model |-> None, response |-> [u \in Units |-> None]]
    /\ pinned = Nothing /\ parsed = Nothing
    /\ facts = [u \in Units |-> None] /\ unresolved = FALSE
    /\ rest = {} /\ instant = disk

Next ==
    \/ CaptureModel \/ LoadModel \/ ExpandUnit \/ ReadCMake
    \/ BeginUnit \/ SkipUnit \/ ParseSource \/ ParseHeader \/ Reparse \/ Snapshot
    \/ BeginRecheck \/ (\E f \in Files : Recheck(f)) \/ Finish
    \/ \E f \in Files : Move(f)

Spec == Init /\ [][Next]_vars

--------------------------------------------------------------------------------
(* Every variable stays in its type. *)
TypeOK ==
    /\ disk \in [Files -> Contents] /\ moves \in Versions /\ restored \subseteq Files
    /\ pc \in {"start", "load", "expand", "unit", "source", "header", "again",
               "snapshot", "recheck", "done"}
    /\ unit \in 1 .. Len(UnitFiles) + 1
    /\ {digests, pinned, parsed} \subseteq Recordings
    /\ before \in Contents \cup {None}
    /\ loaded \in [model : Contents \cup {None}, response : [Units -> Contents \cup {None}]]
    /\ facts \in [Units -> UnitFacts \cup {None}]
    /\ unresolved \in BOOLEAN /\ rest \subseteq Files /\ instant \in [Files -> Contents]

complete == pc = "done" /\ ~unresolved

(* Facts called complete are of every unit, and the bytes each unit was parsed   *)
(* from are those of the one set of digests the result carries: no two units     *)
(* saw different versions of a header, and no pass a different one than its      *)
(* digest says.                                                                  *)
CompleteFactsHaveOneSource ==
    complete =>
        \A u \in Units :
            /\ facts[u] # None
            /\ \A f \in Files : facts[u].bytes[f] # None => facts[u].bytes[f] = digests[f]

(* All digests of a complete result were the contents of the disk at one moment, *)
(* when the last unit had been parsed, although they were taken one after        *)
(* another while files moved: all but those of a file that had changed and was   *)
(* put back while the digests were compared, which no digest can tell.  And its  *)
(* units are those of the model file it names, which had the same contents when  *)
(* it was first read, when it was loaded and when it was compared.               *)
DigestsAreOneInstant ==
    complete => \A f \in Files \ restored : digests[f] # None => digests[f] = instant[f]
ModelIsTheOneLoaded == complete => loaded.model = digests[Model] /\ before = digests[Model]
ResultIsOneInstant == DigestsAreOneInstant /\ ModelIsTheOneLoaded

(* CppAuditExtractor.cpp:384-385: the result is bound "to the exact parsed input *)
(* set, including compiler/model and header bytes": the commands the units were  *)
(* parsed with come from the response file its digests name.                     *)
CommandsAreOfTheInputs ==
    complete => \A u \in Units : facts[u].response = digests[Response]
================================================================================
