------------------------- MODULE AuditExtraction_proofs -------------------------
(* Proofs about the audit extractor: for any number of units and any edits,      *)
(* removals and creations of files, facts it calls complete come from one set    *)
(* of contents, which was the disk's at one instant.                             *)
EXTENDS AuditExtraction, TLAPS

USE NameAssumption, BoundAssumption, NoneAssumption

Loading == {"start", "load", "expand"}
InUnit  == {"source", "header", "again", "snapshot"}
AtEnd   == {"recheck", "done"}
Parsable == Sources \cup {Early, Late}

(* A digest of a file that was not there is a problem already; bytes that were   *)
(* parsed were there.                                                            *)
ThereOK ==
    /\ \A f \in Files : pinned[f] # Absent /\ parsed[f] # Absent
    /\ ~unresolved => /\ \A f \in Files : digests[f] # Absent
                      /\ loaded.model # Absent /\ \A u \in Units : loaded.response[u] # Absent

(* What each phase has behind it. *)
PhaseOK ==
    /\ pc = "expand" => \A u \in Units : u < unit => loaded.response[u] # None
    /\ pc \notin Loading => \A u \in Units : loaded.response[u] # None
    /\ pc \in InUnit => unit \in Units /\ loaded.response[unit] # Absent
    /\ pc \in AtEnd => unit \notin Units
    /\ pc \in {"header", "again"} => pinned[UnitFiles[unit]] # None
    /\ \A f \in Files : parsed[f] # None => f \in Parsable

(* Every unit left behind has its facts, and their bytes are those of the        *)
(* digests, unless there is a problem.                                           *)
FactsOK ==
    /\ pc \in Loading => \A u \in Units : facts[u] = None
    /\ pc \notin Loading /\ ~unresolved => \A u \in Units : u < unit => facts[u] # None
    /\ \A u \in Units : facts[u] # None =>
          \A f \in Files : facts[u].bytes[f] # None =>
             /\ f \in Parsable
             /\ ~unresolved => facts[u].bytes[f] = digests[f]

ModelOK ==
    /\ pc \notin Loading => digests[Model] = loaded.model
    /\ complete => digests[Model] = before

(* A file that has its recorded contents now, while the digests are compared, had *)
(* them when the comparison began or got them back since.                        *)
InstantOK ==
    pc \in AtEnd =>
        /\ pc = "recheck" => \A f \in Files \ restored : disk[f] = digests[f] => instant[f] = digests[f]
        /\ ~unresolved => \A f \in Files \ (rest \cup restored) : digests[f] # None => digests[f] = instant[f]
        /\ pc = "done" => rest = {}

IInv == TypeOK /\ ThereOK /\ PhaseOK /\ FactsOK /\ ModelOK /\ InstantOK

--------------------------------------------------------------------------------
LEMMA UnitsAre ==
    /\ Len(UnitFiles) \in Nat \ {0} /\ Units = 1 .. Len(UnitFiles)
    /\ \A u \in Units : UnitFiles[u] \in Sources
    /\ Model \in Files /\ Response \in Files /\ Early \in Files /\ Late \in Files /\ Sources \subseteq Files
    /\ Model \notin Parsable /\ Response \notin Parsable
  <1>1. \A u \in Units : UnitFiles[u] \in Sources
    BY DEF Sources
  <1>2. Len(UnitFiles) \in Nat /\ Units = 1 .. Len(UnitFiles)
    BY UnitAssumption DEF Units
  <1>3. Len(UnitFiles) # 0
    BY UnitAssumption
  <1> QED
    BY <1>1, <1>2, <1>3 DEF Files, Parsable

--------------------------------------------------------------------------------
(* Types. *)

LEMMA HeaderType ==
    ASSUME NEW bytes
    PROVE  Header(bytes) \in {Early, Late} /\ Header(bytes) \in Files /\ Header(bytes) \in Parsable
  BY UnitsAre DEF Header, Parsable

LEMMA TypeStep ==
    ASSUME TypeOK, PhaseOK, [Next]_vars
    PROVE  TypeOK'
  <1> USE UnitsAre DEF TypeOK, machine, accepted, Problem
  <1>1. CASE UNCHANGED vars
    BY <1>1 DEF vars
  <1>2. CASE CaptureModel
    <2>1. digests' \in Recordings
      BY <1>2 DEF CaptureModel, Recordings
    <2> QED
      BY <1>2, <2>1 DEF CaptureModel
  <1>12. CASE LoadModel
    <2>1. loaded' \in [model : Contents \cup {None}, response : [Units -> Contents \cup {None}]]
      <3>1. disk[Model] \in Contents
        OBVIOUS
      <3> QED
        BY <1>12, <3>1 DEF LoadModel
    <2> QED
      BY <1>12, <2>1 DEF LoadModel
  <1>3. CASE ExpandUnit
    <2>1. loaded' \in [model : Contents \cup {None}, response : [Units -> Contents \cup {None}]]
      BY <1>3 DEF ExpandUnit
    <2>2. unit' \in 1 .. Len(UnitFiles) + 1
      BY <1>3 DEF ExpandUnit
    <2> QED
      BY <1>3, <2>1, <2>2 DEF ExpandUnit
  <1>4. CASE ReadCMake
    <2>1. digests' \in Recordings
      BY <1>4 DEF ReadCMake, Recordings
    <2> QED
      BY <1>4, <2>1 DEF ReadCMake
  <1>5. CASE BeginUnit
    <2>1. digests' \in Recordings /\ Nothing \in Recordings
      BY <1>5 DEF BeginUnit, Recordings, Nothing
    <2> QED
      BY <1>5, <2>1 DEF BeginUnit
  <1>6. CASE SkipUnit
    BY <1>6 DEF SkipUnit, PhaseOK, InUnit
  <1>7. CASE ParseSource \/ ParseHeader
    <2>1. \A f \in Files : [pinned EXCEPT ![f] = disk[f]] \in Recordings
      BY DEF Recordings
    <2>3. Header(disk) \in Files /\ (unit \in Units => UnitFiles[unit] \in Files)
      BY HeaderType
    <2>4. pinned' \in Recordings
      <3>1. CASE ParseSource
        BY <2>1, <2>3, <3>1 DEF ParseSource, PhaseOK, InUnit
      <3>2. CASE ParseHeader
        <4>1. pinned' = pinned \/ pinned' = [pinned EXCEPT ![Header(disk)] = disk[Header(disk)]]
          BY <3>2 DEF ParseHeader
        <4>2. [pinned EXCEPT ![Header(disk)] = disk[Header(disk)]] \in Recordings
          BY <2>1, <2>3
        <4> QED
          BY <4>1, <4>2
      <3> QED
        BY <1>7, <3>1, <3>2
    <2>2. unresolved' \in BOOLEAN
      BY <1>7 DEF ParseSource, ParseHeader
    <2> QED
      BY <1>7, <2>2, <2>4 DEF ParseSource, ParseHeader
  <1>8. CASE Reparse
    <2>1. parsed' \in Recordings
      BY <1>8 DEF Reparse, Buffer, Recordings
    <2> QED
      BY <1>8, <2>1 DEF Reparse
  <1>9. CASE Snapshot
    <2>1. digests' \in Recordings
      BY <1>9 DEF Snapshot, Recordings
    <2>2. unit \in Units /\ loaded.response[unit] \in Contents
      BY <1>9 DEF Snapshot, PhaseOK, InUnit, Loading
    <2>3. [response |-> loaded.response[unit], bytes |-> parsed] \in UnitFacts
      BY <2>2 DEF UnitFacts
    <2> QED
      BY <1>9, <2>1, <2>2, <2>3 DEF Snapshot
  <1>10. CASE BeginRecheck \/ Finish \/ \E f \in Files : Recheck(f)
    BY <1>10 DEF BeginRecheck, Finish, Recheck, Recorded
  <1>11. CASE \E f \in Files : Move(f)
    BY <1>11 DEF Move, Contents, Versions
  <1> QED
    BY <1>1, <1>2, <1>3, <1>4, <1>5, <1>6, <1>7, <1>8, <1>9, <1>10, <1>11, <1>12 DEF Next

--------------------------------------------------------------------------------
(* What a step may write into a recording: what was there, what the disk holds,  *)
(* or what another recording does.                                               *)

LEMMA ParsedFrom ==
    ASSUME TypeOK, ThereOK, PhaseOK, Reparse, NEW f \in Files, parsed'[f] # None
    PROVE  f \in Parsable /\ parsed'[f] # Absent /\ parsed'[f] \in {pinned[f], disk[f]}
  <1> DEFINE h == Header(Buffer)
  <1>1. h \in Files /\ h \in Parsable /\ UnitFiles[unit] \in Sources
    BY HeaderType, UnitsAre DEF Reparse, PhaseOK, InUnit
  <1>2. f \in {UnitFiles[unit]} \cup (IF Buffer[h] = Absent THEN {} ELSE {h}) /\ parsed'[f] = Buffer[f]
    BY DEF Reparse
  <1>3. Buffer[f] \in {pinned[f], disk[f]} /\ (pinned[f] # None => Buffer[f] = pinned[f])
    BY DEF Buffer
  <1>4. pinned[UnitFiles[unit]] # None /\ pinned[f] # Absent
    BY DEF Reparse, PhaseOK, ThereOK
  <1>5. CASE f = UnitFiles[unit]
    BY <1>1, <1>2, <1>3, <1>4, <1>5 DEF Parsable
  <1>6. CASE f = h /\ Buffer[h] # Absent
    BY <1>1, <1>2, <1>3, <1>6
  <1> QED
    BY <1>2, <1>5, <1>6

LEMMA PinnedFrom ==
    ASSUME TypeOK, PhaseOK, [Next]_vars, NEW f \in Files
    PROVE  pinned'[f] \in {pinned[f], None} \/ (pinned'[f] = disk[f] /\ disk[f] # Absent)
  <1>1. CASE UNCHANGED pinned
    BY <1>1
  <1>2. CASE BeginUnit
    BY <1>2 DEF BeginUnit, Nothing
  <1>3. CASE ParseSource
    BY <1>3 DEF ParseSource, TypeOK, Recordings
  <1>4. CASE ParseHeader
    <2>1. UNCHANGED pinned \/ \E h \in Files : disk[h] # Absent /\ pinned' = [pinned EXCEPT ![h] = disk[h]]
      BY <1>4, HeaderType DEF ParseHeader
    <2> QED
      BY <2>1 DEF TypeOK, Recordings
  <1> QED
    BY <1>1, <1>2, <1>3, <1>4 DEF Next, vars, CaptureModel, LoadModel, ExpandUnit, ReadCMake, SkipUnit, Reparse,
         Snapshot, BeginRecheck, Recheck, Finish, Move

--------------------------------------------------------------------------------
(* Problems are never taken back, and each recording of a missing file is one.   *)

LEMMA Sticky == TypeOK /\ [Next]_vars /\ unresolved => unresolved'
  BY DEF TypeOK, Next, vars, accepted, Problem, CaptureModel, LoadModel, ExpandUnit, ReadCMake, BeginUnit, SkipUnit,
     ParseSource, ParseHeader, Reparse, Snapshot, BeginRecheck, Recheck, Finish, Move

LEMMA ThereStep ==
    ASSUME TypeOK, ThereOK, PhaseOK, [Next]_vars
    PROVE  ThereOK'
  <1> USE UnitsAre
  <1>1. Absent # None
    BY DEF Contents
  <1>2. ASSUME NEW f \in Files PROVE (pinned[f] # Absent /\ parsed[f] # Absent)'
    <2>1. pinned'[f] # Absent
      BY <1>1, PinnedFrom DEF ThereOK
    <2>2. CASE Reparse /\ parsed'[f] # None
      BY <2>1, <2>2, ParsedFrom
    <2>3. CASE parsed'[f] = None \/ UNCHANGED parsed
      BY <1>1, <2>1, <2>3 DEF ThereOK
    <2> QED
      BY <2>2, <2>3 DEF Next, vars, CaptureModel, LoadModel, ExpandUnit, ReadCMake, BeginUnit, Nothing, SkipUnit,
         ParseSource, ParseHeader, Snapshot, BeginRecheck, Recheck, Finish, Move
  <1>3. ASSUME ~unresolved'
        PROVE  /\ loaded'.model # Absent /\ \A u \in Units : loaded'.response[u] # Absent
               /\ \A f \in Files : digests'[f] # Absent
    <2> USE DEF Problem, ThereOK
    <2>1. ~unresolved
      BY <1>3, Sticky
    <2>2. CASE UNCHANGED <<loaded, digests>>
      BY <2>1, <2>2
    <2>3. CASE CaptureModel
      BY <1>3, <2>1, <2>3 DEF CaptureModel, TypeOK, Recordings
    <2>4. CASE LoadModel
      BY <1>3, <2>1, <2>4 DEF LoadModel, TypeOK
    <2>5. CASE ExpandUnit
      BY <1>3, <2>1, <2>5 DEF ExpandUnit, TypeOK
    <2>6. CASE ReadCMake
      BY <1>3, <2>1, <2>6 DEF ReadCMake
    <2>7. CASE BeginUnit
      BY <2>1, <2>7 DEF BeginUnit, TypeOK, Recordings
    <2>8. CASE Snapshot
      BY <2>1, <2>8 DEF Snapshot
    <2> QED
      BY <2>2, <2>3, <2>4, <2>5, <2>6, <2>7, <2>8 DEF Next, vars, SkipUnit, ParseSource, ParseHeader, Reparse,
         BeginRecheck, Recheck, Finish, Move
  <1> QED
    BY <1>2, <1>3 DEF ThereOK

LEMMA PhaseStep ==
    ASSUME TypeOK, PhaseOK, ThereOK, [Next]_vars
    PROVE  PhaseOK'
  <1> USE UnitsAre DEF PhaseOK, Loading, InUnit, AtEnd
  <1>1. CASE UNCHANGED <<pc, unit, loaded, pinned, parsed>>
    BY <1>1
  <1>2. CASE CaptureModel \/ LoadModel
    BY <1>2 DEF CaptureModel, LoadModel, TypeOK
  <1>3. CASE ExpandUnit
    BY <1>3 DEF ExpandUnit, TypeOK, Contents
  <1>4. CASE ReadCMake
    BY <1>4 DEF ReadCMake, TypeOK
  <1>5. CASE BeginUnit
    BY <1>5 DEF BeginUnit, Nothing
  <1>6. CASE SkipUnit \/ Snapshot
    BY <1>6 DEF SkipUnit, Snapshot
  <1>7. CASE ParseSource
    BY <1>7 DEF ParseSource, TypeOK, Recordings, Contents
  <1>8. CASE ParseHeader
    <2>1. pc' = "again" /\ UNCHANGED <<unit, loaded, parsed>> /\ pc = "header"
      BY <1>8 DEF ParseHeader
    <2>2. \A f \in Files : pinned[f] # None => pinned'[f] # None
      <3>1. pinned' = pinned \/ pinned' = [pinned EXCEPT ![Header(disk)] = disk[Header(disk)]]
        BY <1>8 DEF ParseHeader
      <3>2. Header(disk) \in Files /\ disk[Header(disk)] # None
        BY HeaderType DEF TypeOK, Contents
      <3> QED
        BY <3>1, <3>2 DEF TypeOK, Recordings
    <2> QED
      BY <2>1, <2>2
  <1>9. CASE Reparse
    BY <1>9, ParsedFrom DEF Reparse
  <1>10. CASE BeginRecheck
    BY <1>10 DEF BeginRecheck
  <1>11. CASE Finish
    BY <1>11 DEF Finish
  <1> QED
    BY <1>1, <1>2, <1>3, <1>4, <1>5, <1>6, <1>7, <1>8, <1>9, <1>10, <1>11 DEF Next, vars, Recheck, Move

--------------------------------------------------------------------------------
(* The facts, and the model they are of. *)

LEMMA FactsStep ==
    ASSUME TypeOK, ThereOK, PhaseOK, FactsOK, [Next]_vars
    PROVE  FactsOK'
  <1> USE UnitsAre DEF FactsOK, Loading
  <1>1. CASE UNCHANGED <<pc, unit, facts, digests, unresolved>>
    BY <1>1
  <1>2. CASE CaptureModel \/ LoadModel \/ ExpandUnit \/ ReadCMake
    BY <1>2 DEF CaptureModel, LoadModel, ExpandUnit, ReadCMake
  <1>3. CASE BeginUnit
    <2>1. unresolved' = unresolved /\ facts' = facts /\ pc = "unit" /\ pc' \in {"unit", "source"}
      BY <1>3 DEF BeginUnit, accepted
    <2>2. \A f \in Parsable : digests'[f] = digests[f]
      BY <1>3 DEF BeginUnit, TypeOK, Recordings, Parsable, Files
    <2>3. ~unresolved => unit' = unit
      BY <1>3 DEF BeginUnit, ThereOK
    <2> QED
      BY <2>1, <2>2, <2>3
  <1>4. CASE SkipUnit
    BY <1>4 DEF SkipUnit, Problem
  <1>5. CASE ParseSource \/ ParseHeader \/ Reparse
    <2>1. UNCHANGED <<unit, facts, digests>> /\ pc \notin Loading /\ pc' \notin Loading
      BY <1>5 DEF ParseSource, ParseHeader, Reparse, accepted
    <2> QED
      BY <2>1, Sticky
  <1>6. CASE Snapshot
    <2> DEFINE new == [response |-> loaded.response[unit], bytes |-> parsed]
    <2>1. unit \in Units /\ pc = "snapshot" /\ pc' = "unit" /\ unit' = unit + 1 /\ facts' = [facts EXCEPT ![unit] = new]
      BY <1>6 DEF Snapshot, PhaseOK, InUnit
    <2>2. new # None
      <3>1. parsed \in Recordings /\ loaded.response[unit] \in Contents
        BY <2>1 DEF TypeOK, PhaseOK
      <3> QED
        BY <3>1 DEF UnitFacts
    <2>3. ~unresolved' => ~unresolved
      BY Sticky
    <2>4. \A u \in Units \ {unit} : facts'[u] = facts[u]
      BY <2>1 DEF TypeOK
    <2>5. facts'[unit] = new
      BY <2>1 DEF TypeOK
    <2>6. \A f \in Files : digests'[f] = IF parsed[f] # None THEN parsed[f] ELSE digests[f]
      BY <1>6 DEF Snapshot
    <2>7. ~unresolved' => \A f \in Files : parsed[f] # None /\ digests[f] # None => digests[f] = parsed[f]
      BY <1>6 DEF Snapshot, Problem, Differs
    <2>8. \A f \in Files : parsed[f] # None => f \in Parsable
      BY DEF PhaseOK
    <2>9. ASSUME NEW u \in Units, facts'[u] # None, NEW f \in Files, facts'[u].bytes[f] # None
          PROVE  f \in Parsable /\ (~unresolved' => facts'[u].bytes[f] = digests'[f])
      <3>1. CASE u = unit
        BY <2>5, <2>6, <2>8, <2>9, <3>1
      <3>2. CASE u # unit
        BY <2>3, <2>4, <2>6, <2>7, <2>9, <3>2
      <3> QED
        BY <3>1, <3>2
    <2>10. ~unresolved' => \A u \in Units : u < unit' => facts'[u] # None
      BY <2>1, <2>2, <2>3, <2>4, <2>5
    <2> QED
      BY <2>1, <2>9, <2>10
  <1>7. CASE BeginRecheck
    BY <1>7 DEF BeginRecheck, accepted
  <1>8. CASE Finish \/ \E f \in Files : Recheck(f)
    <2>1. UNCHANGED <<unit, facts, digests>> /\ pc \notin Loading /\ pc' \notin Loading
      BY <1>8 DEF Finish, Recheck
    <2> QED
      BY <2>1, Sticky
  <1> QED
    BY <1>1, <1>2, <1>3, <1>4, <1>5, <1>6, <1>7, <1>8 DEF Next, vars, accepted, Move

LEMMA ModelStep ==
    ASSUME TypeOK, PhaseOK, ModelOK, [Next]_vars
    PROVE  ModelOK'
  <1> USE UnitsAre DEF ModelOK, Loading, complete
  <1>1. CASE UNCHANGED <<pc, loaded, digests, before, unresolved>>
    BY <1>1
  <1>2. CASE CaptureModel \/ LoadModel \/ ExpandUnit
    BY <1>2 DEF CaptureModel, LoadModel, ExpandUnit
  <1>3. CASE ReadCMake
    BY <1>3 DEF ReadCMake
  <1>4. CASE BeginUnit
    BY <1>4 DEF BeginUnit, TypeOK, Recordings
  <1>5. CASE Snapshot
    <2>1. parsed[Model] = None
      BY DEF PhaseOK
    <2> QED
      BY <1>5, <2>1 DEF Snapshot
  <1>6. CASE SkipUnit \/ ParseSource \/ ParseHeader \/ Reparse
    BY <1>6 DEF SkipUnit, ParseSource, ParseHeader, Reparse
  <1>7. CASE BeginRecheck
    BY <1>7 DEF BeginRecheck
  <1>8. ASSUME NEW f \in Files, Recheck(f) PROVE ModelOK'
    BY <1>8 DEF Recheck
  <1>9. CASE Finish
    BY <1>9 DEF Finish, Problem, SameModel
  <1> QED
    BY <1>1, <1>2, <1>3, <1>4, <1>5, <1>6, <1>7, <1>8, <1>9 DEF Next, vars, accepted, Move

(* While the digests are compared the disk moves on, and back only if it is noted. *)
LEMMA InstantStep ==
    ASSUME TypeOK, InstantOK, [Next]_vars
    PROVE  InstantOK'
  <1> USE DEF InstantOK, AtEnd
  <1>1. CASE pc' \notin {"recheck", "done"}
    BY <1>1
  <1>2. CASE UNCHANGED <<pc, digests, disk, restored, instant, unresolved, rest>>
    BY <1>2
  <1>3. CASE BeginRecheck
    BY <1>3 DEF BeginRecheck, Recorded, machine
  <1>4. ASSUME NEW f \in Files, Recheck(f) PROVE InstantOK'
    <2>1. UNCHANGED <<pc, digests, disk, restored, instant>> /\ pc = "recheck" /\ rest' = rest \ {f}
      BY <1>4 DEF Recheck, machine
    <2>2. ~unresolved' => ~unresolved /\ disk[f] = digests[f]
      BY <1>4 DEF Recheck, Problem
    <2> QED
      BY <2>1, <2>2
  <1>5. CASE Finish
    <2>1. UNCHANGED <<digests, restored, instant, rest>> /\ pc = "recheck" /\ pc' = "done" /\ rest = {}
      BY <1>5 DEF Finish, machine
    <2> QED
      BY <2>1, Sticky
  <1>6. ASSUME NEW g \in Files, Move(g) PROVE InstantOK'
    <2>1. UNCHANGED <<pc, digests, instant, unresolved, rest>>
      BY <1>6 DEF Move, accepted
    <2>2. restored \subseteq restored'
      BY <1>6 DEF Move
    <2>3. pc = "recheck" => \A f \in Files \ restored' : disk'[f] = digests[f] => disk[f] = digests[f]
      BY <1>6 DEF Move, TypeOK
    <2> QED
      BY <2>1, <2>2, <2>3
  <1>7. CASE CaptureModel \/ LoadModel \/ ExpandUnit \/ ReadCMake \/ BeginUnit \/ SkipUnit \/ ParseSource
              \/ ParseHeader \/ Reparse \/ Snapshot
    BY <1>1, <1>7 DEF CaptureModel, LoadModel, ExpandUnit, ReadCMake, BeginUnit, SkipUnit, ParseSource, ParseHeader,
         Reparse, Snapshot
  <1> QED
    BY <1>2, <1>3, <1>4, <1>5, <1>6, <1>7 DEF Next, vars, machine, accepted

--------------------------------------------------------------------------------
(* The invariant and its consequences. *)

LEMMA Initially == Init => IInv
  <1> SUFFICES ASSUME Init PROVE IInv
    OBVIOUS
  <1> USE UnitsAre
  <1>1. 0 \in Versions /\ Nothing \in Recordings /\ None # Absent
    BY DEF Versions, Nothing, Recordings, Contents
  <1>2. disk \in [Files -> Contents]
    BY <1>1 DEF Init, Contents
  <1>3. TypeOK
    <2>1. loaded \in [model : Contents \cup {None}, response : [Units -> Contents \cup {None}]]
      BY DEF Init
    <2>2. facts \in [Units -> UnitFacts \cup {None}] /\ unit \in 1 .. Len(UnitFiles) + 1
      BY DEF Init
    <2> QED
      BY <1>1, <1>2, <2>1, <2>2 DEF Init, TypeOK
  <1>4. ThereOK /\ PhaseOK /\ FactsOK /\ ModelOK /\ InstantOK
    <2>1. ThereOK /\ PhaseOK
      BY <1>1 DEF Init, ThereOK, PhaseOK, Loading, InUnit, AtEnd, Nothing
    <2>2. FactsOK /\ ModelOK /\ InstantOK
      BY DEF Init, FactsOK, ModelOK, InstantOK, Loading, AtEnd, complete
    <2> QED
      BY <2>1, <2>2
  <1> QED
    BY <1>3, <1>4 DEF IInv

LEMMA Inductive == IInv /\ [Next]_vars => IInv'
  BY TypeStep, ThereStep, PhaseStep, FactsStep, ModelStep, InstantStep DEF IInv

LEMMA Invariant == Spec => []IInv
  BY Initially, Inductive, PTL DEF Spec

(* Every variable keeps its type, for any units and any number of moves.          *)
THEOREM TypeCorrect == Spec => []TypeOK
  <1>1. IInv => TypeOK
    BY DEF IInv
  <1> QED
    BY <1>1, Invariant, PTL

(* Complete facts are of every unit, and the bytes of all of them are those of    *)
(* the one set of digests the result carries.                                     *)
THEOREM OneSource == Spec => []CompleteFactsHaveOneSource
  <1>1. IInv => CompleteFactsHaveOneSource
    <2> SUFFICES ASSUME IInv, complete, NEW u \in Units
                 PROVE  /\ facts[u] # None
                        /\ \A f \in Files : facts[u].bytes[f] # None => facts[u].bytes[f] = digests[f]
      BY DEF CompleteFactsHaveOneSource
    <2>1. pc = "done" /\ ~unresolved
      BY DEF complete
    <2>2. u < unit
      BY <2>1, UnitsAre DEF IInv, TypeOK, PhaseOK, AtEnd
    <2> QED
      BY <2>1, <2>2 DEF IInv, FactsOK, Loading
  <1> QED
    BY <1>1, Invariant, PTL

(* The digests of a complete result were the disk's contents at one instant, but  *)
(* for files that were put back during the comparison, and its units are those of *)
(* the model the result names.                                                    *)
THEOREM OneInstant == Spec => []ResultIsOneInstant
  <1>1. IInv => ResultIsOneInstant
    BY DEF IInv, ResultIsOneInstant, DigestsAreOneInstant, ModelIsTheOneLoaded, complete, InstantOK, AtEnd, ModelOK,
       Loading
  <1> QED
    BY <1>1, Invariant, PTL
================================================================================
