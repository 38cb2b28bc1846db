---------------------------- MODULE CppDriver_proofs ----------------------------
(* Proofs about the build driver: for any number of sources, and any edits,      *)
(* upgrades, replaced models and failures between and during its calls, nothing  *)
(* is compiled unchecked, nothing runs on, and a success is complete.            *)
EXTENDS CppDriver, TLAPS

USE SourceAssumption, FlagAssumption, BoundAssumption, NoneAssumption

(* Versions count the moves of the machine, and calls are counted from 1. *)
AgesOK ==
    /\ compiler <= moves /\ \A s \in Sources : source[s] <= moves
    /\ pc # "idle" => calls > 0

(* The parts of a call. *)
Linking   == {"link", "archive"}
Checking  == {"hash", "compare"}
Executing == {"spawn", "wait", "leave"}
CallOK ==
    /\ model.flags = cfg.flags
    /\ pc \notin Executing \cup {"idle"} => exit = None /\ \A s \in Sources : task[s] = "none"
    /\ pc \in {"spawn", "wait"} => exit = None
    /\ pc \in Linking => cfg.entry = "linkCpp"
    /\ pc \in {"begin", "answer"} \cup Checking \cup Executing => cfg.entry # "linkCpp"
    /\ pc \in {"answer"} \cup Checking \cup Executing => ~ByNinja
    /\ pc \in Checking => ~(Compiles /\ cfg.evidence = "isolated-build")
    /\ pc \in Executing => Compiles
    /\ pc = "answer" => ~Compiles

(* The pinned model's file is read twice.  At the first read it is the pinned    *)
(* one, and stays it unless it is replaced before the second, by any model.      *)
PinnedOK == pc = "compare" => cfg.pinned # None /\ (file = cfg.pinned \/ swapped)
Launched == pc \in Executing \/ \E s \in Sources : task[s] # "none"
LaunchOK ==
    Launched => /\ cfg.evidence # "isolated-build"
                /\ cfg.pinned # None => model = second /\ (second = cfg.pinned \/ swapped)

(* A task that ended well has made its output, in this call; the loop over the   *)
(* results has passed only such tasks.                                           *)
MadeHere(s) ==
    /\ outputs["direct"][s] # None
    /\ outputs["direct"][s].call = calls /\ outputs["direct"][s].flags = model.flags
ResultsOK ==
    /\ \A s \in Sources : task[s] = "ok" => MadeHere(s)
    /\ pc = "wait" => \A s \in Sources : s < index => task[s] = "ok"
    /\ pc = "leave" /\ exit = 0 => \A s \in Sources : task[s] = "ok"
    /\ pc \notin Executing => \A s \in Sources : task[s] # "running"

ObjectOK == pc = "archive" => object = calls

IInv == TypeOK /\ AgesOK /\ CallOK /\ PinnedOK /\ LaunchOK /\ ResultsOK /\ ObjectOK /\ SuccessIsComplete

LEMMA ObjectFields ==
    ASSUME NEW v \in Versions, NEW f \in Flags \cup {Forged}, NEW c \in 0 .. MaxCalls
    PROVE  LET o == [source |-> v, flags |-> f, call |-> c]
           IN  o \in Objects /\ o # None /\ o.call = c /\ o.flags = f
  BY DEF Objects

--------------------------------------------------------------------------------
(* Types. *)

LEMMA TypeStep ==
    ASSUME TypeOK, AgesOK, [Next]_vars
    PROVE  TypeOK' /\ AgesOK'
  <1> USE DEF machine, linked, reads, Contents
  <1>1. CASE UNCHANGED vars
    BY <1>1 DEF vars, TypeOK, AgesOK
  <1>2. CASE Call
    <2>1. model' \in Models
      BY <1>2 DEF Call, TypeOK, Models, Versions, NoConfig
    <2>2. /\ cfg'.entry \in Entries /\ cfg'.evidence \in Modes /\ cfg'.recorder \in BOOLEAN
          /\ cfg'.flags \in Flags /\ cfg'.pinned \in {None, file} /\ cfg'.output \in OutputTypes
      BY <1>2 DEF Call
    <2>3. cfg'.pinned \in Contents
      BY <2>2 DEF TypeOK
    <2>4. /\ pc' \in {"begin", "link"} /\ exit' = None /\ index' = 1 /\ second' = None /\ swapped' = FALSE
          /\ task' = [s \in Sources |-> "none"] /\ calls' = calls + 1 /\ calls' <= MaxCalls
          /\ UNCHANGED <<machine, outputs, linked>>
      BY <1>2 DEF Call, TypeOK
    <2> QED
      <3>1. second' \in Contents /\ swapped' \in BOOLEAN
        BY <2>4
      <3>2. task' \in [Sources -> {"none", "running", "ok", "failed"}]
        BY <2>4
      <3>3. calls' \in 0 .. MaxCalls
        BY <2>4 DEF TypeOK
      <3>4. AgesOK'
        BY <2>4 DEF AgesOK, TypeOK
      <3> QED
        BY <2>1, <2>2, <2>3, <2>4, <3>1, <3>2, <3>3, <3>4 DEF TypeOK
  <1>3. CASE Begin
    BY <1>3 DEF Begin, Fail, Step, TypeOK, AgesOK, Models
  <1>4. CASE HashSource
    <2>1. model' \in Models
      BY <1>4 DEF HashSource, TypeOK, Models
    <2> QED
      BY <1>4, <2>1 DEF HashSource, Step, TypeOK, AgesOK, Sources
  <1>5. CASE HashFails \/ Computed \/ Changed \/ Compare
    BY <1>5 DEF HashFails, Computed, Changed, Compare, Checked, Fail, Step, TypeOK, AgesOK, Sources
  <1>6. CASE Answer
    BY <1>6 DEF Answer, Step, TypeOK, AgesOK
  <1>7. CASE Spawn \/ Get \/ GetFailure \/ GetAll \/ Leave
    BY <1>7 DEF Spawn, Get, GetFailure, GetAll, Leave, Step, TypeOK, AgesOK, Sources
  <1>8. ASSUME NEW s \in Sources, Compile(s) PROVE TypeOK' /\ AgesOK'
    <2>1. [source |-> source[s], flags |-> model.flags, call |-> calls] \in Objects
      BY ObjectFields DEF TypeOK, Models
    <2> QED
      BY <1>8, <2>1 DEF Compile, TypeOK, AgesOK
  <1>9. CASE Ninja
    <2>1. \A s \in Sources : [source |-> source[s], flags |-> cfg.flags, call |-> calls] \in Objects
      BY ObjectFields DEF TypeOK
    <2> QED
      BY <1>9, <2>1 DEF Ninja, Step, TypeOK, AgesOK
  <1>10. CASE Link \/ MakeObject \/ Archive
    BY <1>10 DEF Link, MakeObject, Archive, Product, TypeOK, AgesOK
  <1>11. CASE Moves
    <2>1. file' \in Contents
      BY <1>11 DEF Moves, TypeOK, Models
    <2> QED
      BY <1>11, <2>1 DEF Moves, TypeOK, AgesOK, Versions
  <1> QED
    BY <1>1, <1>2, <1>3, <1>4, <1>5, <1>6, <1>7, <1>8, <1>9, <1>10, <1>11 DEF Next, Driver

--------------------------------------------------------------------------------
(* The phases of a call, and what has been checked when compilers are launched. *)

LEMMA CallStep ==
    ASSUME TypeOK, CallOK, [Next]_vars
    PROVE  CallOK'
  <1> USE DEF machine, linked, CallOK, Linking, Checking, Executing
  <1>1. CASE UNCHANGED vars
    BY <1>1 DEF vars, ByNinja, Audited, Compiles
  <1>2. CASE Call
    BY <1>2 DEF Call, NoConfig, Models
  <1>3. CASE Begin
    BY <1>3 DEF Begin, Fail, Step, ByNinja, Audited, Compiles, TypeOK, Models
  <1>4. CASE HashSource \/ HashFails \/ Computed \/ Changed \/ Compare
    BY <1>4 DEF HashSource, HashFails, Computed, Changed, Compare, Checked, Fail, Step, ByNinja, Audited, Compiles,
         TypeOK, Models
  <1>5. CASE Answer \/ Spawn \/ Get \/ GetFailure \/ GetAll \/ Leave \/ Ninja
    BY <1>5 DEF Answer, Spawn, Get, GetFailure, GetAll, Leave, Ninja, Step, ByNinja, Audited, Compiles
  <1>6. ASSUME NEW s \in Sources, Compile(s) PROVE CallOK'
    BY <1>6 DEF Compile, ByNinja, Audited, Compiles, TypeOK
  <1>7. CASE Link \/ MakeObject \/ Archive
    BY <1>7 DEF Link, MakeObject, Archive, Product, ByNinja, Audited, Compiles
  <1>8. CASE Moves
    BY <1>8 DEF Moves, ByNinja, Audited, Compiles
  <1> QED
    BY <1>1, <1>2, <1>3, <1>4, <1>5, <1>6, <1>7, <1>8 DEF Next, Driver

LEMMA PinnedStep ==
    ASSUME PinnedOK, [Next]_vars
    PROVE  PinnedOK'
  <1> USE DEF machine, reads, PinnedOK
  <1>1. CASE pc' # "compare"
    BY <1>1
  <1>2. CASE Moves
    BY <1>2 DEF Moves
  <1>3. CASE Computed
    BY <1>3 DEF Computed, Checked, Step
  <1>4. CASE pc = "compare" /\ UNCHANGED <<file, swapped, pc, cfg>>
    BY <1>4
  <1>5. ASSUME NEW s \in Sources, Compile(s) PROVE PinnedOK'
    BY <1>5, <1>1, <1>4 DEF Compile
  <1>6. CASE UNCHANGED vars
    BY <1>6, <1>1, <1>4 DEF vars
  <1>7. CASE Driver
    BY <1>1, <1>3, <1>7 DEF Driver, Begin, HashSource, HashFails, Changed, Compare, Answer, Spawn, Get, GetFailure,
         GetAll, Leave, Ninja, Link, MakeObject, Archive, Product, Fail, Step, Checked
  <1>8. CASE Call
    BY <1>1, <1>8 DEF Call
  <1> QED
    BY <1>2, <1>5, <1>6, <1>7, <1>8 DEF Next

LEMMA LaunchStep ==
    ASSUME TypeOK, CallOK, PinnedOK, LaunchOK, [Next]_vars
    PROVE  LaunchOK'
  <1> USE DEF machine, reads, LaunchOK, Launched, Executing
  <1>1. CASE UNCHANGED <<task, cfg, pc, model, second>> /\ (swapped => swapped')
    BY <1>1
  <1>2. CASE Call
    BY <1>2 DEF Call
  <1>3. CASE Computed
    BY <1>3 DEF Computed, Checked, Step, CallOK, Checking, Linking
  <1>4. CASE Compare
    <2>1. CASE SameBytes
      BY <1>4, <2>1 DEF Compare, SameBytes, PinnedOK, Step, CallOK, Checked, Checking, Linking
    <2> QED
      BY <1>4, <2>1 DEF Compare, Fail, Step, CallOK, Linking
  <1>5. CASE Begin \/ HashSource \/ HashFails \/ Changed
    BY <1>5 DEF Begin, HashSource, HashFails, Changed, Fail, Step, CallOK, Checking, Linking
  <1>6. CASE Answer \/ Spawn \/ Get \/ GetFailure \/ GetAll \/ Leave \/ Ninja
    BY <1>6 DEF Answer, Spawn, Get, GetFailure, GetAll, Leave, Ninja, Step
  <1>7. CASE Link \/ MakeObject \/ Archive
    BY <1>7 DEF Link, MakeObject, Archive, Product
  <1>8. ASSUME NEW s \in Sources, Compile(s) PROVE LaunchOK'
    BY <1>8 DEF Compile, TypeOK
  <1> QED
    BY <1>1, <1>2, <1>3, <1>4, <1>5, <1>6, <1>7, <1>8 DEF Next, Driver, vars, Moves

--------------------------------------------------------------------------------
(* The results of the compilers, and what a call that succeeds leaves behind. *)

LEMMA ResultsStep ==
    ASSUME TypeOK, CallOK, ResultsOK, [Next]_vars
    PROVE  ResultsOK'
  <1> USE DEF machine, linked, ResultsOK, MadeHere, Executing
  <1>1. CASE UNCHANGED <<outputs, calls, model, pc, exit, task, index>>
    BY <1>1
  <1>2. CASE Call
    BY <1>2 DEF Call
  <1>3. CASE Begin \/ HashSource \/ HashFails \/ Computed \/ Changed \/ Compare \/ Answer
    <2>1. task' = task /\ (\A s \in Sources : task[s] = "none") /\ pc' # "leave" /\ pc' # "wait"
      BY <1>3 DEF Begin, HashSource, HashFails, Computed, Changed, Compare, Answer, Checked, Fail, Step, CallOK,
           Checking, Linking
    <2> QED
      BY <2>1
  <1>4. CASE Spawn
    BY <1>4 DEF Spawn, Step, TypeOK, Sources
  <1>5. CASE Get \/ GetFailure \/ GetAll
    BY <1>5, Z3 DEF Get, GetFailure, GetAll, Step, CallOK, TypeOK, Sources
  <1>6. CASE Leave
    BY <1>6 DEF Leave, AllJoined, Step
  <1>7. CASE Ninja
    BY <1>7 DEF Ninja, Step, CallOK, Linking
  <1>8. CASE Link \/ MakeObject \/ Archive
    BY <1>8 DEF Link, MakeObject, Archive, Product, CallOK, Linking
  <1>9. ASSUME NEW s \in Sources, Compile(s) PROVE ResultsOK'
    <2>1. task'[s] = "ok" => MadeHere(s)'
      BY <1>9, ObjectFields DEF Compile, TypeOK, Models
    <2>2. \A r \in Sources \ {s} : outputs'["direct"][r] = outputs["direct"][r] /\ task'[r] = task[r]
      BY <1>9 DEF Compile, TypeOK
    <2>3. task'[s] # "running" /\ task[s] = "running"
      BY <1>9 DEF Compile, TypeOK
    <2>4. UNCHANGED <<calls, model, pc, exit, index>>
      BY <1>9 DEF Compile
    <2> QED
      BY <2>1, <2>2, <2>3, <2>4
  <1>10. CASE Moves
    BY <1>1, <1>10 DEF Moves
  <1> QED
    BY <1>1, <1>2, <1>3, <1>4, <1>5, <1>6, <1>7, <1>8, <1>9, <1>10 DEF Next, Driver, vars

LEMMA ObjectStep ==
    ASSUME ObjectOK, [Next]_vars
    PROVE  ObjectOK'
  <1> USE DEF ObjectOK, linked
  <1>1. CASE pc' # "archive"
    BY <1>1
  <1>2. CASE UNCHANGED <<object, calls, pc>>
    BY <1>2
  <1> QED
    BY <1>1, <1>2 DEF Next, Driver, vars, Call, Begin, HashSource, HashFails, Computed, Changed, Compare, Answer,
         Checked, Spawn, Get, GetFailure, GetAll, Leave, Ninja, Link, MakeObject, Archive, Product, Fail, Step,
         Compile, Moves

(* Only three steps end a call with success: an answer, a link, and leaving      *)
(* after every result was good.                                                  *)
LEMMA SuccessStep ==
    ASSUME TypeOK, CallOK, ResultsOK, ObjectOK, SuccessIsComplete, [Next]_vars
    PROVE  SuccessIsComplete'
  <1> USE DEF machine, linked
  <1>1. CASE pc' # "idle" \/ exit' # 0
    BY <1>1 DEF SuccessIsComplete
  <1>2. CASE UNCHANGED <<pc, exit, cfg, calls, model, outputs, product>>
    BY <1>2 DEF SuccessIsComplete, ByNinja, Audited, Compiles
  <1>3. CASE Begin \/ HashSource \/ HashFails \/ Computed \/ Changed \/ Compare \/ Spawn \/ Get \/ GetFailure \/ GetAll
    <2>1. pc' # "idle" \/ exit' # 0
      BY <1>3 DEF Begin, HashSource, HashFails, Computed, Changed, Compare, Spawn, Get, GetFailure, GetAll,
           Checked, Fail, Step
    <2> QED
      BY <1>1, <2>1
  <1>4. CASE Answer
    BY <1>4 DEF SuccessIsComplete, Answer, Step, CallOK, Compiles, ByNinja, Audited
  <1>5. CASE Leave
    <2>1. cfg.entry # "linkCpp" /\ ~ByNinja
      BY <1>5 DEF Leave, Step, CallOK, Executing
    <2>2. exit = 0 => \A s \in Sources : MadeHere(s)
      BY <1>5 DEF Leave, Step, ResultsOK
    <2> QED
      BY <1>5, <2>1, <2>2 DEF SuccessIsComplete, Leave, Step, MadeHere, ByNinja, Audited, Compiles
  <1>6. CASE Ninja
    <2>1. UNCHANGED <<cfg, calls, model>> /\ ByNinja
      BY <1>6 DEF Ninja, Step
    <2>2. exit' = 0 => \A s \in Sources : outputs'["ninja"][s] # None
      <3> SUFFICES ASSUME exit' = 0, NEW s \in Sources PROVE outputs'["ninja"][s] # None
        OBVIOUS
      <3>1. PICK made \in SUBSET Sources :
              /\ outputs' = [outputs EXCEPT !["ninja"] = [r \in Sources |->
                   IF r \in made THEN [source |-> source[r], flags |-> cfg.flags, call |-> calls] ELSE @[r]]]
              /\ exit' = 1 \/ \A r \in Sources \ made : outputs.ninja[r] # None
        BY <1>6 DEF Ninja
      <3>2. [source |-> source[s], flags |-> cfg.flags, call |-> calls] # None
        BY ObjectFields DEF TypeOK
      <3>3. outputs'["ninja"][s] = IF s \in made THEN [source |-> source[s], flags |-> cfg.flags, call |-> calls]
                                                 ELSE outputs["ninja"][s]
        BY <3>1 DEF TypeOK
      <3> QED
        BY <3>1, <3>2, <3>3
    <2>3. cfg.entry # "linkCpp" /\ ~Audited
      BY <2>1 DEF ByNinja
    <2> QED
      BY <2>1, <2>2, <2>3 DEF SuccessIsComplete, ByNinja, Audited, Compiles
  <1>7. CASE Link \/ MakeObject \/ Archive
    <2>1. cfg.entry = "linkCpp" /\ UNCHANGED <<cfg, calls>>
      BY <1>7 DEF Link, MakeObject, Archive, Product, CallOK, Linking
    <2>2. pc' = "idle" /\ exit' = 0 => product' = calls
      BY <1>7 DEF Link, MakeObject, Archive, Product, ObjectOK
    <2>3. ~Compiles'
      BY <2>1 DEF Compiles
    <2> QED
      BY <2>1, <2>2, <2>3 DEF SuccessIsComplete
  <1>8. ASSUME NEW s \in Sources, Compile(s) PROVE SuccessIsComplete'
    <2>1. pc' # "idle"
      BY <1>8 DEF Compile, ResultsOK, Executing
    <2> QED
      BY <1>1, <2>1
  <1>9. CASE Moves
    BY <1>2, <1>9 DEF Moves
  <1>10. CASE Call
    BY <1>1, <1>10 DEF Call
  <1> QED
    BY <1>2, <1>3, <1>4, <1>5, <1>6, <1>7, <1>8, <1>9, <1>10 DEF Next, Driver, vars

--------------------------------------------------------------------------------
(* The invariant and its consequences. *)

LEMMA Initially == Init => IInv
  <1> SUFFICES ASSUME Init PROVE IInv
    OBVIOUS
  <1>1. NoConfig.flags \in Flags /\ 0 \in Versions
    BY DEF NoConfig, Versions
  <1>2. TypeOK
    <2>1. model \in Models /\ source \in [Sources -> Versions]
      BY <1>1 DEF Init, Models
    <2>2. /\ cfg.entry \in Entries /\ cfg.evidence \in Modes /\ cfg.recorder \in BOOLEAN
          /\ cfg.flags \in Flags /\ cfg.pinned \in Contents /\ cfg.output \in OutputTypes
      BY <1>1 DEF Init, NoConfig, Entries, Modes, OutputTypes, Contents
    <2>3. task \in [Sources -> {"none", "running", "ok", "failed"}] /\ index \in 1 .. NumSources + 1
      BY DEF Init
    <2>4. outputs \in [{"direct", "ninja"} -> [Sources -> Objects \cup {None}]]
      BY DEF Init
    <2>5. second \in Contents /\ swapped \in BOOLEAN /\ file \in Contents
      BY DEF Init, Contents
    <2>6. /\ compiler \in Versions /\ moves \in Versions /\ calls \in 0 .. MaxCalls /\ exit \in {None, 0, 1}
          /\ object = None /\ product = None /\ pc = "idle"
      BY <1>1 DEF Init
    <2> QED
      BY <2>1, <2>2, <2>3, <2>4, <2>5, <2>6 DEF TypeOK
  <1>3. AgesOK /\ PinnedOK /\ ResultsOK /\ ObjectOK /\ LaunchOK
    BY <1>2 DEF Init, AgesOK, PinnedOK, ResultsOK, ObjectOK, LaunchOK, Launched, Executing, TypeOK
  <1>4. CallOK
    BY DEF Init, CallOK, Checking, Executing, Linking
  <1>5. SuccessIsComplete
    BY DEF Init, SuccessIsComplete
  <1> QED
    BY <1>2, <1>3, <1>4, <1>5 DEF IInv

LEMMA Inductive == IInv /\ [Next]_vars => IInv'
  BY TypeStep, CallStep, PinnedStep, LaunchStep, ResultsStep, ObjectStep, SuccessStep DEF IInv

LEMMA Invariant == Spec => []IInv
  BY Initially, Inductive, PTL DEF Spec

(* Every variable keeps its type, for any number of sources, calls and moves.     *)
THEOREM TypeCorrect == Spec => []TypeOK
  <1>1. IInv => TypeOK
    BY DEF IInv
  <1> QED
    BY <1>1, Invariant, PTL

(* No compiler is launched for isolated evidence, or with commands other than     *)
(* those a second look finds in the pinned file, which are the pinned ones unless *)
(* the file is replaced, by whatever model, between the two looks.                *)
THEOREM NothingUncheckedIsCompiled == Spec => []CheckedBeforeCompiling
  <1>1. IInv => CheckedBeforeCompiling
    BY DEF IInv, TypeOK, CallOK, LaunchOK, Launched, CheckedBeforeCompiling
  <1> QED
    BY <1>1, Invariant, PTL

(* A call that has returned has joined all its compilers, in whatever order they  *)
(* ended and whichever of them failed.                                            *)
THEOREM EveryCompilerIsJoined == Spec => []NothingRunsOn
  <1>1. IInv => NothingRunsOn
    BY DEF IInv, ResultsOK, Executing, NothingRunsOn
  <1> QED
    BY <1>1, Invariant, PTL

(* A call that reports success has made every output it is asked for, itself when *)
(* it is audited, and a link's product is of its own IR.                          *)
THEOREM SuccessMeansComplete == Spec => []SuccessIsComplete
  <1>1. IInv => SuccessIsComplete
    BY DEF IInv
  <1> QED
    BY <1>1, Invariant, PTL
================================================================================
