------------------------------- MODULE StubSession -------------------------------
(* The files that CppStubGenerator changes: stubFunction() reads a file, empties it  *)
(* by opening it for writing and writes it with a stub; restoreFile() writes what    *)
(* was read, which only the StubResult in the caller's memory holds.  Callers stub   *)
(* functions and restore them in reverse order; reads break off, writes fail,        *)
(* callers die at any step, and a user edits the files.                              *)
EXTENDS Integers, FiniteSets, Sequences, SequencesExt

CONSTANTS
    Callers, Files, Functions,
    MaxStubs,      \* bound: stubs that a caller has not undone
    MaxEdits       \* bound: edits of a file

ASSUME BoundsAreNatural == MaxStubs \in Nat \ {0} /\ MaxEdits \in Nat

VARIABLES
    disk,         \* the text of each file
    own,          \* ghost: the text the user means each file to have
    held,         \* each caller's StubResults, the latest last
    call,         \* the call each caller is in: <<>> or <<record>>
    alive,        \* the callers that run
    disturbed     \* ghost: files that were edited or read by another caller while a caller
                  \* had a StubResult of them, those a lost write was reported good for, and
                  \* those of which a caller has a piece only and takes it for all of it
vars == <<disk, own, held, call, alive, disturbed>>

(* A text: the user's edit it stems from and the functions stubbed in it.  A file    *)
(* that has been opened for writing is empty; one whose writing failed is cut off.   *)
Text(edit, stubs) == [edit |-> edit, stubs |-> stubs]
Empty == Text(0, {"empty"})
CutOff == Text(0, {"cut off"})
Whole(text) == text.stubs \cap {"empty", "cut off"} = {}

Result(file, original) == [file |-> file, original |-> original]
Writing(does, file, original, text, step) ==
    [does |-> does, file |-> file, original |-> original, text |-> text, step |-> step]

Init ==
    /\ disk = [f \in Files |-> Text(0, {})] /\ own = disk
    /\ held = [c \in Callers |-> <<>>] /\ call = [c \in Callers |-> <<>>]
    /\ alive = Callers /\ disturbed = {}

Idle(c) == c \in alive /\ call[c] = <<>>
Uses(c, f) == (\E i \in DOMAIN held[c] : held[c][i].file = f) \/ (call[c] # <<>> /\ call[c][1].file = f)

(* A StubResult carries the text that was read, even if the function was not found   *)
(* in it or the stub could not be written.                                           *)
ForgetsOnFailure(r, success) == IF success THEN r ELSE Result(r.file, Empty)      \* mutant
Returned(r, success) == r
Return(c, r, success) == held' = [held EXCEPT ![c] = Append(@, Returned(r, success))]

Keeps(r, f) == r.file = f /\ r.original # Empty

(* readFile() does not look at the stream after rdbuf(): a read that breaks off is   *)
(* a success with what came before.  Of a file the caller has no text of, that is    *)
(* taken for the user's.                                                             *)
TextsRead(f) == IF disk[f] = Empty THEN {Empty} ELSE {disk[f], CutOff}
DisturbedBy(c, f, original) ==
    IF \/ \E d \in Callers \ {c} : Uses(d, f)
       \/ original \notin {Empty, disk[f]} /\ \A i \in DOMAIN held[c] : ~Keeps(held[c][i], f)
    THEN disturbed \cup {f} ELSE disturbed

(* stubFunction(), up to the write.                                                  *)
NotStubbed(c, f) ==      \* the file cannot be opened, or has no such function
    /\ Idle(c) /\ Len(held[c]) < MaxStubs
    /\ \E original \in {Empty} \cup TextsRead(f) :
          /\ Return(c, Result(f, original), FALSE)
          /\ disturbed' = DisturbedBy(c, f, original)
    /\ UNCHANGED <<disk, own, call, alive>>
StubFunction(c, f, fn) ==
    /\ Idle(c) /\ Len(held[c]) < MaxStubs
    /\ \E original \in TextsRead(f) \ {Empty} :
          /\ call' = [call EXCEPT ![c] =
                <<Writing("stub", f, original, Text(original.edit, original.stubs \cup {fn}), "open")>>]
          /\ disturbed' = DisturbedBy(c, f, original)
    /\ UNCHANGED <<disk, own, held, alive>>

(* restoreFile(): an empty original is refused.                                      *)
RestoreFile(c) ==
    /\ Idle(c) /\ held[c] # <<>>
    /\ LET last == Last(held[c])
       IN  IF last.original = Empty
           THEN held' = [held EXCEPT ![c] = Front(@)] /\ UNCHANGED call
           ELSE /\ call' = [call EXCEPT ![c] = <<Writing("restore", last.file, last.original, last.original, "open")>>]
                /\ UNCHANGED held
    /\ UNCHANGED <<disk, own, alive, disturbed>>

(* writeFile().  A stub that was not written is returned as a failure; a restore     *)
(* that was not written can be called again.                                         *)
Finish(c, success) ==
    /\ call' = [call EXCEPT ![c] = <<>>]
    /\ IF call[c][1].does = "stub" THEN Return(c, Result(call[c][1].file, call[c][1].original), success)
       ELSE held' = IF success THEN [held EXCEPT ![c] = Front(@)] ELSE held
OpenFails(c) ==
    /\ c \in alive /\ call[c] # <<>> /\ call[c][1].step = "open"
    /\ Finish(c, FALSE)
    /\ UNCHANGED <<disk, own, alive, disturbed>>
OpenForWriting(c) ==
    /\ c \in alive /\ call[c] # <<>> /\ call[c][1].step = "open"
    /\ disk' = [disk EXCEPT ![call[c][1].file] = Empty]
    /\ call' = [call EXCEPT ![c][1].step = "write"]
    /\ UNCHANGED <<own, held, alive, disturbed>>
WriteText(c) ==
    /\ c \in alive /\ call[c] # <<>> /\ call[c][1].step = "write"
    /\ disk' = [disk EXCEPT ![call[c][1].file] = call[c][1].text]
    /\ Finish(c, TRUE)
    /\ UNCHANGED <<own, alive, disturbed>>
WriteFails(c) ==      \* what is left in the buffer is written after good() has been asked
    /\ c \in alive /\ call[c] # <<>> /\ call[c][1].step = "write"
    /\ disk' = [disk EXCEPT ![call[c][1].file] = CutOff]
    /\ \E noticed \in BOOLEAN :
          /\ Finish(c, ~noticed)
          /\ disturbed' = IF noticed THEN disturbed ELSE disturbed \cup {call[c][1].file}
    /\ UNCHANGED <<own, alive>>

Die(c) == c \in alive /\ alive' = alive \ {c} /\ UNCHANGED <<disk, own, held, call, disturbed>>

UserEdits(f) ==
    /\ Whole(disk[f]) /\ disk[f].edit < MaxEdits
    /\ disk' = [disk EXCEPT ![f].edit = @ + 1]
    /\ own' = [own EXCEPT ![f].edit = disk[f].edit + 1]
    /\ disturbed' = IF \E c \in Callers : Uses(c, f) THEN disturbed \cup {f} ELSE disturbed
    /\ UNCHANGED <<held, call, alive>>

Next ==
    \/ \E c \in Callers, f \in Files : NotStubbed(c, f) \/ \E fn \in Functions : StubFunction(c, f, fn)
    \/ \E c \in Callers : \/ RestoreFile(c) \/ OpenFails(c) \/ OpenForWriting(c)
                          \/ WriteText(c) \/ WriteFails(c) \/ Die(c)
    \/ \E f \in Files : UserEdits(f)
Spec == Init /\ [][Next]_vars

--------------------------------------------------------------------------------
Texts == [edit : Nat, stubs : SUBSET (Functions \cup {"empty", "cut off"})]
Results == [file : Files, original : Texts]
Writings == [does : {"stub", "restore"}, file : Files, original : Texts, text : Texts, step : {"open", "write"}]
(* Every variable stays in its type. *)
TypeOK ==
    /\ disk \in [Files -> Texts] /\ own \in [Files -> Texts]
    /\ held \in [Callers -> Seq(Results)]
    /\ call \in [Callers -> Seq(Writings)] /\ \A c \in Callers : Len(call[c]) <= 1
    /\ alive \subseteq Callers /\ disturbed \subseteq Files

(* What is in a file after a caller has undone all it did to it is the first text it *)
(* read there: an empty original is never written.                                   *)
FirstKept(records, f, text) ==
    \E i \in DOMAIN records :
        /\ Keeps(records[i], f) /\ records[i].original = text
        /\ \A j \in DOMAIN records : j < i => ~Keeps(records[j], f)
PutsBack(c, f, text) == FirstKept(held[c] \o call[c], f, text)
(* A file has the user's text, or one caller that is not through with it can put it  *)
(* back ("Preserve original content for restoration", CppStubGenerator.cpp:10): a    *)
(* file that cannot be read, an open or a write that fails, a stub of a stubbed file *)
(* and a second try lose nothing, nor does a read of a stubbed file that breaks off. *)
(* Three things do: the death of that caller, whose memory is the one place the text *)
(* is in; a first read that broke off (:49-50); and a write that failed when its     *)
(* stream was closed (:58); the last two report success.  And nothing is said of a   *)
(* file that is edited or stubbed by another caller meanwhile.                       *)
TextIsNeverLost ==
    \A f \in Files \ disturbed :
        disk[f] # own[f] => \E c \in Callers : PutsBack(c, f, own[f])
================================================================================
