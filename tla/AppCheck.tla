--------------------------------- MODULE AppCheck ---------------------------------
(* topo::app::check() (runtime/include/topo/app_check.h): a project is written to a  *)
(* directory below the system's temporary one, which a counter of the process names, *)
(* and topo-check is run there.  Calls of threads and of processes take turns        *)
(* between any two steps; reads, writes and the making of the directory may fail.    *)
EXTENDS Integers, Sequences

CONSTANTS
    Calls,         \* calls of check(), each with a graph of its own
    Processes,
    Dirs, Bases,   \* a source is a path: its directory and its basename
    MaxSources,    \* bound: sources of a call
    Leftovers,     \* directories that processes which have ended may have left
    MaxTroubles,   \* bound: reads and writes that fail
    NoNumber

ASSUME LeftoverAssumption == Leftovers \subseteq Nat
ASSUME TroubleAssumption == MaxSources \in Nat /\ MaxTroubles \in Nat
ASSUME NumberAssumption == NoNumber \notin Nat

SourcePaths == [dir : Dirs, base : Bases]
Jobs == [process : Processes, sources : UNION {[1 .. n -> SourcePaths] : n \in 0 .. MaxSources}]

(* A file of the directory has a path below it, and what was written there: a call   *)
(* stands for what is printed of its graph, a source for its text.                   *)
Toml == <<"Topo.toml">>
Topo == <<"topo", "app.topo">>
InSrc(base) == <<"src", base>>
NoFiles == [path \in {} |-> ""]
OldFiles == [path \in {<<"src", "old.cpp">>} |-> "old"]

VARIABLES
    job,           \* per call: its process and its sources
    left,          \* the directories that were there at the start
    counter,       \* g_counter of each process
    nonce,         \* per call: what it took from the counter
    stage,         \* per call: "ready", "numbered", "writing", "threw", "done"
    written,       \* per call: how many files it has written
    directory,     \* by number: the files in it
    checked,       \* per call: the files that topo-check read
    troubled,      \* ghost: calls for which a read or a write failed
    troubles
checkVars == <<job, left, counter, nonce, stage, written, directory, checked, troubled, troubles>>

--------------------------------------------------------------------------------
(* The files of a call in the order it writes them; basename_of() drops directories. *)
Project(c) ==
    <<[path |-> Toml, body |-> c], [path |-> Topo, body |-> c]>>
    \o [i \in DOMAIN job[c].sources |-> [path |-> InSrc(job[c].sources[i].base), body |-> job[c].sources[i]]]

CountsOnlyCalls(c) == 0      \* mutant: the counter stays where it is
Nonce(c) == counter[job[c].process]
TakeNumber(c) ==
    /\ stage[c] = "ready" /\ stage' = [stage EXCEPT ![c] = "numbered"]
    /\ nonce' = [nonce EXCEPT ![c] = Nonce(c)]
    /\ counter' = [counter EXCEPT ![job[c].process] = @ + 1]
    /\ UNCHANGED <<job, left, written, directory, checked, troubled, troubles>>

(* create_directories() takes a directory that is there as it is.  The second or     *)
(* the third call may throw when the first has made it.                              *)
Made(c) == [n \in DOMAIN directory \cup {nonce[c]} |-> IF n \in DOMAIN directory THEN directory[n] ELSE NoFiles]
CreateDirectories(c) ==
    /\ stage[c] = "numbered"
    /\ \/ /\ stage' = [stage EXCEPT ![c] = "writing"]
          /\ directory' = Made(c)
       \/ /\ stage' = [stage EXCEPT ![c] = "threw"]
          /\ directory' \in {directory, Made(c)}
    /\ UNCHANGED <<job, left, counter, nonce, written, checked, troubled, troubles>>

(* write_file() over what is there.  Nobody asks the streams whether they failed: a  *)
(* source that cannot be opened is an empty file, as is one that cannot be written   *)
(* once it is open; one that cannot be opened stays as it was.                       *)
write_file(files, path, body) == [p \in DOMAIN files \cup {path} |-> IF p = path THEN body ELSE files[p]]
File(c) == Project(c)[written[c] + 1]
WriteFile(c) ==
    /\ stage[c] = "writing" /\ written[c] < Len(Project(c))
    /\ written' = [written EXCEPT ![c] = @ + 1]
    /\ directory' = [directory EXCEPT ![nonce[c]] = write_file(@, File(c).path, File(c).body)]
    /\ UNCHANGED <<job, left, counter, nonce, stage, checked, troubled, troubles>>
FailToWrite(c) ==
    /\ stage[c] = "writing" /\ written[c] < Len(Project(c))
    /\ troubles < MaxTroubles /\ troubles' = troubles + 1
    /\ troubled' = troubled \cup {c}
    /\ written' = [written EXCEPT ![c] = @ + 1]
    /\ \/ directory' = [directory EXCEPT ![nonce[c]] = write_file(@, File(c).path, "")]
       \/ UNCHANGED directory
    /\ UNCHANGED <<job, left, counter, nonce, stage, checked>>

(* topo-check reads whatever is there; nothing is removed. *)
RunCheck(c) ==
    /\ stage[c] = "writing" /\ written[c] = Len(Project(c))
    /\ stage' = [stage EXCEPT ![c] = "done"]
    /\ checked' = [checked EXCEPT ![c] = directory[nonce[c]]]
    /\ UNCHANGED <<job, left, counter, nonce, written, directory, troubled, troubles>>

CheckInit ==
    /\ job \in [Calls -> Jobs] /\ left \in SUBSET Leftovers
    /\ directory = [n \in left |-> OldFiles]
    /\ counter = [p \in Processes |-> 0]
    /\ nonce = [c \in Calls |-> NoNumber] /\ stage = [c \in Calls |-> "ready"]
    /\ written = [c \in Calls |-> 0] /\ checked = [c \in Calls |-> NoFiles]
    /\ troubled = {} /\ troubles = 0
CheckNext ==
    \E c \in Calls : TakeNumber(c) \/ CreateDirectories(c) \/ WriteFile(c) \/ FailToWrite(c) \/ RunCheck(c)
CheckSpec == CheckInit /\ [][CheckNext]_checkVars

--------------------------------------------------------------------------------
(* Every variable stays in its type; a call that writes has its directory. *)
CheckTypeOK ==
    /\ job \in [Calls -> Jobs] /\ left \subseteq Nat /\ troubled \subseteq Calls
    /\ counter \in [Processes -> Nat] /\ nonce \in [Calls -> Nat \cup {NoNumber}]
    /\ stage \in [Calls -> {"ready", "numbered", "writing", "threw", "done"}]
    /\ written \in [Calls -> Nat] /\ troubles \in 0 .. MaxTroubles
    /\ DOMAIN checked = Calls
    /\ \A c \in Calls : /\ stage[c] = "ready" <=> nonce[c] = NoNumber
                        /\ stage[c] = "writing" => nonce[c] \in DOMAIN directory

(* topo-check is run on the graph and on all sources of the call, and on nothing     *)
(* else, whatever calls of other threads do meanwhile; but another process may have  *)
(* the same number, the directory may have been there (app_check.h:61 has it unique  *)
(* to the process), the second of two sources of one basename replaces the first,    *)
(* and a file that cannot be read or written is noticed by nobody.                   *)
Collides(c) == \E d \in Calls : job[d].process # job[c].process /\ nonce[d] = nonce[c]
Undisturbed(c) == ~Collides(c) /\ nonce[c] \notin left /\ c \notin troubled
DifferentNames(sources) == \A i, j \in DOMAIN sources : sources[i].base = sources[j].base => i = j
PathsOf(c) == {Project(c)[i].path : i \in DOMAIN Project(c)}
ChecksItsOwnProject ==
    \A c \in Calls : stage[c] = "done" /\ Undisturbed(c) /\ DifferentNames(job[c].sources) =>
        /\ DOMAIN checked[c] = PathsOf(c)
        /\ \A i \in DOMAIN Project(c) : checked[c][Project(c)[i].path] = Project(c)[i].body
================================================================================
