---------------------------- MODULE NativeFileRead -----------------------------
(* readCppAuditNativeFile() and readCppAuditNativeDirectory()                   *)
(* (topo-check/extractor/CppAuditNativeFile.cpp), the POSIX variants: open an   *)
(* object, ask the kernel where it is, authorize that place, read it within a   *)
(* bound, and compare the object's state and place before and after.  Other     *)
(* processes write, rename, link and unlink between any two system calls, so    *)
(* every system call is a step of its own.                                      *)
EXTENDS Integers, Sequences, FiniteSets

CONSTANTS
    Places,       \* physical paths
    Regular, Directories, Special,     \* inodes, by file type
    Pseudo,       \* regular files whose reported size is not their length
    Reports,      \* and the size those report
    Texts,        \* contents of a regular file: sequences of bytes
    Listings,     \* contents of a directory: sequences of names, none twice
    Authorized,   \* places under a root of the policy
    Granted,      \* places granted as exact files
    MaxBytes, MaxEntries,
    Chunk,        \* 64 KiB
    MaxMoves,     \* bound: moves of other processes in one call
    None

Inodes == Regular \cup Directories \cup Special

ASSUME InodeAssumption ==
    /\ Regular \cap Directories = {} /\ Regular \cap Special = {}
    /\ Directories \cap Special = {} /\ Pseudo \subseteq Regular
ASSUME ReportAssumption == Reports \in [Pseudo -> Int]
ASSUME PolicyAssumption == Authorized \cup Granted \subseteq Places /\ IsFiniteSet(Places)
ASSUME ContentAssumption == \A t \in Texts \cup Listings : t \in Seq(Nat)
ASSUME LimitAssumption ==
    MaxBytes \in Nat /\ MaxEntries \in Nat /\ Chunk \in Nat \ {0} /\ MaxMoves \in Nat
Errors == {"native", "argument", "directory", "special", "deleted", "denied",
           "large", "long", "changed"}
Gone == "deleted"      \* the kernel's " (deleted)" suffix

ASSUME NoneAssumption == None \notin Inodes \cup Places /\ Gone \notin Places

VARIABLES
    link,      \* the machine: the place the caller's spelling resolves to
    at,        \* the machine: place -> inode
    data,      \* the machine: inode -> contents
    stamp,     \* the machine: inode -> mtime, ctime and mode
    moves,
    want,      \* which of the two functions was called
    pc,        \* the next system call, or "ok" or an error when it has returned
    ino,       \* the open descriptor
    home,      \* the machine: where the kernel says the descriptor's object is
    before, physical,     \* before, *physical
    got,       \* bytes or entries
    tailError, \* tailError
    held, unseen, \* history of the open object since the first fstat: its
                  \* contents, and whether a write left its timestamps alone
    places        \* history of the descriptor: the places it has been at

machine == <<link, at, data, stamp, moves, home, held, places, unseen>>
local == <<before, physical, got, tailError>>
vars == <<link, at, data, stamp, moves, home, held, places, unseen, want, pc, ino,
          before, physical, got, tailError>>

--------------------------------------------------------------------------------
StatSize(i) == IF i \in Pseudo THEN Reports[i]
               ELSE IF i \in Regular THEN Len(data[i]) ELSE 0
Links(i) == Cardinality({q \in Places : at[q] = i})

(* The fields sameObjectState() compares.  A directory's size is one of them    *)
(* but follows its contents, whose changes move its timestamps.                 *)
ObjectState == [ino |-> ino, size |-> StatSize(ino), links |-> Links(ino), stamp |-> stamp[ino]]

(* Mutant: the object is taken to be where the spelling led. *)
ResolvesSpelling == link
physicalPath == home

authorized(q) == q \in Authorized \/ (want = "file" /\ q \in Granted)

(* Mutant: a last fstat that looks only at the size. *)
SameSize(a, b) == a.size = b.size
sameObjectState(a, b) == a = b

Return(result) == pc' = result

--------------------------------------------------------------------------------
(* The two functions share everything but the loop in the middle. *)

Reject ==
    /\ pc = "open"
    /\ Return("argument")
    /\ UNCHANGED <<machine, local, want, ino>>

Open ==
    /\ pc = "open"
    /\ link # None /\ at[link] # None
    /\ want = "directory" => at[link] \in Directories     \* O_DIRECTORY
    /\ ino' = at[link] /\ home' = link /\ places' = {link}
    /\ pc' = "fstat"
    /\ UNCHANGED <<link, at, data, stamp, moves, held, unseen, local, want>>

(* open() found nothing, or a system call failed for a reason of its own.  A    *)
(* failing readdir() does not end the call (ListEnd).                           *)
NativeError ==
    /\ \/ pc \in {"open", "fstat", "path", "last fstat"}
       \/ pc = "read" /\ (want = "file" \/ got = << >>)      \* read, fdopendir
    /\ Return("native")
    /\ UNCHANGED <<machine, local, want, ino>>

(* A file must be regular and say how long it is. *)
Sized(i) == i \in Regular /\ StatSize(i) >= 0

FstatBefore ==
    LET fits == IF want = "file" THEN Sized(ino) ELSE ino \in Directories IN
    /\ pc = "fstat"
    /\ \/ ~fits /\ ino \in Directories /\ Return("directory") /\ UNCHANGED before
       \/ ~fits /\ ino \notin Directories /\ Return("special") /\ UNCHANGED before
       \/ fits /\ before' = ObjectState /\ pc' = "path"
    /\ held' = {data[ino]} /\ unseen' = FALSE
    /\ UNCHANGED <<link, at, data, stamp, moves, home, places, physical, got, tailError, want, ino>>

(* Resolve the open object, authorize it, and bound the allocation. *)
AuthorizePath ==
    /\ pc = "path"
    /\ \/ physicalPath = Gone /\ Return("deleted") /\ UNCHANGED physical
       \/ /\ physicalPath # Gone /\ ~authorized(physicalPath)
          /\ Return("denied") /\ UNCHANGED physical
       \/ /\ physicalPath # Gone /\ authorized(physicalPath)
          /\ want = "file" /\ before.size > MaxBytes
          /\ Return("large") /\ UNCHANGED physical
       \/ /\ physicalPath # Gone /\ authorized(physicalPath)
          /\ want = "file" => before.size <= MaxBytes
          /\ physical' = physicalPath
          /\ pc' = "read"
    /\ UNCHANGED <<machine, before, got, tailError, want, ino>>

(* One read().  It may return fewer bytes than asked for.  Once the expected    *)
(* size has arrived a single byte is asked for, to see the end of the file.     *)
Ahead == SubSeq(data[ino], Len(got) + 1, Len(data[ino]))
Minimum(a, b) == IF a < b THEN a ELSE b

Read ==
    LET remaining == before.size - Len(got) IN
    /\ pc = "read" /\ want = "file"
    /\ \/ /\ Ahead = << >> /\ remaining # 0       \* shorter than it said
          /\ Return("changed") /\ UNCHANGED got
       \/ /\ Ahead = << >> /\ remaining = 0
          /\ pc' = "last fstat" /\ UNCHANGED got
       \/ /\ Ahead # << >> /\ remaining = 0       \* longer than it said
          /\ Return("changed") /\ UNCHANGED got
       \/ /\ Ahead # << >> /\ remaining # 0
          /\ \E n \in 1..Minimum(remaining, Minimum(Chunk, Len(Ahead))) :
                got' = got \o SubSeq(Ahead, 1, n)
          /\ UNCHANGED pc
    /\ UNCHANGED <<machine, before, physical, tailError, want, ino>>

(* readdir() returns, in any order, every name that stays while it runs, and    *)
(* may or may not return one that comes or goes meanwhile.                      *)
Names(c) == {c[n] : n \in 1..Len(c)}
Ever == UNION {Names(c) : c \in held}
Always == {name \in Ever : \A c \in held : name \in Names(c)}

List ==
    /\ pc = "read" /\ want = "directory"
    /\ \E name \in Ever \ Names(got) :
          \/ Return("long") /\ UNCHANGED got         \* the path limit
          \/ Len(got) >= MaxEntries /\ Return("large") /\ UNCHANGED got
          \/ Len(got) < MaxEntries /\ got' = Append(got, name) /\ UNCHANGED pc
    /\ UNCHANGED <<machine, before, physical, tailError, want, ino>>

ListEnd ==
    /\ pc = "read" /\ want = "directory"
    /\ \/ tailError' = TRUE
       \/ Always \subseteq Names(got) /\ UNCHANGED tailError
    /\ pc' = "last fstat"
    /\ UNCHANGED <<machine, before, physical, got, want, ino>>

FstatAfter ==
    /\ pc = "last fstat"
    /\ \/ ~sameObjectState(before, ObjectState) /\ Return("changed")
       \/ sameObjectState(before, ObjectState) /\ pc' = "last path"
    /\ UNCHANGED <<machine, local, want, ino>>

(* The code compares the two statuses and the two paths in one expression; a    *)
(* failing readlink fails it as well.                                           *)
PathAfter ==
    /\ pc = "last path"
    /\ \/ Return("changed")
       \/ physicalPath = physical /\ Return("ok")
    /\ UNCHANGED <<machine, local, want, ino>>

--------------------------------------------------------------------------------
(* Other processes. *)

Reading == pc \in {"path", "read", "last fstat"}

(* A write, a truncation, a new entry.  It moves the timestamps of its object,  *)
(* unless the clock has not ticked since the last move of them.                 *)
Write ==
    \E i \in Regular \cup Directories, c \in Texts \cup Listings, tick \in {0, 1} :
        /\ c \in (IF i \in Regular THEN Texts ELSE Listings) /\ c # data[i]
        /\ data' = [data EXCEPT ![i] = c]
        /\ stamp' = [stamp EXCEPT ![i] = @ + tick]
        /\ held' = IF i = ino /\ Reading THEN held \cup {c} ELSE held
        /\ unseen' = (unseen \/ (i = ino /\ Reading /\ tick = 0))
        /\ UNCHANGED <<link, at, home, places>>

Rename ==
    \E q, r \in Places :
        LET h == IF home = q THEN r ELSE IF home = r THEN Gone ELSE home IN
        /\ q # r /\ at[q] # None
        /\ at' = [at EXCEPT ![r] = at[q], ![q] = None]
        /\ home' = h
        /\ places' = IF h \in Places THEN places \cup {h} ELSE places
        /\ UNCHANGED <<link, data, stamp, held, unseen>>

HardLink ==
    \E q, r \in Places :
        /\ at[q] \in Regular /\ at[r] = None
        /\ at' = [at EXCEPT ![r] = at[q]]
        /\ UNCHANGED <<link, home, data, stamp, held, places, unseen>>

Unlink ==
    \E q \in Places :
        /\ at[q] # None
        /\ at' = [at EXCEPT ![q] = None]
        /\ home' = IF home = q THEN Gone ELSE home
        /\ UNCHANGED <<link, data, stamp, held, places, unseen>>

Symlink == link' \in Places \cup {None} /\ UNCHANGED <<at, home, data, stamp, held, places, unseen>>

OthersMove ==
    /\ moves < MaxMoves /\ moves' = moves + 1
    /\ pc \in {"open", "fstat", "path", "read", "last fstat", "last path"}
    /\ Write \/ Rename \/ HardLink \/ Unlink \/ Symlink
    /\ UNCHANGED <<local, want, pc, ino>>

--------------------------------------------------------------------------------
NoStatus == [ino |-> None, size |-> 0, links |-> 0, stamp |-> 0]

Init ==
    /\ link \in Places \cup {None}
    /\ at \in [Places -> Inodes \cup {None}]
    /\ data \in [Inodes -> Texts \cup Listings]
    /\ \A i \in Inodes : data[i] \in (IF i \in Directories THEN Listings ELSE Texts)
    /\ stamp = [i \in Inodes |-> 0]
    /\ moves = 0
    /\ want \in {"file", "directory"} /\ pc = "open" /\ ino = None /\ home = None
    /\ before = NoStatus /\ physical = None /\ got = << >> /\ tailError = FALSE
    /\ held = {} /\ places = {} /\ unseen = FALSE

Next ==
    \/ Reject \/ Open \/ NativeError \/ FstatBefore \/ AuthorizePath
    \/ Read \/ List \/ ListEnd \/ FstatAfter \/ PathAfter
    \/ OthersMove

Spec == Init /\ [][Next]_vars

--------------------------------------------------------------------------------
Calls == {"open", "fstat", "path", "read", "last fstat", "last path"}
States == [ino : Inodes \cup {None}, size : Nat, links : Nat, stamp : Nat]

TypeOK ==
    /\ link \in Places \cup {None}
    /\ at \in [Places -> Inodes \cup {None}]
    /\ data \in [Inodes -> Texts \cup Listings]
    /\ \A i \in Regular : data[i] \in Texts
    /\ \A i \in Directories : data[i] \in Listings
    /\ stamp \in [Inodes -> Nat] /\ moves \in 0..MaxMoves
    /\ want \in {"file", "directory"} /\ pc \in Calls \cup Errors \cup {"ok"}
    /\ ino \in Inodes \cup {None} /\ home \in Places \cup {None, Gone}
    /\ before \in States /\ physical \in Places \cup {None}
    /\ got \in Seq(Nat) /\ held \subseteq Texts \cup Listings
    /\ places \subseteq Places /\ unseen \in BOOLEAN /\ tailError \in BOOLEAN

(* No byte of an object and no name of a directory is read unless that object   *)
(* itself, and not only what the spelling once led to, was seen at a place the  *)
(* policy grants ("authorize that object", CppAuditNativeFile.h:26), whatever   *)
(* is renamed, linked or retargeted around the calls.                           *)
ReadsOnlyAuthorizedObjects ==
    got # << >> => \E q \in places : authorized(q)

(* A successful read is one instant of the file: if no write slipped between    *)
(* two ticks of the clock, the bytes are what the object held from the first    *)
(* fstat to the last, and a listing with no tail error likewise.  The header    *)
(* (CppAuditNativeFile.h:28) excludes the write no timestamp shows; but even    *)
(* then, and of a pseudo file, a success holds exactly the size its status      *)
(* reports, and never more was read than the caller allowed.                    *)
Whole(c) == IF want = "file" THEN got = c ELSE Names(got) = Names(c)
ReadIsOneInstant ==
    /\ pc = "ok" /\ ~unseen /\ ~tailError => \E c \in held : held = {c} /\ Whole(c)
    /\ pc = "ok" /\ want = "file" => Len(got) = before.size
    /\ Len(got) <= IF want = "file" THEN MaxBytes ELSE MaxEntries
================================================================================
