---------------------------- MODULE AuditFileSystem ----------------------------
(* CppAuditFileSystem (topo-check/extractor/CppAuditFileSystem.{h,cpp}): the    *)
(* virtual file system an audit frontend parses through.  It records the first  *)
(* result of every query and answers from the record afterwards.  The disk      *)
(* below it belongs to other processes and moves between any two system calls;  *)
(* the recorder has to notice every move that would make its record incoherent  *)
(* and then fail for good.                                                      *)
(*                                                                              *)
(* One thread queries the recorder (class comment, CppAuditFileSystem.h:33), so *)
(* only the disk interleaves.  A status query makes three system calls and is   *)
(* three steps; content and directory reads are one step here, in which the     *)
(* disk may move under the reader (NativeFileRead models their inside).         *)
EXTENDS Integers, FiniteSets

CONSTANTS
    Paths,          \* spellings a client asks about, already absolute
    Physicals,      \* physical paths a spelling can resolve to
    Files, Dirs,    \* identities (device, inode) of regular files and directories
    Stamps,         \* everything else a status compares: mtime, mode, owner
    Contents,       \* file bytes, or the entries of a directory
    Size,           \* bytes (entries) of each content
    Authorized,     \* physical paths the read policy grants
    MaxQueries, MaxFileBytes, MaxTotalBytes, MaxStringBytes, MaxEntries,
    MaxMoves,       \* bound: moves of the disk in one behaviour
    None

Nodes == Files \cup Dirs

ASSUME SizeAssumption   == Size \in [Contents -> Nat]
ASSUME NodeAssumption   == Files \cap Dirs = {}
ASSUME PolicyAssumption == Authorized \subseteq Physicals
ASSUME LimitAssumption  ==
    /\ MaxQueries \in Nat /\ MaxFileBytes \in Nat /\ MaxTotalBytes \in Nat
    /\ MaxStringBytes \in Nat /\ MaxEntries \in Nat /\ MaxMoves \in Nat
ASSUME NoneAssumption   == None \notin Physicals \cup Contents

Kinds == {"Status", "Open", "RealPath", "Directory", "Locality"}
Keys  == Kinds \X Paths

(* ENOENT and ENOTDIR: the path names nothing.  ELOOP stands for every other    *)
(* error of path resolution.                                                    *)
Lost  == {"ENOENT", "ENOTDIR"}
Errors == Lost \cup {"ok", "ELOOP", "EISDIR", "EACCES", "EFBIG", "ECHANGED"}
ASSUME ErrorAssumption == Physicals \cap (Lost \cup {"ELOOP"}) = {}    \* a place is no error

Reasons == {"limit", "changed", "denied", "directory", "sealed", "argument"}

StatusSet == [node : Nodes, stamp : Stamps, size : Nat]
NoStatus  == [node |-> None]

Answers == [err : Errors, status : StatusSet \cup {NoStatus},
            phys : Physicals \cup {None}, data : Contents \cup {None}]
Answer(e, s, q, d) == [err |-> e, status |-> s, phys |-> q, data |-> d]
Failed(err) == Answer(err, NoStatus, None, None)

VARIABLES
    target, node, stamp, data,    \* the machine's files, not the program's state:
                 \* what a spelling resolves to, the file at a physical path,
                 \* its metadata and its bytes
    moves,       \* how often the disk has moved
    obs,         \* indices_ and observations_: key -> recorded answer
    statuses,    \* statuses_: path -> first metadata seen
    identities,  \* identities_: node -> snapshot of the first read
    captured, strings, entries,   \* capturedBytes_, stringBytes_, directoryEntries_
    failure,     \* failure_, as the class of its message
    sealed,      \* sealed_
    pending      \* a status query between its system calls

disk == <<target, node, stamp, data>>
record == <<obs, statuses, identities, captured, strings, entries>>
vars == <<target, node, stamp, data, moves, obs, statuses, identities, captured, strings, entries,
          failure, sealed, pending>>

Idle == [path |-> None]
Pendings == [path : Paths, status : StatusSet, phys : Physicals \cup {None}]

--------------------------------------------------------------------------------
(* What the disk answers at this instant. *)

DiskOK ==
    /\ target \in [Paths -> Physicals \cup Lost \cup {"ELOOP"}]
    /\ node \in [Physicals -> Nodes]
    /\ stamp \in [Nodes -> Stamps]
    /\ data \in [Nodes -> Contents]

Resolves(p) == target[p] \in Physicals
NodeAt(p)   == node[target[p]]
StatusAt(p) == [node  |-> NodeAt(p), stamp |-> stamp[NodeAt(p)],
                size  |-> Size[data[NodeAt(p)]]]

--------------------------------------------------------------------------------
(* The recorder's own helpers. *)

complete == failure = "none"
Recorded(k, p) == <<k, p>> \in DOMAIN obs

Min2(a, b) == IF a < b THEN a ELSE b
Remaining(limit, used) == limit - Min2(used, limit)

ChargesOneTooMany(used, amount) == amount <= Remaining(MaxStringBytes, used) + 1    \* mutant
Charges(used, amount) == amount <= Remaining(MaxStringBytes, used)
NameCharge == 8

Fail(reason) == failure' = IF failure = "none" THEN reason ELSE failure

(* Mutant: the snapshot read under another spelling is not compared. *)
ConsistentPathOnly(p, s) == p \in DOMAIN statuses => statuses[p] = s

(* consistent(): the metadata agrees with the path's first status and with the  *)
(* snapshot of the same file read under any other spelling.                     *)
consistent(p, s) ==
    /\ p \in DOMAIN statuses => statuses[p] = s
    /\ s.node \in DOMAIN identities => identities[s.node].status = s

Remember(f, x, v) == [y \in DOMAIN f \cup {x} |-> IF y \in DOMAIN f THEN f[y] ELSE v]

(* The loop at the top of record(): what earlier answers for this spelling      *)
(* already settle.  An ENOTDIR from a listing may come from a regular file and  *)
(* settles nothing.  PriorNegatives and PriorPhysicals are sets because the     *)
(* loop may meet several; while the recorder is complete each has at most one   *)
(* member (OneFileBehindEachPath).                                              *)
Answered(p) == {k \in Kinds \ {"Locality"} : Recorded(k, p)}
Negative(k, a) == a.err = "ENOENT" \/ (a.err = "ENOTDIR" /\ k # "Directory")

PriorNegatives(p) ==
    {obs[<<k, p>>].err : k \in {j \in Answered(p) : Negative(j, obs[<<j, p>>])}}
PriorPhysicals(p) ==
    {obs[<<k, p>>].phys : k \in {j \in Answered(p) : obs[<<j, p>>].err = "ok"}} \ {None}

(* Mutants: no comparison of physical targets; a listing's ENOTDIR taken for a  *)
(* disappearance even of a regular file.                                        *)
NeverRetargeted(p, a) == FALSE
DisappearedEvenFile(k, p, a, known) ==
    (PriorPhysicals(p) # {} \/ p \in DOMAIN known) /\ a.err \in Lost

(* The tests that end record(): an answer that contradicts an earlier positive  *)
(* one is replaced by a failure.  known is statuses_ as record() leaves it.     *)
Retargeted(p, a) == a.err = "ok" /\ a.phys # None /\ PriorPhysicals(p) \ {a.phys} # {}
Disappeared(k, p, a, known) ==
    /\ PriorPhysicals(p) # {} \/ p \in DOMAIN known
    /\ \/ a.err = "ENOENT"
       \/ /\ a.err = "ENOTDIR"
          /\ k = "Directory" => p \in DOMAIN known /\ known[p].node \in Dirs

(* Store the answer of query k at p.  charge is what record() adds to the       *)
(* string budget, on top of used.                                               *)
Store(k, p, a, used, charge) ==
    LET bad == Retargeted(p, a) \/ Disappeared(k, p, a, statuses')
    IN  IF Charges(used, charge)
        THEN /\ obs' = Remember(obs, <<k, p>>,
                                  IF bad THEN Failed("ECHANGED") ELSE a)
             /\ strings' = used + charge
             /\ IF bad THEN Fail("changed") ELSE UNCHANGED failure
        ELSE /\ obs' = Remember(obs, <<k, p>>, Failed("EFBIG"))
             /\ strings' = used
             /\ Fail("limit")

(* Store an answer that already failed the recorder. *)
StoreFailed(k, p, err, reason, used) ==
    /\ obs' = Remember(obs, <<k, p>>, Failed(err))
    /\ strings' = used
    /\ Fail(reason)

--------------------------------------------------------------------------------
(* query(): refuse, replay, or record.  A replay, and every call after a        *)
(* failure, changes nothing and is a stuttering step.                           *)

Asks(k, p) == pending = Idle /\ complete /\ ~Recorded(k, p)
AdmitsSealed(k, p) ==      \* mutant: seal() forgotten
    /\ Asks(k, p)
    /\ Cardinality(DOMAIN obs) < MaxQueries
    /\ Charges(strings, NameCharge)
Admits(k, p) ==
    /\ Asks(k, p) /\ ~sealed
    /\ Cardinality(DOMAIN obs) < MaxQueries
    /\ Charges(strings, NameCharge)

RefuseSealed(k, p) ==
    /\ Asks(k, p) /\ sealed
    /\ Fail("sealed")
    /\ UNCHANGED <<disk, moves, record, sealed, pending>>

RefuseLimit(k, p) ==
    /\ Asks(k, p) /\ ~sealed
    /\ Cardinality(DOMAIN obs) >= MaxQueries \/ ~Charges(strings, NameCharge)
    /\ Fail("limit")
    /\ UNCHANGED <<disk, moves, record, sealed, pending>>

(* absolute() rejects a spelling, or setCurrentWorkingDirectory() names another *)
(* directory.                                                                   *)
RefuseArgument ==
    /\ pending = Idle /\ complete
    /\ Fail("argument")
    /\ UNCHANGED <<disk, moves, record, sealed, pending>>

seal ==
    /\ pending = Idle /\ ~sealed
    /\ sealed' = TRUE
    /\ UNCHANGED <<disk, moves, record, failure, pending>>

(* An earlier negative answer for the spelling pins this one, without a system  *)
(* call.                                                                        *)
ReplayNegative(k, p) ==
    /\ Admits(k, p) /\ k # "Locality"
    /\ \E e \in PriorNegatives(p) : obs' = Remember(obs, <<k, p>>, Failed(e))
    /\ strings' = strings + NameCharge
    /\ UNCHANGED <<disk, moves, statuses, identities, captured, entries,
                   failure, sealed, pending>>

Fresh(k, p) == Admits(k, p) /\ (k = "Locality" \/ PriorNegatives(p) = {})
Quiet == UNCHANGED <<disk, moves>>

--------------------------------------------------------------------------------
(* Status: stat, realpath, stat again. *)

StatusReplay(p) ==
    /\ Fresh("Status", p) /\ p \in DOMAIN statuses
    /\ UNCHANGED <<statuses, identities, captured, entries, sealed, pending>> /\ Quiet
    /\ Store("Status", p, Answer("ok", statuses[p], None, None), strings + NameCharge, 0)

StatusBegin(p) ==
    /\ Fresh("Status", p) /\ p \notin DOMAIN statuses
    /\ UNCHANGED <<identities, captured, entries, sealed>> /\ Quiet
    /\ \/ /\ ~Resolves(p)
          /\ UNCHANGED <<statuses, pending>>
          /\ Store("Status", p, Failed(target[p]), strings + NameCharge, 0)
       \/ /\ Resolves(p) /\ ~consistent(p, StatusAt(p))
          /\ UNCHANGED <<statuses, pending>>
          /\ StoreFailed("Status", p, "ECHANGED", "changed", strings + NameCharge)
       \/ /\ Resolves(p) /\ consistent(p, StatusAt(p))
          /\ statuses' = Remember(statuses, p, StatusAt(p))
          /\ pending' = [path |-> p, status |-> StatusAt(p), phys |-> None]
          /\ strings' = strings + NameCharge
          /\ UNCHANGED <<obs, failure>>

StatusResolve ==
    LET p == pending.path IN
    /\ pending # Idle /\ pending.phys = None
    /\ UNCHANGED <<statuses, identities, captured, entries, sealed>> /\ Quiet
    /\ \/ /\ Resolves(p)
          /\ pending' = [pending EXCEPT !.phys = target[p]]
          /\ UNCHANGED <<obs, strings, failure>>
       \/ /\ ~Resolves(p)
          /\ pending' = Idle
          /\ Store("Status", p, Failed(target[p]), strings, 0)

(* Mutant: only the path of the finished query is cleared. *)
StatusRecheckHalfReset ==
    LET p == pending.path IN
    /\ pending # Idle /\ pending.phys # None
    /\ pending' = [pending EXCEPT !.path = None]
    /\ UNCHANGED <<statuses, identities, captured, entries, sealed>> /\ Quiet
    /\ Store("Status", p, Answer("ok", pending.status, pending.phys, None), strings, 1)

StatusRecheck ==
    LET p == pending.path IN
    /\ pending # Idle /\ pending.phys # None
    /\ pending' = Idle
    /\ UNCHANGED <<statuses, identities, captured, entries, sealed>> /\ Quiet
    /\ IF Resolves(p) /\ StatusAt(p) = pending.status
       THEN Store("Status", p, Answer("ok", pending.status, pending.phys, None), strings, 1)
       ELSE StoreFailed("Status", p, "ECHANGED", "changed", strings)

--------------------------------------------------------------------------------
(* Moves of the disk by other processes. *)

Retarget == \E p \in Paths, t \in Physicals \cup Lost :
    target' = [target EXCEPT ![p] = t] /\ UNCHANGED <<node, stamp, data>>
Replace  == \E q \in Physicals, n \in Nodes :
    node' = [node EXCEPT ![q] = n] /\ UNCHANGED <<target, stamp, data>>
Rewrite  == \E n \in Nodes, s \in Stamps, c \in Contents :
    /\ stamp' = [stamp EXCEPT ![n] = s]
    /\ data' = [data EXCEPT ![n] = c]
    /\ UNCHANGED <<target, node>>

Move ==
    /\ moves < MaxMoves
    /\ Retarget \/ Replace \/ Rewrite
    /\ disk' # disk
    /\ moves' = moves + 1

DiskMoves == Move /\ UNCHANGED <<record, failure, sealed, pending>>

--------------------------------------------------------------------------------
(* Open: a whole read of an authorized regular file, pinned. *)

Opening(p) ==
    /\ Fresh("Open", p)
    /\ Recorded("Status", p) => obs[<<"Status", p>>].err = "ok"

OpenReplay(p) ==
    /\ Fresh("Open", p) /\ Recorded("Status", p) /\ obs[<<"Status", p>>].err # "ok"
    /\ UNCHANGED <<statuses, identities, captured, entries, sealed, pending>> /\ Quiet
    /\ Store("Open", p, Failed(obs[<<"Status", p>>].err), strings + NameCharge, 0)

Readable(p) == Resolves(p) /\ NodeAt(p) \in Files /\ target[p] \in Authorized
ReadLimit == Min2(Remaining(MaxTotalBytes, captured), MaxFileBytes)

OpenError(p) ==
    /\ Opening(p) /\ ~Readable(p)
    /\ UNCHANGED <<statuses, identities, captured, entries, sealed, pending>> /\ Quiet
    /\ \/ /\ ~Resolves(p)
          /\ Store("Open", p, Failed(target[p]), strings + NameCharge, 0)
       \/ /\ Resolves(p) /\ NodeAt(p) \in Dirs
          /\ Store("Open", p, Failed("EISDIR"), strings + NameCharge, 0)
       \/ /\ Resolves(p) /\ NodeAt(p) \in Files
          /\ StoreFailed("Open", p, "EACCES", "denied", strings + NameCharge)

(* The file changed between the reader's first and last fstat. *)
OpenRaced(p) ==
    /\ Opening(p) /\ Readable(p) /\ Move
    /\ StoreFailed("Open", p, "ECHANGED", "changed", strings + NameCharge)
    /\ UNCHANGED <<statuses, identities, captured, entries, sealed, pending>>

OpenRefused(p) ==
    LET s == StatusAt(p)
        retargeted == /\ Recorded("RealPath", p)
                      /\ obs[<<"RealPath", p>>].phys # target[p]
        full == ~Charges(strings + NameCharge, 2)
    IN
    /\ Opening(p) /\ Readable(p)
    /\ UNCHANGED <<statuses, identities, captured, entries, sealed, pending>> /\ Quiet
    /\ \/ /\ s.size > ReadLimit
          /\ StoreFailed("Open", p, "EFBIG", "limit", strings + NameCharge)
       \/ /\ s.size <= ReadLimit /\ retargeted
          /\ StoreFailed("Open", p, "ECHANGED", "changed", strings + NameCharge)
       \/ /\ s.size <= ReadLimit /\ ~retargeted /\ full
          /\ StoreFailed("Open", p, "ECHANGED", "limit", strings + NameCharge)
       \/ /\ s.size <= ReadLimit /\ ~retargeted /\ ~full /\ ~consistent(p, s)
          /\ StoreFailed("Open", p, "ECHANGED", "changed", strings + NameCharge + 2)

OpenRead(p) ==
    LET s == StatusAt(p)
        bytes == data[NodeAt(p)]
        used == strings + NameCharge
    IN
    /\ Opening(p) /\ Readable(p)
    /\ s.size <= ReadLimit
    /\ Recorded("RealPath", p) => obs[<<"RealPath", p>>].phys = target[p]
    /\ Charges(used, 2) /\ consistent(p, s)
    /\ statuses' = Remember(statuses, p, s)
    /\ captured' = captured + s.size
    /\ identities' = Remember(identities, s.node, [status |-> s, bytes |-> bytes])
    /\ UNCHANGED <<entries, sealed, pending>> /\ Quiet
    /\ IF s.node \in DOMAIN identities /\ identities[s.node].bytes # bytes
       THEN StoreFailed("Open", p, "ECHANGED", "changed", used + 2)
       ELSE Store("Open", p, Answer("ok", s, target[p], bytes), used, 2)

--------------------------------------------------------------------------------
RealPath(p) ==
    /\ Fresh("RealPath", p)
    /\ UNCHANGED <<statuses, identities, captured, entries, sealed, pending>> /\ Quiet
    /\ \/ \E q \in PriorPhysicals(p) :
             Store("RealPath", p, Answer("ok", NoStatus, q, None), strings + NameCharge, 1)
       \/ /\ PriorPhysicals(p) = {} /\ Resolves(p)
          /\ Store("RealPath", p, Answer("ok", NoStatus, target[p], None),
                   strings + NameCharge, 1)
       \/ /\ PriorPhysicals(p) = {} /\ ~Resolves(p)
          /\ Store("RealPath", p, Failed(target[p]), strings + NameCharge, 0)

--------------------------------------------------------------------------------
(* Directory: one bounded enumeration of an authorized directory. *)

Listable(p) ==
    /\ Resolves(p) /\ NodeAt(p) \in Dirs /\ target[p] \in Authorized
    /\ StatusAt(p).size <= Remaining(MaxEntries, entries)

DirectoryError(p) ==
    /\ Fresh("Directory", p) /\ ~Listable(p)
    /\ UNCHANGED <<statuses, identities, captured, entries, sealed, pending>> /\ Quiet
    /\ \/ /\ target[p] \in Lost
          /\ Store("Directory", p, Failed(target[p]), strings + NameCharge, 0)
       \/ /\ Resolves(p) /\ NodeAt(p) \in Files
          /\ Store("Directory", p, Failed("ENOTDIR"), strings + NameCharge, 0)
       \/ /\ target[p] \notin Lost /\ ~(Resolves(p) /\ NodeAt(p) \in Files)
          /\ StoreFailed("Directory", p, "EACCES", "directory", strings + NameCharge)

(* The directory changed under the enumeration. *)
DirectoryRaced(p) ==
    /\ Fresh("Directory", p) /\ Listable(p) /\ Move
    /\ StoreFailed("Directory", p, "ECHANGED", "directory", strings + NameCharge)
    /\ UNCHANGED <<statuses, identities, captured, entries, sealed, pending>>

DirectoryInconsistent(p) ==
    /\ Fresh("Directory", p) /\ Listable(p) /\ ~consistent(p, StatusAt(p))
    /\ StoreFailed("Directory", p, "ECHANGED", "changed", strings + NameCharge)
    /\ UNCHANGED <<statuses, identities, captured, entries, sealed, pending>> /\ Quiet

(* readdir() may end in an error; the entries seen so far are kept, and the     *)
(* recorder fails.                                                              *)
DirectoryList(p) ==
    LET s == StatusAt(p)
        used == strings + NameCharge
        listing == Answer("ok", s, target[p], data[NodeAt(p)])
    IN
    /\ Fresh("Directory", p) /\ Listable(p) /\ consistent(p, s)
    /\ statuses' = Remember(statuses, p, s)
    /\ UNCHANGED <<identities, captured, sealed, pending>> /\ Quiet
    /\ IF Charges(used, 1 + s.size)
       THEN /\ entries' = entries + s.size
            /\ \/ Store("Directory", p, listing, used, 1 + s.size)
               \/ /\ obs' = Remember(obs, <<"Directory", p>>, listing)
                  /\ strings' = used + 1 + s.size
                  /\ Fail("directory")
       ELSE /\ UNCHANGED entries
            /\ StoreFailed("Directory", p, "EFBIG", "limit", used)

Locality(p) ==
    /\ Fresh("Locality", p)
    /\ UNCHANGED <<statuses, identities, captured, entries, sealed, pending>> /\ Quiet
    /\ Store("Locality", p,
             IF Resolves(p) THEN Answer("ok", NoStatus, None, None)
                            ELSE Failed(target[p]),
             strings + NameCharge, 0)

--------------------------------------------------------------------------------
EmptyMap == [x \in {} |-> None]

Init ==
    /\ DiskOK
    /\ moves = 0
    /\ obs = EmptyMap /\ statuses = EmptyMap /\ identities = EmptyMap
    /\ captured = 0 /\ strings = 0 /\ entries = 0
    /\ failure = "none"     \* the working directory was usable
    /\ sealed = FALSE
    /\ pending = Idle

Query(p) ==
    \/ \E k \in Kinds : RefuseSealed(k, p) \/ RefuseLimit(k, p) \/ ReplayNegative(k, p)
    \/ StatusReplay(p) \/ StatusBegin(p)
    \/ OpenReplay(p) \/ OpenError(p) \/ OpenRaced(p) \/ OpenRefused(p) \/ OpenRead(p)
    \/ RealPath(p)
    \/ DirectoryError(p) \/ DirectoryRaced(p) \/ DirectoryInconsistent(p) \/ DirectoryList(p)
    \/ Locality(p)

Next ==
    \/ \E p \in Paths : Query(p)
    \/ StatusResolve \/ StatusRecheck
    \/ RefuseArgument \/ seal
    \/ DiskMoves

Spec == Init /\ [][Next]_vars

--------------------------------------------------------------------------------
ObsOK == DOMAIN obs \subseteq Keys /\ \A k \in DOMAIN obs : obs[k] \in Answers
StatusesOK ==
    DOMAIN statuses \subseteq Paths /\ \A p \in DOMAIN statuses : statuses[p] \in StatusSet
IdentitiesOK ==
    /\ DOMAIN identities \subseteq Nodes
    /\ \A n \in DOMAIN identities : identities[n] \in [status : StatusSet, bytes : Contents]
RestOK ==
    /\ captured \in Nat /\ strings \in Nat /\ entries \in Nat
    /\ failure \in Reasons \cup {"none"}
    /\ sealed \in BOOLEAN
    /\ pending \in Pendings \cup {Idle}

TypeOK ==
    /\ DiskOK /\ moves \in 0..MaxMoves
    /\ ObsOK /\ StatusesOK /\ IdentitiesOK /\ RestOK

(* One frozen file explains everything a complete recorder has answered about a *)
(* spelling, however the disk moved between the answers: positive answers agree *)
(* on the metadata and on the physical path, and none of them contradicts an    *)
(* answer that says the path is absent.  Two answers are outside the promise:   *)
(* locality, which record() neither replays nor compares with a path that       *)
(* appears later, and an ENOTDIR from a directory listing, which an existing    *)
(* file gives as well (DirectoryTypeErrorDoesNotHideRegularFile).               *)
Compatible(j, a, k, b) ==
    /\ a.err = "ok" /\ b.err = "ok" =>
          /\ a.status # NoStatus /\ b.status # NoStatus => a.status = b.status
          /\ a.phys # None /\ b.phys # None => a.phys = b.phys
    /\ a.err = "ok" => ~Negative(k, b)
    /\ Negative(j, a) /\ Negative(k, b) => a.err = b.err

OneFileBehindEachPath ==
    complete => \A p \in Paths : \A j, k \in Answered(p) :
                    Compatible(j, obs[<<j, p>>], k, obs[<<k, p>>])

(* Two spellings opened to the same file were given the same bytes and the same *)
(* metadata, even when the file was rewritten in between and its timestamps     *)
(* restored (test RejectsAliasMutationEvenWithRestoredTimestamp).               *)
OpenedAliasesAgree ==
    complete => \A p, q \in {r \in Paths : Recorded("Open", r)} :
        LET a == obs[<<"Open", p>>]
            b == obs[<<"Open", q>>]
        IN  /\ a.err = "ok" /\ b.err = "ok" /\ a.status.node = b.status.node
            => a.status = b.status /\ a.data = b.data

(* No false alarm: while no other process touches the disk, whatever the order  *)
(* of the queries, the recorder never reports that an input changed.            *)
QuietDiskNeverFails == moves = 0 => failure # "changed"

(* The budgets are never overdrawn, by any path through record(), the failing   *)
(* ones included: bytes of content, retained strings, directory entries and     *)
(* observations.                                                                *)
BudgetsHold ==
    /\ captured <= MaxTotalBytes /\ strings <= MaxStringBytes /\ entries <= MaxEntries
    /\ Cardinality(DOMAIN obs) <= MaxQueries
    /\ \A k \in DOMAIN obs : obs[k].err = "ok" /\ k[1] = "Open" => Size[obs[k].data] <= MaxFileBytes

(* The recorder keeps every promise of PinnedView, over any motion of the disk  *)
(* and with each answer assembled from several system calls: no recorded answer *)
(* is revised, no answer is added after seal(), and what is said about a path   *)
(* stays explainable by one file until the recorder declares failure.           *)
View == INSTANCE PinnedView WITH
    view <- obs, broken <- ~complete, closed <- sealed,
    NoPhysical <- None, NoMetadata <- NoStatus

ImplementsPinnedView == View!Spec
================================================================================
