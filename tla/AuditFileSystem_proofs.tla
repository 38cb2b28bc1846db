------------------------ MODULE AuditFileSystem_proofs -------------------------
(* Proofs about the recording file system.  Whatever the disk does between and  *)
(* inside its system calls: its variables keep their types, one file can stand  *)
(* behind everything a complete recorder has answered about a path, it is a     *)
(* pinned view, and two spellings of an opened file were answered alike.  No    *)
(* query overdraws a budget, and an unmoved disk raises no alarm.               *)
EXTENDS AuditFileSystem, FiniteSetTheorems, TLAPS

USE SizeAssumption, NodeAssumption, PolicyAssumption, LimitAssumption, NoneAssumption

(* What a status of a present path is. *)
LEMMA StatusType ==
    ASSUME TypeOK, NEW p \in Paths, Resolves(p)
    PROVE  /\ StatusAt(p) \in StatusSet /\ NodeAt(p) \in Nodes
           /\ StatusAt(p).node = NodeAt(p)
           /\ target[p] \in Physicals
           /\ data[NodeAt(p)] \in Contents
  <1>1. target[p] \in Physicals
    BY DEF Resolves
  <1>2. NodeAt(p) \in Nodes
    BY <1>1 DEF TypeOK, DiskOK, NodeAt
  <1>3. data[NodeAt(p)] \in Contents /\ stamp[NodeAt(p)] \in Stamps
    BY <1>2 DEF TypeOK, DiskOK
  <1>4. Size[data[NodeAt(p)]] \in Nat
    BY <1>3
  <1> QED
    BY <1>1, <1>2, <1>3, <1>4 DEF StatusAt, StatusSet

(* A path that names nothing gives an error that is neither "ok" nor lost. *)
LEMMA ErrorType ==
    ASSUME TypeOK, NEW p \in Paths, ~Resolves(p)
    PROVE  target[p] \in Lost \cup {"ELOOP"}
  BY DEF TypeOK, DiskOK, Resolves

LEMMA FailedType ==
    ASSUME NEW e \in Errors
    PROVE  Failed(e) \in Answers /\ Failed(e).err = e
  BY DEF Failed, Answer, Answers

LEMMA AnswerType ==
    ASSUME NEW s \in StatusSet \cup {NoStatus}, NEW q \in Physicals \cup {None},
           NEW d \in Contents \cup {None}
    PROVE  /\ Answer("ok", s, q, d) \in Answers
           /\ Answer("ok", s, q, d).err = "ok"
           /\ Answer("ok", s, q, d).status = s
           /\ Answer("ok", s, q, d).phys = q
  BY DEF Answer, Answers, Errors

(* Adding an answer under any key keeps the record well typed. *)
LEMMA RememberType ==
    ASSUME ObsOK, NEW k \in Kinds, NEW p \in Paths, NEW a \in Answers,
           obs' = Remember(obs, <<k, p>>, a)
    PROVE  ObsOK'
  BY DEF ObsOK, Remember, Keys

LEMMA StoreType ==
    ASSUME ObsOK, RestOK, NEW k \in Kinds, NEW p \in Paths, NEW a \in Answers,
           NEW used \in Nat, NEW charge \in Nat, Store(k, p, a, used, charge)
    PROVE  ObsOK' /\ strings' \in Nat /\ failure' \in Reasons \cup {"none"}
  <1> DEFINE bad == Retargeted(p, a) \/ Disappeared(k, p, a, statuses')
             b == IF bad THEN Failed("ECHANGED") ELSE a
  <1>1. CASE Charges(used, charge)
    <2>1. b \in Answers
      BY FailedType DEF Errors
    <2>2. obs' = Remember(obs, <<k, p>>, b) /\ strings' = used + charge
      BY <1>1 DEF Store
    <2>3. ObsOK'
      BY <2>1, <2>2, RememberType
    <2> QED
      BY <1>1, <2>2, <2>3 DEF Store, Fail, RestOK, Reasons
  <1>2. CASE ~Charges(used, charge)
    <2>1. Failed("EFBIG") \in Answers
      BY FailedType DEF Errors
    <2>2. obs' = Remember(obs, <<k, p>>, Failed("EFBIG")) /\ strings' = used
      BY <1>2 DEF Store
    <2>3. ObsOK'
      BY <2>1, <2>2, RememberType
    <2> QED
      BY <1>2, <2>2, <2>3 DEF Store, Fail, RestOK, Reasons
  <1> QED
    BY <1>1, <1>2

LEMMA StoreFailedType ==
    ASSUME ObsOK, RestOK, NEW k \in Kinds, NEW p \in Paths, NEW e \in Errors,
           NEW r \in Reasons, NEW used \in Nat, StoreFailed(k, p, e, r, used)
    PROVE  ObsOK' /\ strings' \in Nat /\ failure' \in Reasons \cup {"none"}
  <1>1. ObsOK'
    BY FailedType, RememberType DEF StoreFailed
  <1> QED
    BY <1>1 DEF StoreFailed, Fail, RestOK

--------------------------------------------------------------------------------
(* Type correctness. *)

LEMMA StatusesType ==
    ASSUME StatusesOK, NEW p \in Paths, NEW s \in StatusSet,
           statuses' = Remember(statuses, p, s)
    PROVE  StatusesOK'
  BY DEF StatusesOK, Remember

LEMMA IdentitiesType ==
    ASSUME IdentitiesOK, NEW s \in StatusSet, NEW d \in Contents, s.node \in Nodes,
           identities' = Remember(identities, s.node, [status |-> s, bytes |-> d])
    PROVE  IdentitiesOK'
  BY DEF IdentitiesOK, Remember

LEMMA MoveType == ASSUME DiskOK, moves \in 0..MaxMoves, Move
                  PROVE  DiskOK' /\ moves' \in 0..MaxMoves
  <1>1. CASE Retarget
    BY <1>1 DEF Retarget, DiskOK, Move
  <1>2. CASE Replace
    BY <1>2 DEF Replace, DiskOK, Move
  <1>3. CASE Rewrite
    BY <1>3 DEF Rewrite, DiskOK, Move
  <1> QED
    BY <1>1, <1>2, <1>3 DEF Move

(* What an action that only stores an answer has to show. *)
LEMMA FrameType ==
    ASSUME TypeOK, ObsOK', strings' \in Nat, failure' \in Reasons \cup {"none"},
           DiskOK', moves' \in 0..MaxMoves,
           UNCHANGED <<statuses, identities, captured, entries, sealed, pending>>
    PROVE  TypeOK'
  BY DEF TypeOK, StatusesOK, IdentitiesOK, RestOK

LEMMA QuietType ==
    ASSUME TypeOK, Quiet PROVE DiskOK' /\ moves' \in 0..MaxMoves
  BY DEF TypeOK, Quiet, disk, DiskOK

(* The string budget after a name is charged. *)
LEMMA UsedType == ASSUME TypeOK PROVE strings + NameCharge \in Nat
  BY DEF TypeOK, RestOK, NameCharge

(* An action that stores an answer which already failed. *)
LEMMA StoreFailedFrame ==
    ASSUME TypeOK, NEW k \in Kinds, NEW p \in Paths, NEW e \in Errors, NEW r \in Reasons,
           NEW used \in Nat, StoreFailed(k, p, e, r, used),
           DiskOK', moves' \in 0..MaxMoves,
           UNCHANGED <<statuses, identities, captured, entries, sealed, pending>>
    PROVE  TypeOK'
  <1>1. ObsOK' /\ strings' \in Nat /\ failure' \in Reasons \cup {"none"}
    BY StoreFailedType DEF TypeOK
  <1> QED
    BY <1>1, FrameType

LEMMA StoreFrame ==
    ASSUME TypeOK, NEW k \in Kinds, NEW p \in Paths, NEW a \in Answers,
           NEW used \in Nat, NEW charge \in Nat, Store(k, p, a, used, charge), Quiet,
           UNCHANGED <<statuses, identities, captured, entries, sealed, pending>>
    PROVE  TypeOK'
  <1>1. ObsOK' /\ strings' \in Nat /\ failure' \in Reasons \cup {"none"}
    BY StoreType DEF TypeOK
  <1> QED
    BY <1>1, FrameType, QuietType

LEMMA RefusalType ==
    ASSUME TypeOK, NEW k \in Kinds, NEW p \in Paths,
           RefuseSealed(k, p) \/ RefuseLimit(k, p)
    PROVE  TypeOK'
  BY DEF TypeOK, RefuseSealed, RefuseLimit, record, disk, Fail,
         Reasons, DiskOK, ObsOK, StatusesOK, IdentitiesOK, RestOK

LEMMA ReplayType ==
    ASSUME TypeOK, NEW k \in Kinds, NEW p \in Paths, ReplayNegative(k, p)
    PROVE  TypeOK'
  <1>1. PICK e \in PriorNegatives(p) : obs' = Remember(obs, <<k, p>>, Failed(e))
    BY DEF ReplayNegative
  <1>2. e \in Errors
    BY DEF PriorNegatives, Negative, Errors, Lost
  <1>3. ObsOK'
    BY <1>1, <1>2, FailedType, RememberType DEF TypeOK
  <1>4. strings' \in Nat
    BY UsedType DEF ReplayNegative
  <1> QED
    BY <1>3, <1>4 DEF ReplayNegative, TypeOK, DiskOK, StatusesOK, IdentitiesOK, RestOK, disk

LEMMA StatusReplayType ==
    ASSUME TypeOK, NEW p \in Paths, StatusReplay(p) PROVE TypeOK'
  <1> DEFINE a == Answer("ok", statuses[p], None, None)
  <1>1. a \in Answers
    BY AnswerType DEF StatusReplay, TypeOK, StatusesOK
  <1>2. Store("Status", p, a, strings + NameCharge, 0)
    BY DEF StatusReplay
  <1> HIDE DEF a
  <1> QED
    BY <1>1, <1>2, UsedType, StoreFrame DEF StatusReplay, Kinds

LEMMA StatusBeginType ==
    ASSUME TypeOK, NEW p \in Paths, StatusBegin(p) PROVE TypeOK'
  <1>1. CASE ~Resolves(p) /\ UNCHANGED <<statuses, pending>>
             /\ Store("Status", p, Failed(target[p]), strings + NameCharge, 0)
    <2>1. target[p] \in Errors
      BY <1>1, ErrorType DEF Errors, Lost
    <2>2. Failed(target[p]) \in Answers
      BY <2>1, FailedType
    <2> QED
      BY <1>1, <2>2, UsedType, StoreFrame DEF StatusBegin, Kinds
  <1>2. CASE UNCHANGED <<statuses, pending>>
             /\ StoreFailed("Status", p, "ECHANGED", "changed", strings + NameCharge)
    BY <1>2, UsedType, QuietType, StoreFailedFrame DEF StatusBegin, Kinds, Errors, Reasons
  <1>3. CASE /\ Resolves(p)
             /\ statuses' = Remember(statuses, p, StatusAt(p))
             /\ pending' = [path |-> p, status |-> StatusAt(p), phys |-> None]
             /\ strings' = strings + NameCharge
             /\ UNCHANGED <<obs, failure>>
    <2>1. StatusAt(p) \in StatusSet
      BY <1>3, StatusType
    <2>2. StatusesOK'
      BY <1>3, <2>1, StatusesType DEF TypeOK
    <2>3. pending' \in Pendings
      BY <1>3, <2>1 DEF Pendings
    <2>4. strings' \in Nat
      BY <1>3, UsedType
    <2> QED
      BY <1>3, <2>2, <2>3, <2>4, QuietType
      DEF StatusBegin, TypeOK, ObsOK, IdentitiesOK, RestOK
  <1> QED
    BY <1>1, <1>2, <1>3 DEF StatusBegin

LEMMA StatusResolveType ==
    ASSUME TypeOK, StatusResolve PROVE TypeOK'
  <1> DEFINE p == pending.path
  <1>1. pending \in Pendings /\ p \in Paths
    BY DEF StatusResolve, TypeOK, RestOK, Pendings
  <1>2. CASE Resolves(p) /\ pending' = [pending EXCEPT !.phys = target[p]]
             /\ UNCHANGED <<obs, strings, failure>>
    <2>1. target[p] \in Physicals
      BY <1>2 DEF Resolves
    <2>2. pending' \in Pendings
      BY <1>1, <1>2, <2>1 DEF Pendings
    <2> QED
      BY <1>2, <2>2, QuietType DEF StatusResolve, TypeOK, ObsOK, StatusesOK, IdentitiesOK, RestOK
  <1>3. CASE ~Resolves(p) /\ pending' = Idle /\ Store("Status", p, Failed(target[p]), strings, 0)
    <2>1. target[p] \in Errors
      BY <1>1, <1>3, ErrorType DEF Errors, Lost
    <2>2. Failed(target[p]) \in Answers
      BY <2>1, FailedType
    <2>3. ObsOK' /\ strings' \in Nat /\ failure' \in Reasons \cup {"none"}
      BY <1>1, <1>3, <2>2, StoreType DEF TypeOK, Kinds, RestOK
    <2> QED
      BY <1>3, <2>3, QuietType DEF StatusResolve, TypeOK, StatusesOK, IdentitiesOK, RestOK
  <1> QED
    BY <1>2, <1>3 DEF StatusResolve

LEMMA StatusRecheckType ==
    ASSUME TypeOK, StatusRecheck PROVE TypeOK'
  <1> DEFINE p == pending.path
             a == Answer("ok", pending.status, pending.phys, None)
  <1>1. pending \in Pendings /\ p \in Paths
    BY DEF StatusRecheck, TypeOK, RestOK, Pendings
  <1>2. ObsOK' /\ strings' \in Nat /\ failure' \in Reasons \cup {"none"}
    <2>1. a \in Answers
      BY <1>1, AnswerType DEF Pendings
    <2>2. CASE Store("Status", p, a, strings, 1)
      <3> HIDE DEF a
      <3> QED
        BY <1>1, <2>1, <2>2, StoreType DEF TypeOK, Kinds, RestOK
    <2>3. CASE StoreFailed("Status", p, "ECHANGED", "changed", strings)
      BY <1>1, <2>3, StoreFailedType DEF TypeOK, Kinds, Errors, Reasons, RestOK
    <2> QED
      BY <2>2, <2>3 DEF StatusRecheck
  <1> QED
    BY <1>2, QuietType DEF StatusRecheck, TypeOK, StatusesOK, IdentitiesOK, RestOK

LEMMA OpenType ==
    ASSUME TypeOK, NEW p \in Paths,
           OpenReplay(p) \/ OpenError(p) \/ OpenRaced(p) \/ OpenRefused(p)
    PROVE  TypeOK'
  <1>1. CASE OpenReplay(p)
    <2>1. obs[<<"Status", p>>] \in Answers
      BY <1>1 DEF OpenReplay, Recorded, TypeOK, ObsOK
    <2>2. Failed(obs[<<"Status", p>>].err) \in Answers
      BY <2>1, FailedType DEF Answers
    <2> QED
      BY <1>1, <2>2, UsedType, StoreFrame DEF OpenReplay, Kinds
  <1>2. CASE OpenError(p)
    <2>1. CASE ~Resolves(p) /\ Store("Open", p, Failed(target[p]), strings + NameCharge, 0)
      <3>1. Failed(target[p]) \in Answers
        BY <2>1, ErrorType, FailedType DEF Errors, Lost
      <3> QED
        BY <1>2, <2>1, <3>1, UsedType, StoreFrame DEF OpenError, Kinds
    <2>2. CASE Store("Open", p, Failed("EISDIR"), strings + NameCharge, 0)
      <3>1. Failed("EISDIR") \in Answers
        BY FailedType DEF Errors
      <3> QED
        BY <1>2, <2>2, <3>1, UsedType, StoreFrame DEF OpenError, Kinds
    <2>3. CASE StoreFailed("Open", p, "EACCES", "denied", strings + NameCharge)
      BY <1>2, <2>3, UsedType, QuietType, StoreFailedFrame
      DEF OpenError, Kinds, Errors, Reasons
    <2> QED
      BY <1>2, <2>1, <2>2, <2>3 DEF OpenError
  <1>3. CASE OpenRaced(p)
    BY <1>3, UsedType, MoveType, StoreFailedFrame DEF OpenRaced, Kinds, Errors, Reasons, TypeOK
  <1>4. CASE OpenRefused(p)
    <2>1. strings + NameCharge + 2 \in Nat
      BY UsedType
    <2> QED
      BY <1>4, <2>1, UsedType, QuietType, StoreFailedFrame
      DEF OpenRefused, Kinds, Errors, Reasons
  <1> QED
    BY <1>1, <1>2, <1>3, <1>4

LEMMA OpenReadType ==
    ASSUME TypeOK, NEW p \in Paths, OpenRead(p) PROVE TypeOK'
  <1> DEFINE s == StatusAt(p)
             d == data[NodeAt(p)]
             a == Answer("ok", s, target[p], d)
  <1>1. /\ s \in StatusSet /\ s.node \in Nodes /\ target[p] \in Physicals /\ d \in Contents
        /\ s.size \in Nat
    BY StatusType DEF OpenRead, Readable, StatusSet
  <1>2. a \in Answers
    BY <1>1, AnswerType
  <1>3. /\ statuses' = Remember(statuses, p, s)
        /\ identities' = Remember(identities, s.node, [status |-> s, bytes |-> d])
        /\ captured' = captured + s.size
        /\ UNCHANGED <<entries, sealed, pending>> /\ Quiet
        /\ \/ StoreFailed("Open", p, "ECHANGED", "changed", strings + NameCharge + 2)
           \/ Store("Open", p, a, strings + NameCharge, 2)
    BY DEF OpenRead
  <1> HIDE DEF s, d, a
  <1>4. StatusesOK' /\ IdentitiesOK' /\ captured' \in Nat
    BY <1>1, <1>3, StatusesType, IdentitiesType DEF TypeOK, RestOK
  <1>5. ObsOK' /\ strings' \in Nat /\ failure' \in Reasons \cup {"none"}
    <2>1. strings + NameCharge \in Nat /\ strings + NameCharge + 2 \in Nat
      BY UsedType
    <2> QED
      BY <1>2, <1>3, <2>1, StoreType, StoreFailedType DEF TypeOK, Kinds, Errors, Reasons
  <1> QED
    BY <1>3, <1>4, <1>5, QuietType DEF TypeOK, RestOK

LEMMA RealPathType ==
    ASSUME TypeOK, NEW p \in Paths, RealPath(p) PROVE TypeOK'
  <1>1. PriorPhysicals(p) \subseteq Physicals
    BY DEF PriorPhysicals, Answered, Recorded, TypeOK, ObsOK, Answers
  <1>2. \A q \in Physicals : Answer("ok", NoStatus, q, None) \in Answers
    BY AnswerType
  <1>3. CASE \E q \in Physicals :
               Store("RealPath", p, Answer("ok", NoStatus, q, None), strings + NameCharge, 1)
    BY <1>2, <1>3, UsedType, StoreFrame DEF RealPath, Kinds
  <1>4. CASE ~Resolves(p) /\ Store("RealPath", p, Failed(target[p]), strings + NameCharge, 0)
    <2>1. Failed(target[p]) \in Answers
      BY <1>4, ErrorType, FailedType DEF Errors, Lost
    <2> QED
      BY <1>4, <2>1, UsedType, StoreFrame DEF RealPath, Kinds
  <1> QED
    BY <1>1, <1>3, <1>4 DEF RealPath, Resolves

LEMMA DirectoryType ==
    ASSUME TypeOK, NEW p \in Paths,
           DirectoryError(p) \/ DirectoryRaced(p) \/ DirectoryInconsistent(p)
    PROVE  TypeOK'
  <1>1. CASE DirectoryError(p)
    <2>1. Failed("ENOTDIR") \in Answers /\ Failed("ENOENT") \in Answers
      BY FailedType DEF Errors, Lost
    <2> QED
      BY <1>1, <2>1, UsedType, QuietType, StoreFrame, StoreFailedFrame
      DEF DirectoryError, Lost, Kinds, Errors, Reasons
  <1>2. CASE DirectoryRaced(p)
    BY <1>2, UsedType, MoveType, StoreFailedFrame
    DEF DirectoryRaced, Kinds, Errors, Reasons, TypeOK
  <1>3. CASE DirectoryInconsistent(p)
    BY <1>3, UsedType, QuietType, StoreFailedFrame
    DEF DirectoryInconsistent, Kinds, Errors, Reasons
  <1> QED
    BY <1>1, <1>2, <1>3

LEMMA DirectoryListType ==
    ASSUME TypeOK, NEW p \in Paths, DirectoryList(p) PROVE TypeOK'
  <1> DEFINE s == StatusAt(p)
             a == Answer("ok", s, target[p], data[NodeAt(p)])
             used == strings + NameCharge
  <1>1. s \in StatusSet /\ s.size \in Nat /\ a \in Answers
    BY StatusType, AnswerType DEF DirectoryList, Listable, StatusSet
  <1>2. /\ statuses' = Remember(statuses, p, s)
        /\ UNCHANGED <<identities, captured, sealed, pending>> /\ Quiet
        /\ \/ /\ entries' = entries + s.size
              /\ \/ Store("Directory", p, a, used, 1 + s.size)
                 \/ /\ obs' = Remember(obs, <<"Directory", p>>, a)
                    /\ strings' = used + 1 + s.size
                    /\ Fail("directory")
           \/ UNCHANGED entries /\ StoreFailed("Directory", p, "EFBIG", "limit", used)
    BY DEF DirectoryList
  <1>3. used \in Nat
    BY UsedType
  <1> HIDE DEF s, a, used
  <1>4. StatusesOK' /\ entries' \in Nat
    BY <1>1, <1>2, StatusesType DEF TypeOK, RestOK
  <1>5. ObsOK' /\ strings' \in Nat /\ failure' \in Reasons \cup {"none"}
    <2>1. CASE Store("Directory", p, a, used, 1 + s.size)
      BY <1>1, <1>3, <2>1, StoreType DEF TypeOK, Kinds
    <2>2. CASE /\ obs' = Remember(obs, <<"Directory", p>>, a)
               /\ strings' = used + 1 + s.size
               /\ Fail("directory")
      BY <1>1, <1>3, <2>2, RememberType DEF TypeOK, Kinds, Fail, RestOK, Reasons
    <2>3. CASE StoreFailed("Directory", p, "EFBIG", "limit", used)
      BY <1>3, <2>3, StoreFailedType DEF TypeOK, Kinds, Errors, Reasons
    <2> QED
      BY <1>2, <2>1, <2>2, <2>3
  <1> QED
    BY <1>2, <1>4, <1>5, QuietType DEF TypeOK, IdentitiesOK, RestOK

LEMMA LocalityType ==
    ASSUME TypeOK, NEW p \in Paths, Locality(p) PROVE TypeOK'
  <1> DEFINE a == IF Resolves(p) THEN Answer("ok", NoStatus, None, None)
                                 ELSE Failed(target[p])
  <1>1. a \in Answers
    BY AnswerType, ErrorType, FailedType DEF Errors, Lost
  <1>2. Store("Locality", p, a, strings + NameCharge, 0)
    BY DEF Locality
  <1> HIDE DEF a
  <1> QED
    BY <1>1, <1>2, UsedType, StoreFrame DEF Locality, Kinds

(* Every variable of the recorder keeps its type. *)
THEOREM TypeCorrect == Spec => []TypeOK
  <1>1. Init => TypeOK
    <2> SUFFICES ASSUME Init PROVE TypeOK
      OBVIOUS
    <2>1. ObsOK /\ StatusesOK /\ IdentitiesOK
      BY DEF Init, EmptyMap, ObsOK, StatusesOK, IdentitiesOK
    <2>2. DiskOK /\ moves \in 0..MaxMoves
      BY DEF Init
    <2>3. RestOK
      BY DEF Init, RestOK
    <2> QED
      BY <2>1, <2>2, <2>3 DEF TypeOK
  <1>2. TypeOK /\ [Next]_vars => TypeOK'
    <2> SUFFICES ASSUME TypeOK, [Next]_vars PROVE TypeOK'
      OBVIOUS
    <2>1. CASE UNCHANGED vars
      BY <2>1 DEF vars, TypeOK, DiskOK, ObsOK, StatusesOK, IdentitiesOK, RestOK
    <2>2. ASSUME NEW p \in Paths, Query(p) PROVE TypeOK'
      BY <2>2, RefusalType, ReplayType, StatusReplayType, StatusBeginType, OpenType,
         OpenReadType, RealPathType, DirectoryType, DirectoryListType, LocalityType
      DEF Query
    <2>3. CASE StatusResolve \/ StatusRecheck
      BY <2>3, StatusResolveType, StatusRecheckType
    <2>4. CASE RefuseArgument \/ seal
      BY <2>4 DEF TypeOK, RefuseArgument, seal, record, disk, Fail, Reasons, DiskOK, ObsOK,
                  StatusesOK, IdentitiesOK, RestOK
    <2>5. CASE DiskMoves
      BY <2>5, MoveType DEF DiskMoves, record, TypeOK, ObsOK, StatusesOK, IdentitiesOK, RestOK
    <2> QED
      BY <2>1, <2>2, <2>3, <2>4, <2>5 DEF Next
  <1> QED
    BY <1>1, <1>2, PTL DEF Spec

--------------------------------------------------------------------------------
(* One file behind each path.  The property is not inductive by itself: a       *)
(* replayed status has no physical path, so what ties it to the other answers   *)
(* is the table statuses_, and the table is filled in the middle of a status    *)
(* query.  Known says what the table knows of the answers, PendingKnown what it *)
(* knows of the query under way.                                                *)

Known == complete => \A p \in Paths : \A k \in Answered(p) :
    /\ obs[<<k, p>>].err = "ok" =>
          /\ obs[<<k, p>>].phys # None \/ obs[<<k, p>>].status # NoStatus
          /\ obs[<<k, p>>].status # NoStatus =>
                p \in DOMAIN statuses /\ obs[<<k, p>>].status = statuses[p]
    /\ p \in DOMAIN statuses => ~Negative(k, obs[<<k, p>>])

PendingKnown == complete /\ pending # Idle =>
    /\ ~Recorded("Status", pending.path)
    /\ pending.path \in DOMAIN statuses /\ statuses[pending.path] = pending.status

IInv == TypeOK /\ OneFileBehindEachPath /\ Known /\ PendingKnown

(* What an answer has to satisfy for the earlier answers about p to stay        *)
(* explainable; T is the table of statuses once it is stored.                   *)
Fits(k, p, a, T) == k # "Locality" =>
    /\ a.err = "ok" =>
          /\ a.phys # None \/ a.status # NoStatus
          /\ a.status # NoStatus => p \in DOMAIN T /\ T[p] = a.status
          /\ \A j \in Answered(p) :
                /\ ~Negative(j, obs[<<j, p>>])
                /\ /\ a.phys # None /\ obs[<<j, p>>].err = "ok" /\ obs[<<j, p>>].phys # None
                   => obs[<<j, p>>].phys = a.phys
    /\ Negative(k, a) =>
          /\ p \notin DOMAIN T
          /\ \A j \in Answered(p) :
                /\ obs[<<j, p>>].err = "ok" => obs[<<j, p>>].phys = None
                /\ Negative(j, obs[<<j, p>>]) => obs[<<j, p>>].err = a.err

(* The table of statuses grows at most by p, of which nothing negative is known. *)
Grows(p) ==
    /\ DOMAIN statuses \subseteq DOMAIN statuses'
    /\ DOMAIN statuses' \subseteq DOMAIN statuses \cup {p}
    /\ \A x \in DOMAIN statuses : statuses'[x] = statuses[x]
    /\ DOMAIN statuses' # DOMAIN statuses => PriorNegatives(p) = {}

LEMMA PriorPointwise ==
    ASSUME NEW p \in Paths
    PROVE  /\ PriorNegatives(p) = {} <=> \A j \in Answered(p) : ~Negative(j, obs[<<j, p>>])
           /\ \A j \in Answered(p) : Negative(j, obs[<<j, p>>]) =>
                 obs[<<j, p>>].err \in PriorNegatives(p)
           /\ \A j \in Answered(p) :
                 obs[<<j, p>>].err = "ok" /\ obs[<<j, p>>].phys # None =>
                 obs[<<j, p>>].phys \in PriorPhysicals(p)
  BY DEF PriorNegatives, PriorPhysicals

(* Storing an answer that fits keeps the invariant. *)
LEMMA FittingAnswer ==
    ASSUME IInv, complete, NEW k \in Kinds, NEW p \in Paths, NEW a \in Answers,
           ~Recorded(k, p), obs' = Remember(obs, <<k, p>>, a), Grows(p),
           Fits(k, p, a, statuses')
    PROVE  OneFileBehindEachPath' /\ Known'
  <1>1. /\ \A j \in Kinds, x \in Paths : Recorded(j, x)' <=> Recorded(j, x) \/ (j = k /\ x = p)
        /\ \A j \in Kinds, x \in Paths : Recorded(j, x) => obs'[<<j, x>>] = obs[<<j, x>>]
        /\ obs'[<<k, p>>] = a
    BY DEF Recorded, Remember
  <1>2. \A x \in Paths : Answered(x)' = Answered(x) \cup
            (IF x = p /\ k # "Locality" THEN {k} ELSE {})
    BY <1>1 DEF Answered
  <1>3. \A x \in Paths : \A j \in Answered(x) : obs'[<<j, x>>] = obs[<<j, x>>] /\ j \in Kinds
    BY <1>1 DEF Answered
  <1>4. DOMAIN statuses' # DOMAIN statuses =>
            \A j \in Answered(p) : ~Negative(j, obs[<<j, p>>])
    BY PriorPointwise DEF Grows
  <1>5. Known'
    <2> SUFFICES ASSUME NEW x \in Paths, NEW j \in Answered(x)'
                 PROVE  /\ obs'[<<j, x>>].err = "ok" =>
                             /\ obs'[<<j, x>>].phys # None \/ obs'[<<j, x>>].status # NoStatus
                             /\ obs'[<<j, x>>].status # NoStatus =>
                                   x \in DOMAIN statuses' /\ obs'[<<j, x>>].status = statuses'[x]
                        /\ x \in DOMAIN statuses' => ~Negative(j, obs'[<<j, x>>])
      BY DEF Known, Negative
    <2>1. CASE j \in Answered(x)
      BY <1>3, <1>4, <2>1 DEF IInv, Known, Grows
    <2>2. CASE x = p /\ j = k /\ k # "Locality"
      BY <1>1, <2>2 DEF Fits
    <2> QED
      BY <1>2, <2>1, <2>2
  <1>6. OneFileBehindEachPath'
    <2> SUFFICES ASSUME NEW x \in Paths, NEW i \in Answered(x)', NEW j \in Answered(x)'
                 PROVE  Compatible(i, obs'[<<i, x>>], j, obs'[<<j, x>>])
      BY DEF OneFileBehindEachPath, Compatible, Negative
    <2>1. CASE i \in Answered(x) /\ j \in Answered(x)
      BY <1>3, <2>1 DEF IInv, OneFileBehindEachPath
    <2>2. CASE x = p /\ i = k /\ j \in Answered(p) /\ k # "Locality"
      <3>1. obs'[<<i, x>>] = a /\ obs'[<<j, x>>] = obs[<<j, p>>]
        BY <1>1, <1>3, <2>2
      <3> QED
        BY <2>2, <3>1 DEF Compatible, Fits, IInv, Known, Grows, Negative
    <2>3. CASE x = p /\ j = k /\ i \in Answered(p) /\ k # "Locality"
      <3>1. obs'[<<j, x>>] = a /\ obs'[<<i, x>>] = obs[<<i, p>>]
        BY <1>1, <1>3, <2>3
      <3> QED
        BY <2>3, <3>1 DEF Compatible, Fits, IInv, Known, Grows, Negative
    <2>4. CASE x = p /\ i = k /\ j = k
      BY <1>1, <2>4 DEF Compatible, Negative
    <2> QED
      BY <1>2, <2>1, <2>2, <2>3, <2>4
  <1> QED
    BY <1>5, <1>6

(* Once the recorder has failed, there is nothing left to keep. *)
LEMMA FailedKeeps ==
    ASSUME TypeOK', failure' # "none" PROVE IInv'
  BY DEF IInv, OneFileBehindEachPath, Known, PendingKnown, complete

(* Store() keeps the invariant or fails the recorder: its two last tests are    *)
(* what makes a fresh answer fit.                                               *)
LEMMA StoreKeeps ==
    ASSUME IInv, complete, NEW k \in Kinds, NEW p \in Paths, NEW a \in Answers,
           NEW used \in Nat, NEW charge \in Nat,
           Fresh(k, p), Store(k, p, a, used, charge), failure' = "none", Grows(p),
           a.err = "ok" /\ k # "Locality" =>
               /\ a.phys # None \/ a.status # NoStatus
               /\ a.status # NoStatus => p \in DOMAIN statuses' /\ statuses'[p] = a.status
    PROVE  OneFileBehindEachPath' /\ Known'
  <1>1. /\ obs' = Remember(obs, <<k, p>>, a)
        /\ ~Retargeted(p, a) /\ ~Disappeared(k, p, a, statuses')
    BY DEF Store, Fail, complete
  <1>2. ~Recorded(k, p)
    BY DEF Fresh, Admits, Asks
  <1>3. k # "Locality" => \A j \in Answered(p) : ~Negative(j, obs[<<j, p>>])
    BY PriorPointwise DEF Fresh
  <1>4. ASSUME a.err = "ok", k # "Locality", NEW j \in Answered(p), a.phys # None,
               obs[<<j, p>>].err = "ok", obs[<<j, p>>].phys # None
        PROVE  obs[<<j, p>>].phys = a.phys
    BY <1>1, <1>4, PriorPointwise DEF Retargeted
  <1>5. ASSUME Negative(k, a), k # "Locality"
        PROVE  p \notin DOMAIN statuses' /\ PriorPhysicals(p) = {}
    BY <1>1, <1>5 DEF Disappeared, Negative
  <1>6. Fits(k, p, a, statuses')
    BY <1>3, <1>4, <1>5, PriorPointwise DEF Fits
  <1> QED
    BY <1>1, <1>2, <1>6, FittingAnswer

(* The same for an action that leaves the table of statuses and the pending     *)
(* query alone.                                                                 *)
LEMMA StoreIInv ==
    ASSUME IInv, TypeOK', NEW k \in Kinds, NEW p \in Paths, NEW a \in Answers,
           NEW used \in Nat, NEW charge \in Nat,
           Fresh(k, p), Store(k, p, a, used, charge), UNCHANGED <<statuses, pending>>,
           a.err = "ok" /\ k # "Locality" =>
               /\ a.phys # None \/ a.status # NoStatus
               /\ a.status # NoStatus => p \in DOMAIN statuses /\ statuses[p] = a.status
    PROVE  IInv'
  <1>1. CASE failure' # "none"
    BY <1>1, FailedKeeps
  <1>2. CASE failure' = "none"
    <2>1. complete /\ pending = Idle
      BY DEF Fresh, Admits, Asks
    <2>2. Grows(p)
      BY DEF Grows
    <2>3. OneFileBehindEachPath' /\ Known'
      BY <1>2, <2>1, <2>2, StoreKeeps
    <2>4. PendingKnown'
      BY <2>1 DEF PendingKnown
    <2> QED
      BY <2>3, <2>4 DEF IInv
  <1> QED
    BY <1>1, <1>2

LEMMA StoreFailedIInv ==
    ASSUME TypeOK', complete, NEW k, NEW p, NEW e, NEW r \in Reasons, NEW used,
           StoreFailed(k, p, e, r, used)
    PROVE  IInv'
  <1>1. failure' # "none"
    BY DEF StoreFailed, Fail, complete, Reasons
  <1> QED
    BY <1>1, FailedKeeps

(* Fields of a failed answer. *)
LEMMA FailedFields == ASSUME NEW e \in Errors
                      PROVE  Failed(e).err = e /\ Failed(e) \in Answers
  BY FailedType

LEMMA StatusReplayIInv ==
    ASSUME IInv, TypeOK', NEW p \in Paths, StatusReplay(p) PROVE IInv'
  <1> DEFINE a == Answer("ok", statuses[p], None, None)
  <1>1. a \in Answers /\ a.err = "ok" /\ a.status = statuses[p] /\ statuses[p] \in StatusSet
    BY AnswerType DEF StatusReplay, IInv, TypeOK, StatusesOK
  <1>2. a.status # NoStatus
    BY <1>1 DEF StatusSet, NoStatus
  <1>3. Store("Status", p, a, strings + NameCharge, 0) /\ Fresh("Status", p)
        /\ UNCHANGED <<statuses, pending>> /\ p \in DOMAIN statuses
    BY DEF StatusReplay
  <1> HIDE DEF a
  <1> QED
    BY <1>1, <1>2, <1>3, UsedType, StoreIInv DEF Kinds, IInv

(* A replayed negative answer fits: nothing positive is known of the path, and  *)
(* all negative answers about it are the same.                                  *)
LEMMA ReplayNegativeIInv ==
    ASSUME IInv, TypeOK', NEW k \in Kinds, NEW p \in Paths, ReplayNegative(k, p)
    PROVE  IInv'
  <1>1. PICK e \in PriorNegatives(p) : obs' = Remember(obs, <<k, p>>, Failed(e))
    BY DEF ReplayNegative
  <1>2. PICK i \in Answered(p) : Negative(i, obs[<<i, p>>]) /\ obs[<<i, p>>].err = e
    BY <1>1 DEF PriorNegatives
  <1>3. e \in Errors /\ e # "ok" /\ Failed(e) \in Answers /\ Failed(e).err = e
    BY <1>2, FailedFields DEF Negative, Errors, Lost
  <1>4. complete /\ pending = Idle /\ ~Recorded(k, p) /\ Grows(p) /\ k # "Locality"
    BY DEF ReplayNegative, Admits, Asks, Grows
  <1>5. \A j \in Answered(p) : Compatible(i, obs[<<i, p>>], j, obs[<<j, p>>])
                            /\ Compatible(j, obs[<<j, p>>], i, obs[<<i, p>>])
    BY <1>2, <1>4 DEF IInv, OneFileBehindEachPath
  <1>6. p \notin DOMAIN statuses'
    BY <1>2, <1>4 DEF IInv, Known, ReplayNegative
  <1>7. Fits(k, p, Failed(e), statuses')
    <2>1. \A j \in Answered(p) : obs[<<j, p>>].err # "ok"
      BY <1>2, <1>5 DEF Compatible
    <2>2. \A j \in Answered(p) : Negative(j, obs[<<j, p>>]) => obs[<<j, p>>].err = e
      BY <1>2, <1>5 DEF Compatible
    <2> QED
      BY <1>3, <1>6, <2>1, <2>2 DEF Fits
  <1>8. OneFileBehindEachPath' /\ Known'
    BY <1>1, <1>3, <1>4, <1>7, FittingAnswer
  <1> QED
    BY <1>4, <1>8 DEF IInv, PendingKnown, ReplayNegative

LEMMA StatusBeginIInv ==
    ASSUME IInv, TypeOK', NEW p \in Paths, StatusBegin(p) PROVE IInv'
  <1>1. TypeOK /\ complete /\ pending = Idle /\ PriorNegatives(p) = {} /\ Fresh("Status", p)
        /\ ~Recorded("Status", p)
    BY DEF StatusBegin, Fresh, Admits, Asks, IInv
  <1>2. CASE ~Resolves(p) /\ UNCHANGED <<statuses, pending>>
             /\ Store("Status", p, Failed(target[p]), strings + NameCharge, 0)
    <2>1. Failed(target[p]) \in Answers /\ Failed(target[p]).err # "ok"
      BY <1>1, <1>2, ErrorType, FailedFields DEF Errors, Lost
    <2> QED
      BY <1>1, <1>2, <2>1, UsedType, StoreIInv DEF Kinds
  <1>3. CASE StoreFailed("Status", p, "ECHANGED", "changed", strings + NameCharge)
    BY <1>1, <1>3, StoreFailedIInv DEF Reasons
  <1>4. CASE /\ Resolves(p) /\ p \notin DOMAIN statuses
             /\ statuses' = Remember(statuses, p, StatusAt(p))
             /\ pending' = [path |-> p, status |-> StatusAt(p), phys |-> None]
             /\ UNCHANGED <<obs, failure>>
    <2>1. /\ DOMAIN statuses' = DOMAIN statuses \cup {p} /\ statuses'[p] = StatusAt(p)
          /\ \A x \in DOMAIN statuses : statuses'[x] = statuses[x]
      BY <1>4 DEF Remember
    <2>2. \A x \in Paths : Answered(x)' = Answered(x)
      BY <1>4 DEF Answered, Recorded
    <2>3. OneFileBehindEachPath'
      BY <1>4, <2>2 DEF IInv, OneFileBehindEachPath, complete
    <2>4. Known'
      <3>1. \A j \in Answered(p) : ~Negative(j, obs[<<j, p>>])
        BY <1>1, PriorPointwise
      <3> SUFFICES ASSUME NEW x \in Paths, NEW j \in Answered(x)'
                   PROVE  /\ obs'[<<j, x>>].err = "ok" =>
                               /\ obs'[<<j, x>>].phys # None \/ obs'[<<j, x>>].status # NoStatus
                               /\ obs'[<<j, x>>].status # NoStatus =>
                                  x \in DOMAIN statuses' /\ obs'[<<j, x>>].status = statuses'[x]
                          /\ x \in DOMAIN statuses' => ~Negative(j, obs'[<<j, x>>])
        BY DEF Known, Negative
      <3>2. j \in Answered(x) /\ obs' = obs
        BY <1>4, <2>2
      <3> QED
        BY <1>1, <2>1, <3>1, <3>2 DEF IInv, Known
    <2>5. PendingKnown'
      BY <1>1, <1>4, <2>1 DEF PendingKnown, Recorded
    <2> QED
      BY <2>3, <2>4, <2>5 DEF IInv
  <1> QED
    BY <1>2, <1>3, <1>4 DEF StatusBegin

(* The two later steps of a status query: the recorder may have failed only     *)
(* before it began, so the pending query is the one the table remembers.        *)
LEMMA PendingStore ==
    ASSUME IInv, TypeOK', NEW a \in Answers, NEW charge \in Nat, pending # Idle,
           Store("Status", pending.path, a, strings, charge),
           UNCHANGED statuses, pending' = Idle,
           a.err = "ok" => a.status = pending.status
    PROVE  IInv'
  <1> DEFINE p == pending.path
  <1>1. pending \in Pendings /\ p \in Paths /\ pending.status \in StatusSet /\ strings \in Nat
    BY DEF IInv, TypeOK, RestOK, Pendings
  <1>2. CASE failure' # "none"
    BY <1>2, FailedKeeps
  <1>3. CASE failure' = "none"
    <2>1. complete
      BY <1>3 DEF Store, Fail, complete
    <2>2. /\ p \in DOMAIN statuses /\ statuses[p] = pending.status /\ ~Recorded("Status", p)
          /\ statuses' = statuses
      BY <2>1 DEF IInv, PendingKnown
    <2>3. obs' = Remember(obs, <<"Status", p>>, a)
          /\ ~Retargeted(p, a) /\ ~Disappeared("Status", p, a, statuses')
      BY <1>3, <2>1 DEF Store, Fail, complete
    <2>4. \A j \in Answered(p) : ~Negative(j, obs[<<j, p>>])
      BY <1>1, <2>1, <2>2 DEF IInv, Known
    <2>5. ~Negative("Status", a)
      BY <2>2, <2>3 DEF Disappeared, Negative
    <2>6. a.err = "ok" => a.status # NoStatus
      BY <1>1 DEF StatusSet, NoStatus
    <2>7. \A j \in Answered(p) :
             a.err = "ok" /\ a.phys # None /\ obs[<<j, p>>].err = "ok" /\ obs[<<j, p>>].phys # None
             => obs[<<j, p>>].phys = a.phys
      BY <1>1, <2>3, PriorPointwise DEF Retargeted
    <2>8. Fits("Status", p, a, statuses')
      BY <2>2, <2>4, <2>5, <2>6, <2>7 DEF Fits
    <2>9. Grows(p)
      BY <2>2 DEF Grows
    <2>10. OneFileBehindEachPath' /\ Known'
      BY <1>1, <2>1, <2>2, <2>3, <2>8, <2>9, FittingAnswer DEF Kinds
    <2> QED
      BY <2>10 DEF IInv, PendingKnown
  <1> QED
    BY <1>2, <1>3

LEMMA StatusResolveIInv == ASSUME IInv, TypeOK', StatusResolve PROVE IInv'
  <1> DEFINE p == pending.path
  <1>1. TypeOK /\ pending \in Pendings /\ p \in Paths /\ pending # Idle
    BY DEF StatusResolve, IInv, TypeOK, RestOK, Pendings
  <1>2. CASE Resolves(p) /\ pending' = [pending EXCEPT !.phys = target[p]]
             /\ UNCHANGED <<obs, strings, failure>>
    <2>1. pending'.path = p /\ pending'.status = pending.status
      BY <1>1, <1>2 DEF Pendings
    <2>2. UNCHANGED <<statuses, obs, failure>>
      BY <1>2 DEF StatusResolve
    <2>3. PendingKnown'
      BY <1>1, <2>1, <2>2 DEF IInv, PendingKnown, complete, Recorded
    <2> QED
      BY <2>2, <2>3 DEF IInv, OneFileBehindEachPath, Known, complete, Answered, Recorded
  <1>3. CASE ~Resolves(p) /\ pending' = Idle /\ Store("Status", p, Failed(target[p]), strings, 0)
    <2>1. Failed(target[p]) \in Answers /\ Failed(target[p]).err # "ok"
      BY <1>1, <1>3, ErrorType, FailedFields DEF Errors, Lost
    <2> QED
      BY <1>1, <1>3, <2>1, PendingStore DEF StatusResolve
  <1> QED
    BY <1>2, <1>3 DEF StatusResolve

LEMMA StatusRecheckIInv == ASSUME IInv, TypeOK', StatusRecheck PROVE IInv'
  <1> DEFINE p == pending.path
             a == Answer("ok", pending.status, pending.phys, None)
  <1>1. TypeOK /\ pending \in Pendings /\ p \in Paths /\ pending # Idle /\ pending' = Idle
        /\ UNCHANGED statuses
    BY DEF StatusRecheck, IInv, TypeOK, RestOK, Pendings
  <1>2. a \in Answers /\ a.status = pending.status
    BY <1>1, AnswerType DEF Pendings
  <1>3. CASE Store("Status", p, a, strings, 1)
    <2> HIDE DEF a
    <2> QED
      BY <1>1, <1>2, <1>3, PendingStore
  <1>4. CASE StoreFailed("Status", p, "ECHANGED", "changed", strings)
    <2>1. failure' # "none"
      BY <1>4 DEF StoreFailed, Fail, IInv, TypeOK, RestOK
    <2> QED
      BY <2>1, FailedKeeps
  <1> QED
    BY <1>3, <1>4 DEF StatusRecheck

(* A positive read or listing that agrees with the table and enters it. *)
LEMMA StoreStatusIInv ==
    ASSUME IInv, TypeOK', NEW k \in {"Open", "Directory"}, NEW p \in Paths, NEW a \in Answers,
           NEW used \in Nat, NEW charge \in Nat, NEW s \in StatusSet,
           a.status = s, Fresh(k, p), consistent(p, s),
           statuses' = Remember(statuses, p, s), UNCHANGED pending,
           Store(k, p, a, used, charge)
    PROVE  IInv'
  <1>1. CASE failure' # "none"
    BY <1>1, FailedKeeps
  <1>2. CASE failure' = "none"
    <2>1. complete /\ pending = Idle /\ PriorNegatives(p) = {} /\ k \in Kinds
      BY DEF Fresh, Admits, Asks, Kinds
    <2>2. Grows(p)
      BY <2>1 DEF Grows, Remember
    <2>3. p \in DOMAIN statuses' /\ statuses'[p] = s
      BY DEF consistent, Remember
    <2>4. a.status # NoStatus
      BY DEF StatusSet, NoStatus
    <2>5. OneFileBehindEachPath' /\ Known'
      BY <1>2, <2>1, <2>2, <2>3, <2>4, StoreKeeps
    <2> QED
      BY <2>1, <2>5 DEF IInv, PendingKnown
  <1> QED
    BY <1>1, <1>2

LEMMA OpenIInv ==
    ASSUME IInv, TypeOK', NEW p \in Paths,
           OpenReplay(p) \/ OpenError(p) \/ OpenRaced(p) \/ OpenRefused(p)
    PROVE  IInv'
  <1>1. TypeOK /\ complete /\ Fresh("Open", p)
    BY DEF IInv, OpenReplay, OpenError, OpenRaced, OpenRefused, Opening, Fresh, Admits, Asks
  <1>2. CASE OpenReplay(p)
    <2>1. obs[<<"Status", p>>] \in Answers /\ obs[<<"Status", p>>].err # "ok"
      BY <1>1, <1>2 DEF OpenReplay, Recorded, TypeOK, ObsOK
    <2>2. /\ Failed(obs[<<"Status", p>>].err) \in Answers
          /\ Failed(obs[<<"Status", p>>].err).err # "ok"
      BY <2>1, FailedFields DEF Answers
    <2> QED
      BY <1>1, <1>2, <2>2, UsedType, StoreIInv DEF OpenReplay, Kinds
  <1>3. CASE OpenError(p)
    <2>1. CASE ~Resolves(p) /\ Store("Open", p, Failed(target[p]), strings + NameCharge, 0)
      <3>1. Failed(target[p]) \in Answers /\ Failed(target[p]).err # "ok"
        BY <1>1, <2>1, ErrorType, FailedFields DEF Errors, Lost
      <3> QED
        BY <1>1, <1>3, <2>1, <3>1, UsedType, StoreIInv DEF OpenError, Kinds
    <2>2. CASE Store("Open", p, Failed("EISDIR"), strings + NameCharge, 0)
      <3>1. Failed("EISDIR") \in Answers /\ Failed("EISDIR").err # "ok"
        BY FailedFields DEF Errors
      <3> QED
        BY <1>1, <1>3, <2>2, <3>1, UsedType, StoreIInv DEF OpenError, Kinds
    <2>3. CASE StoreFailed("Open", p, "EACCES", "denied", strings + NameCharge)
      BY <1>1, <2>3, StoreFailedIInv DEF Reasons
    <2> QED
      BY <1>3, <2>1, <2>2, <2>3 DEF OpenError
  <1>4. CASE OpenRaced(p) \/ OpenRefused(p)
    BY <1>1, <1>4, StoreFailedIInv DEF OpenRaced, OpenRefused, Reasons
  <1> QED
    BY <1>2, <1>3, <1>4

LEMMA OpenReadIInv == ASSUME IInv, TypeOK', NEW p \in Paths, OpenRead(p) PROVE IInv'
  <1> DEFINE s == StatusAt(p)
             d == data[NodeAt(p)]
             a == Answer("ok", s, target[p], d)
  <1>1. /\ TypeOK /\ complete /\ Fresh("Open", p) /\ consistent(p, s)
        /\ s \in StatusSet /\ target[p] \in Physicals /\ d \in Contents
    BY StatusType DEF IInv, OpenRead, Opening, Readable, Fresh, Admits, Asks
  <1>2. a \in Answers /\ a.status = s
    BY <1>1, AnswerType
  <1>3. /\ statuses' = Remember(statuses, p, s) /\ UNCHANGED pending
        /\ \/ StoreFailed("Open", p, "ECHANGED", "changed", strings + NameCharge + 2)
           \/ Store("Open", p, a, strings + NameCharge, 2)
    BY DEF OpenRead
  <1> HIDE DEF s, d, a
  <1>4. CASE StoreFailed("Open", p, "ECHANGED", "changed", strings + NameCharge + 2)
    BY <1>1, <1>4, StoreFailedIInv DEF Reasons
  <1>5. CASE Store("Open", p, a, strings + NameCharge, 2)
    BY <1>1, <1>2, <1>3, <1>5, UsedType, StoreStatusIInv
  <1> QED
    BY <1>3, <1>4, <1>5

LEMMA RealPathIInv == ASSUME IInv, TypeOK', NEW p \in Paths, RealPath(p) PROVE IInv'
  <1>1. TypeOK /\ Fresh("RealPath", p) /\ UNCHANGED <<statuses, pending>>
    BY DEF IInv, RealPath
  <1>2. PriorPhysicals(p) \subseteq Physicals
    BY <1>1 DEF PriorPhysicals, Answered, Recorded, TypeOK, ObsOK, Answers
  <1>3. CASE \E q \in Physicals :
               Store("RealPath", p, Answer("ok", NoStatus, q, None), strings + NameCharge, 1)
    <2>1. PICK q \in Physicals :
               Store("RealPath", p, Answer("ok", NoStatus, q, None), strings + NameCharge, 1)
      BY <1>3
    <2> DEFINE a == Answer("ok", NoStatus, q, None)
    <2>2. a \in Answers /\ a.phys = q /\ a.status = NoStatus /\ q # None
      BY AnswerType
    <2>3. Store("RealPath", p, a, strings + NameCharge, 1)
      BY <2>1
    <2> HIDE DEF a
    <2> QED
      BY <1>1, <2>2, <2>3, UsedType, StoreIInv DEF Kinds
  <1>4. CASE ~Resolves(p) /\ Store("RealPath", p, Failed(target[p]), strings + NameCharge, 0)
    <2>1. Failed(target[p]) \in Answers /\ Failed(target[p]).err # "ok"
      BY <1>1, <1>4, ErrorType, FailedFields DEF Errors, Lost
    <2> QED
      BY <1>1, <1>4, <2>1, UsedType, StoreIInv DEF Kinds
  <1> QED
    BY <1>2, <1>3, <1>4 DEF RealPath, Resolves

LEMMA DirectoryIInv ==
    ASSUME IInv, TypeOK', NEW p \in Paths,
           DirectoryError(p) \/ DirectoryRaced(p) \/ DirectoryInconsistent(p)
    PROVE  IInv'
  <1>1. TypeOK /\ complete /\ Fresh("Directory", p)
    BY DEF IInv, DirectoryError, DirectoryRaced, DirectoryInconsistent, Fresh, Admits, Asks
  <1>2. CASE UNCHANGED <<statuses, pending>> /\
             \E e \in Lost : Store("Directory", p, Failed(e), strings + NameCharge, 0)
    <2>1. \A e \in Lost : Failed(e) \in Answers /\ Failed(e).err # "ok"
      BY FailedFields DEF Errors, Lost
    <2> QED
      BY <1>1, <1>2, <2>1, UsedType, StoreIInv DEF Kinds
  <1>3. CASE \E r \in Reasons, e \in Errors :
               StoreFailed("Directory", p, e, r, strings + NameCharge)
    BY <1>1, <1>3, StoreFailedIInv
  <1> QED
    BY <1>2, <1>3
    DEF DirectoryError, DirectoryRaced, DirectoryInconsistent, Reasons, Errors, Lost

LEMMA DirectoryListIInv == ASSUME IInv, TypeOK', NEW p \in Paths, DirectoryList(p) PROVE IInv'
  <1> DEFINE s == StatusAt(p)
             a == Answer("ok", s, target[p], data[NodeAt(p)])
             used == strings + NameCharge
  <1>1. /\ TypeOK /\ complete /\ Fresh("Directory", p) /\ consistent(p, s)
        /\ s \in StatusSet /\ s.size \in Nat /\ a \in Answers /\ a.status = s /\ used \in Nat
    BY StatusType, AnswerType, UsedType
    DEF IInv, DirectoryList, Listable, Fresh, Admits, Asks, StatusSet
  <1>2. /\ statuses' = Remember(statuses, p, s) /\ UNCHANGED pending
        /\ \/ Store("Directory", p, a, used, 1 + s.size)
           \/ Fail("directory")
           \/ StoreFailed("Directory", p, "EFBIG", "limit", used)
    BY DEF DirectoryList
  <1> HIDE DEF s, a, used
  <1>3. CASE Store("Directory", p, a, used, 1 + s.size)
    BY <1>1, <1>2, <1>3, StoreStatusIInv
  <1>4. CASE Fail("directory")
    BY <1>1, <1>4, FailedKeeps DEF Fail, complete
  <1>5. CASE StoreFailed("Directory", p, "EFBIG", "limit", used)
    BY <1>1, <1>5, StoreFailedIInv DEF Reasons
  <1> QED
    BY <1>2, <1>3, <1>4, <1>5

LEMMA LocalityIInv == ASSUME IInv, TypeOK', NEW p \in Paths, Locality(p) PROVE IInv'
  <1> DEFINE a == IF Resolves(p) THEN Answer("ok", NoStatus, None, None)
                                 ELSE Failed(target[p])
  <1>1. a \in Answers
    BY AnswerType, ErrorType, FailedType DEF Errors, Lost, IInv
  <1>2. /\ Store("Locality", p, a, strings + NameCharge, 0) /\ Fresh("Locality", p)
        /\ UNCHANGED <<statuses, pending>>
    BY DEF Locality
  <1> HIDE DEF a
  <1> QED
    BY <1>1, <1>2, UsedType, StoreIInv DEF Kinds, IInv

(* A refusal fails the recorder; sealing and the motion of the disk touch       *)
(* nothing the invariant mentions.                                              *)
LEMMA RestIInv ==
    ASSUME IInv, TypeOK',
           \/ UNCHANGED <<obs, statuses, failure, pending>>
           \/ \E r \in Reasons : complete /\ Fail(r)
    PROVE  IInv'
  <1>1. CASE UNCHANGED <<obs, statuses, failure, pending>>
    BY <1>1 DEF IInv, OneFileBehindEachPath, Known, PendingKnown, complete, Answered, Recorded
  <1>2. CASE \E r \in Reasons : complete /\ Fail(r)
    BY <1>2, FailedKeeps DEF Fail, complete, Reasons
  <1> QED
    BY <1>1, <1>2

LEMMA QueryIInv == ASSUME IInv, TypeOK', NEW p \in Paths, Query(p) PROVE IInv'
  <1>1. CASE \E k \in Kinds : RefuseSealed(k, p) \/ RefuseLimit(k, p)
    BY <1>1, RestIInv DEF RefuseSealed, RefuseLimit, Asks, Reasons
  <1>2. CASE ~ \E k \in Kinds : RefuseSealed(k, p) \/ RefuseLimit(k, p)
    BY <1>2, ReplayNegativeIInv, StatusReplayIInv, StatusBeginIInv, OpenIInv, OpenReadIInv,
       RealPathIInv, DirectoryIInv, DirectoryListIInv, LocalityIInv
    DEF Query
  <1> QED
    BY <1>1, <1>2

(* Whatever the disk does, one file explains all a complete recorder answered   *)
(* about a path (the invariant of record() in CppAuditFileSystem.cpp).          *)
THEOREM OneFile == Spec => []OneFileBehindEachPath
  <1>1. Init /\ TypeOK => IInv
    BY DEF Init, EmptyMap, IInv, OneFileBehindEachPath, Known, PendingKnown, Answered, Recorded
  <1>2. IInv /\ TypeOK' /\ [Next]_vars => IInv'
    <2> SUFFICES ASSUME IInv, TypeOK', [Next]_vars PROVE IInv'
      OBVIOUS
    <2>1. CASE UNCHANGED vars
      BY <2>1, RestIInv DEF vars
    <2>2. CASE \E p \in Paths : Query(p)
      BY <2>2, QueryIInv
    <2>3. CASE StatusResolve \/ StatusRecheck
      BY <2>3, StatusResolveIInv, StatusRecheckIInv
    <2>4. CASE RefuseArgument \/ seal \/ DiskMoves
      BY <2>4, RestIInv DEF RefuseArgument, seal, DiskMoves, record, Reasons
    <2> QED
      BY <2>1, <2>2, <2>3, <2>4 DEF Next
  <1>3. IInv => OneFileBehindEachPath
    BY DEF IInv
  <1> QED
    BY <1>1, <1>2, <1>3, TypeCorrect, PTL DEF Spec

--------------------------------------------------------------------------------
(* The recorder implements PinnedView.                                          *)

(* A query under way was admitted, and nothing else happens until it ends. *)
PendingOpen == pending # Idle => complete /\ ~sealed /\ ~Recorded("Status", pending.path)

(* The step adds one answer to an open, unbroken view. *)
Answering == \E k \in Kinds, p \in Paths, a \in Answers :
    /\ complete /\ ~sealed /\ ~Recorded(k, p)
    /\ obs' = Remember(obs, <<k, p>>, a)
    /\ UNCHANGED sealed

(* What every step looks like to the view. *)
ViewStep ==
    \/ Answering
    \/ UNCHANGED <<obs, failure, sealed>>
    \/ complete /\ ~complete' /\ UNCHANGED <<obs, sealed>>
    \/ sealed' = TRUE /\ UNCHANGED <<obs, failure>>

LEMMA AnsweringMaps ==
    ASSUME OneFileBehindEachPath', Answering PROVE View!Next
  <1>1. PICK k \in Kinds, p \in Paths, a \in Answers :
            /\ complete /\ ~sealed /\ ~Recorded(k, p)
            /\ obs' = Remember(obs, <<k, p>>, a)
            /\ UNCHANGED sealed
    BY DEF Answering
  <1>2. <<k, p>> \in Kinds \X Paths /\ <<k, p>>[2] = p
    BY <1>1
  <1>3. View!Extends(<<k, p>>)
    BY <1>1 DEF View!Extends, Remember, Recorded
  <1>4. CASE complete'
    <2>1. View!Explained(obs', p)
      BY <1>4 DEF OneFileBehindEachPath, Answered, Recorded, Compatible, Negative,
                  View!Explained, View!Says, View!SaysAbsent
    <2>2. View!Reply
      BY <1>1, <1>2, <1>3, <1>4, <2>1 DEF View!Reply
    <2> QED
      BY <2>2 DEF View!Next
  <1>5. CASE ~complete'
    <2>1. View!Break
      BY <1>1, <1>2, <1>3, <1>5 DEF View!Break
    <2> QED
      BY <2>1 DEF View!Next
  <1> QED
    BY <1>4, <1>5

LEMMA ViewStepMaps ==
    ASSUME OneFileBehindEachPath', ViewStep PROVE [View!Next]_(View!vars)
  <1>1. CASE Answering
    BY <1>1, AnsweringMaps
  <1>2. CASE UNCHANGED <<obs, failure, sealed>>
    BY <1>2 DEF View!vars, complete
  <1>3. CASE complete /\ ~complete' /\ UNCHANGED <<obs, sealed>>
    <2>1. View!Break
      BY <1>3 DEF View!Break
    <2> QED
      BY <2>1 DEF View!Next
  <1>4. CASE sealed' = TRUE /\ UNCHANGED <<obs, failure>>
    BY <1>4 DEF View!Next, View!Close, complete
  <1> QED
    BY <1>1, <1>2, <1>3, <1>4 DEF ViewStep

LEMMA RememberAnswering ==
    ASSUME ObsOK', NEW k \in Kinds, NEW p \in Paths, NEW b,
           complete, ~sealed, ~Recorded(k, p), UNCHANGED sealed,
           obs' = Remember(obs, <<k, p>>, b)
    PROVE  Answering
  <1>1. <<k, p>> \in DOMAIN obs' /\ obs'[<<k, p>>] = b
    BY DEF Remember, Recorded
  <1>2. b \in Answers
    BY <1>1 DEF ObsOK
  <1> QED
    BY <1>2 DEF Answering

LEMMA StoreAnswering ==
    ASSUME ObsOK', NEW k \in Kinds, NEW p \in Paths, NEW a, NEW used, NEW charge,
           complete, ~sealed, ~Recorded(k, p), UNCHANGED sealed,
           Store(k, p, a, used, charge)
    PROVE  Answering
  <1>1. \E b : obs' = Remember(obs, <<k, p>>, b)
    BY DEF Store
  <1> QED
    BY <1>1, RememberAnswering

LEMMA StoreFailedAnswering ==
    ASSUME ObsOK', NEW k \in Kinds, NEW p \in Paths, NEW e, NEW r, NEW used,
           complete, ~sealed, ~Recorded(k, p), UNCHANGED sealed,
           StoreFailed(k, p, e, r, used)
    PROVE  Answering
  <1>1. obs' = Remember(obs, <<k, p>>, Failed(e))
    BY DEF StoreFailed
  <1> QED
    BY <1>1, RememberAnswering

(* What an admitted query starts from. *)
LEMMA Admitted ==
    ASSUME NEW k, NEW p, Admits(k, p)
    PROVE  complete /\ ~sealed /\ ~Recorded(k, p) /\ pending = Idle
  BY DEF Admits, Asks

LEMMA QueryView ==
    ASSUME TypeOK', NEW p \in Paths, Query(p)
    PROVE  ViewStep /\ (UNCHANGED pending \/ StatusBegin(p))
  <1> USE DEF TypeOK
  <1>1. CASE \E k \in Kinds : RefuseSealed(k, p) \/ RefuseLimit(k, p)
    BY <1>1 DEF RefuseSealed, RefuseLimit, Asks, Fail, complete, record, ViewStep
  <1>2. CASE \E k \in Kinds : ReplayNegative(k, p)
    BY <1>2, Admitted, RememberAnswering DEF ReplayNegative, ViewStep
  <1>3. CASE StatusReplay(p)
    BY <1>3, Admitted, StoreAnswering DEF StatusReplay, Fresh, Kinds, ViewStep
  <1>4. CASE StatusBegin(p)
    BY <1>4, Admitted, StoreAnswering, StoreFailedAnswering
    DEF StatusBegin, Fresh, Kinds, ViewStep
  <1>5. CASE OpenReplay(p) \/ OpenError(p)
    BY <1>5, Admitted, StoreAnswering, StoreFailedAnswering
    DEF OpenReplay, OpenError, Opening, Fresh, Kinds, ViewStep
  <1>6. CASE OpenRaced(p) \/ OpenRefused(p)
    BY <1>6, Admitted, StoreFailedAnswering
    DEF OpenRaced, OpenRefused, Opening, Fresh, Kinds, ViewStep
  <1>7. CASE OpenRead(p)
    <2>1. Fresh("Open", p) /\ UNCHANGED <<sealed, pending>>
          /\ \/ \E a, used, charge : Store("Open", p, a, used, charge)
             \/ \E e, r, used : StoreFailed("Open", p, e, r, used)
      BY <1>7 DEF OpenRead, Opening
    <2> QED
      BY <2>1, Admitted, StoreAnswering, StoreFailedAnswering DEF Fresh, Kinds, ViewStep
  <1>8. CASE RealPath(p)
    BY <1>8, Admitted, StoreAnswering DEF RealPath, Fresh, Kinds, ViewStep
  <1>9. CASE DirectoryError(p) \/ DirectoryRaced(p) \/ DirectoryInconsistent(p)
    BY <1>9, Admitted, StoreAnswering, StoreFailedAnswering
    DEF DirectoryError, DirectoryRaced, DirectoryInconsistent, Fresh, Kinds, ViewStep
  <1>10. CASE DirectoryList(p)
    <2>1. Fresh("Directory", p) /\ UNCHANGED <<sealed, pending>>
          /\ \/ \E a, used, charge : Store("Directory", p, a, used, charge)
             \/ \E a : obs' = Remember(obs, <<"Directory", p>>, a)
             \/ \E e, r, used : StoreFailed("Directory", p, e, r, used)
      BY <1>10 DEF DirectoryList
    <2> QED
      BY <2>1, Admitted, StoreAnswering, RememberAnswering, StoreFailedAnswering
      DEF Fresh, Kinds, ViewStep
  <1>11. CASE Locality(p)
    BY <1>11, Admitted, StoreAnswering DEF Locality, Fresh, Kinds, ViewStep
  <1> QED
    BY <1>1, <1>2, <1>3, <1>4, <1>5, <1>6, <1>7, <1>8, <1>9, <1>10, <1>11,
       Admitted DEF Query, RefuseSealed, RefuseLimit, ReplayNegative, StatusReplay,
       OpenReplay, OpenError, OpenRaced, OpenRefused, OpenRead, RealPath, DirectoryError,
       DirectoryRaced, DirectoryInconsistent, DirectoryList, Locality

LEMMA StepView ==
    ASSUME TypeOK, PendingOpen, TypeOK', [Next]_vars PROVE ViewStep /\ PendingOpen'
  <1>1. CASE UNCHANGED vars
    BY <1>1 DEF vars, ViewStep, PendingOpen, complete, Recorded
  <1>2. ASSUME NEW p \in Paths, Query(p) PROVE ViewStep /\ PendingOpen'
    <2>1. ViewStep /\ (UNCHANGED pending \/ StatusBegin(p))
      BY <1>2, QueryView
    <2>2. pending = Idle
      BY <1>2 DEF Query, RefuseSealed, RefuseLimit, ReplayNegative, StatusReplay, StatusBegin,
                  OpenReplay, OpenError, OpenRaced, OpenRefused, OpenRead, Opening, RealPath,
                  DirectoryError, DirectoryRaced, DirectoryInconsistent, DirectoryList,
                  Locality, Fresh, Admits, Asks
    <2>3. CASE StatusBegin(p) /\ pending' # Idle
      <3>1. pending'.path = p /\ UNCHANGED <<obs, failure, sealed>>
        BY <2>2, <2>3 DEF StatusBegin
      <3> QED
        BY <2>1, <2>3, <3>1 DEF PendingOpen, StatusBegin, Fresh, Admits, Asks, complete, Recorded
    <2> QED
      BY <2>1, <2>2, <2>3 DEF PendingOpen
  <1>3. CASE StatusResolve \/ StatusRecheck
    <2>1. pending # Idle /\ pending.path \in Paths /\ UNCHANGED sealed
      BY <1>3 DEF StatusResolve, StatusRecheck, TypeOK, RestOK, Pendings
    <2>2. complete /\ ~sealed /\ ~Recorded("Status", pending.path)
      BY <2>1 DEF PendingOpen
    <2>3. CASE pending' = Idle
      BY <1>3, <2>1, <2>2, <2>3, StoreAnswering, StoreFailedAnswering
      DEF StatusResolve, StatusRecheck, TypeOK, Kinds, ViewStep, PendingOpen
    <2>4. CASE UNCHANGED <<obs, failure>> /\ pending'.path = pending.path
      BY <2>1, <2>2, <2>4 DEF ViewStep, PendingOpen, complete, Recorded
    <2>5. pending' = Idle \/ (UNCHANGED <<obs, failure>> /\ pending'.path = pending.path)
      BY <1>3, <2>1 DEF StatusResolve, StatusRecheck, TypeOK, RestOK, Pendings
    <2> QED
      BY <2>3, <2>4, <2>5
  <1>4. CASE RefuseArgument \/ seal
    BY <1>4 DEF RefuseArgument, seal, record, Fail, complete, ViewStep, PendingOpen
  <1>5. CASE DiskMoves
    BY <1>5 DEF DiskMoves, record, ViewStep, PendingOpen, complete, Recorded
  <1> QED
    BY <1>1, <1>2, <1>3, <1>4, <1>5 DEF Next

(* CppAuditFileSystem keeps the promises of PinnedView for every disk, policy   *)
(* and set of limits: each step of the recorder is a step of the view or none.  *)
THEOREM Refinement == Spec => ImplementsPinnedView
  <1>1. Init => View!Init /\ PendingOpen
    BY DEF Init, View!Init, EmptyMap, complete, PendingOpen
  <1>2. TypeOK /\ TypeOK' /\ OneFileBehindEachPath' /\ PendingOpen /\ [Next]_vars
        => [View!Next]_(View!vars) /\ PendingOpen'
    BY StepView, ViewStepMaps
  <1> QED
    BY <1>1, <1>2, TypeCorrect, OneFile, PTL DEF Spec, ImplementsPinnedView, View!Spec

--------------------------------------------------------------------------------
(* The budgets.  A status query under way has been admitted but has not stored   *)
(* its answer: the room for it must still be there when it does.                 *)
BudgetInv ==
    /\ BudgetsHold /\ IsFiniteSet(DOMAIN obs)
    /\ pending # Idle => Cardinality(DOMAIN obs) < MaxQueries

(* What an opened file may weigh. *)
Fair(k, a) == a.err = "ok" /\ k = "Open" => Size[a.data] <= MaxFileBytes

(* Charges() leaves room for what it admits. *)
LEMMA Room ==
    ASSUME NEW limit \in Nat, NEW used \in Nat, NEW amount \in Nat,
           used <= limit, amount <= Remaining(limit, used)
    PROVE  used + amount <= limit
  BY DEF Remaining, Min2

LEMMA FreshRoom ==
    ASSUME TypeOK, BudgetInv, NEW k, NEW p, Admits(k, p)
    PROVE  /\ strings + NameCharge \in Nat /\ strings + NameCharge <= MaxStringBytes
           /\ Cardinality(DOMAIN obs) < MaxQueries
  <1>1. strings \in Nat /\ NameCharge \in Nat /\ strings <= MaxStringBytes
    BY DEF TypeOK, RestOK, BudgetInv, BudgetsHold, NameCharge
  <1>2. strings + NameCharge <= MaxStringBytes
    BY <1>1, Room DEF Admits, Charges
  <1> QED
    BY <1>1, <1>2 DEF Admits

LEMMA RememberBudget ==
    ASSUME BudgetInv, Cardinality(DOMAIN obs) < MaxQueries,
           NEW k, NEW p, NEW a, Fair(k, a), obs' = Remember(obs, <<k, p>>, a)
    PROVE  /\ IsFiniteSet(DOMAIN obs') /\ Cardinality(DOMAIN obs') <= MaxQueries
           /\ \A x \in DOMAIN obs' :
                 obs'[x].err = "ok" /\ x[1] = "Open" => Size[obs'[x].data] <= MaxFileBytes
  <1>1. DOMAIN obs' = DOMAIN obs \cup {<<k, p>>}
    BY DEF Remember
  <1>2. IsFiniteSet(DOMAIN obs) /\ Cardinality(DOMAIN obs) \in Nat
    BY FS_CardinalityType DEF BudgetInv
  <1>3. /\ IsFiniteSet(DOMAIN obs')
        /\ Cardinality(DOMAIN obs') = Cardinality(DOMAIN obs) \/ Cardinality(DOMAIN obs') = Cardinality(DOMAIN obs) + 1
    <2> DEFINE D == DOMAIN obs
               x == <<k, p>>
    <2>1. IsFiniteSet(D) /\ DOMAIN obs' = D \cup {x}
      BY <1>1, <1>2
    <2> HIDE DEF D, x
    <2>2. /\ IsFiniteSet(D \cup {x})
          /\ Cardinality(D \cup {x}) = IF x \in D THEN Cardinality(D) ELSE Cardinality(D) + 1
      BY <2>1, FS_AddElement
    <2>3. IsFiniteSet(DOMAIN obs') /\ Cardinality(DOMAIN obs') \in {Cardinality(D), Cardinality(D) + 1}
      BY <2>1, <2>2
    <2> QED
      BY <2>3 DEF D
  <1>4. Cardinality(DOMAIN obs') <= MaxQueries
    BY <1>2, <1>3
  <1>5. ASSUME NEW x \in DOMAIN obs', obs'[x].err = "ok", x[1] = "Open"
        PROVE  Size[obs'[x].data] <= MaxFileBytes
    <2>1. CASE x \in DOMAIN obs
      <3>1. obs'[x] = obs[x]
        BY <2>1 DEF Remember
      <3> QED
        BY <1>5, <2>1, <3>1 DEF BudgetInv, BudgetsHold
    <2>2. CASE x \notin DOMAIN obs
      <3>1. x = <<k, p>> /\ x[1] = k /\ obs'[x] = a
        BY <1>1, <2>2 DEF Remember
      <3> QED
        BY <1>5, <3>1 DEF Fair
    <2> QED
      BY <2>1, <2>2
  <1> QED
    BY <1>3, <1>4, <1>5

(* Every way an answer is stored keeps the counts. *)
Stored == /\ IsFiniteSet(DOMAIN obs') /\ Cardinality(DOMAIN obs') <= MaxQueries
          /\ \A x \in DOMAIN obs' :
                obs'[x].err = "ok" /\ x[1] = "Open" => Size[obs'[x].data] <= MaxFileBytes
          /\ strings' <= MaxStringBytes

LEMMA StoreBudget ==
    ASSUME BudgetInv, Cardinality(DOMAIN obs) < MaxQueries,
           NEW k, NEW p, NEW a, NEW used \in Nat, NEW charge \in Nat,
           used <= MaxStringBytes, Fair(k, a), Store(k, p, a, used, charge)
    PROVE  Stored
  <1>1. \A e \in Errors \ {"ok"} : Fair(k, Failed(e))
    BY DEF Fair, Failed, Answer
  <1>2. CASE Charges(used, charge)
    <2>1. PICK b : Fair(k, b) /\ obs' = Remember(obs, <<k, p>>, b)
      BY <1>1, <1>2 DEF Store, Errors
    <2>2. strings' = used + charge /\ strings' <= MaxStringBytes
      BY <1>2, Room DEF Store, Charges
    <2> QED
      BY <2>1, <2>2, RememberBudget DEF Stored
  <1>3. CASE ~Charges(used, charge)
    <2>1. obs' = Remember(obs, <<k, p>>, Failed("EFBIG")) /\ strings' = used
      BY <1>3 DEF Store
    <2>2. Fair(k, Failed("EFBIG"))
      BY <1>1 DEF Errors
    <2> QED
      BY <2>1, <2>2, RememberBudget DEF Stored
  <1> QED
    BY <1>2, <1>3

LEMMA StoreFailedBudget ==
    ASSUME BudgetInv, Cardinality(DOMAIN obs) < MaxQueries,
           NEW k, NEW p, NEW e \in Errors \ {"ok"}, NEW r, NEW used,
           used <= MaxStringBytes, StoreFailed(k, p, e, r, used)
    PROVE  Stored
  <1>1. Fair(k, Failed(e))
    BY DEF Fair, Failed, Answer
  <1> QED
    BY <1>1, RememberBudget DEF StoreFailed, Stored

LEMMA StoredKeeps ==
    ASSUME TypeOK, BudgetInv, Stored, pending' = Idle,
           captured' <= MaxTotalBytes, entries' <= MaxEntries
    PROVE  BudgetInv'
  BY DEF Stored, BudgetInv, BudgetsHold

LEMMA FairOther == ASSUME NEW k, NEW a, k # "Open" \/ a.err # "ok" PROVE Fair(k, a)
  BY DEF Fair

LEMMA RestBudget ==
    ASSUME BudgetInv, UNCHANGED <<obs, captured, strings, entries>>,
           pending' # Idle => Cardinality(DOMAIN obs) < MaxQueries
    PROVE  BudgetInv'
  BY DEF BudgetInv, BudgetsHold

(* What the limit on one read admits. *)
LEMMA ReadRoom ==
    ASSUME TypeOK, BudgetInv, NEW n \in Nat, n <= ReadLimit
    PROVE  captured + n <= MaxTotalBytes /\ n <= MaxFileBytes
  <1>1. captured \in Nat /\ captured <= MaxTotalBytes
    BY DEF TypeOK, RestOK, BudgetInv, BudgetsHold
  <1>2. Remaining(MaxTotalBytes, captured) \in Nat
    BY <1>1 DEF Remaining, Min2
  <1>3. n <= Remaining(MaxTotalBytes, captured) /\ n <= MaxFileBytes
    BY <1>2 DEF ReadLimit, Min2
  <1> QED
    BY <1>1, <1>3, Room

LEMMA FailedNotOk == ASSUME NEW e PROVE Failed(e).err = e
  BY DEF Failed, Answer

LEMMA StatusBudget ==
    ASSUME TypeOK, BudgetInv, NEW p \in Paths, StatusReplay(p) \/ StatusBegin(p)
    PROVE  BudgetInv'
  <1> DEFINE used == strings + NameCharge
  <1>1. /\ used \in Nat /\ used <= MaxStringBytes /\ Cardinality(DOMAIN obs) < MaxQueries
        /\ UNCHANGED <<captured, entries>> /\ pending = Idle
    BY FreshRoom DEF StatusReplay, StatusBegin, Fresh, Admits, Asks
  <1>2. captured' <= MaxTotalBytes /\ entries' <= MaxEntries
    BY <1>1 DEF BudgetInv, BudgetsHold
  <1>3. CASE \E a : Store("Status", p, a, used, 0) /\ UNCHANGED pending
    <2>1. Stored
      BY <1>1, <1>3, FairOther, StoreBudget
    <2> QED
      BY <1>1, <1>2, <1>3, <2>1, StoredKeeps
  <1>4. CASE StoreFailed("Status", p, "ECHANGED", "changed", used) /\ UNCHANGED pending
    <2>1. Stored
      BY <1>1, <1>4, StoreFailedBudget DEF Errors
    <2> QED
      BY <1>1, <1>2, <1>4, <2>1, StoredKeeps
  <1>5. CASE strings' = used /\ UNCHANGED obs
    BY <1>1, <1>2, <1>5 DEF BudgetInv, BudgetsHold
  <1>6. \/ \E a : Store("Status", p, a, used, 0) /\ UNCHANGED pending
        \/ StoreFailed("Status", p, "ECHANGED", "changed", used) /\ UNCHANGED pending
        \/ strings' = used /\ UNCHANGED obs
    BY DEF StatusReplay, StatusBegin
  <1> QED
    BY <1>3, <1>4, <1>5, <1>6

LEMMA PendingBudget ==
    ASSUME TypeOK, BudgetInv, StatusResolve \/ StatusRecheck
    PROVE  BudgetInv'
  <1>1. /\ strings \in Nat /\ strings <= MaxStringBytes /\ Cardinality(DOMAIN obs) < MaxQueries
        /\ UNCHANGED <<captured, entries>>
    BY DEF TypeOK, RestOK, BudgetInv, BudgetsHold, StatusResolve, StatusRecheck
  <1>2. captured' <= MaxTotalBytes /\ entries' <= MaxEntries
    BY <1>1 DEF BudgetInv, BudgetsHold
  <1>3. ASSUME NEW a, NEW q, NEW charge \in Nat, Store("Status", q, a, strings, charge), pending' = Idle
        PROVE  BudgetInv'
    <2>1. Stored
      BY <1>1, <1>3, FairOther, StoreBudget
    <2> QED
      BY <1>2, <1>3, <2>1, StoredKeeps
  <1>4. ASSUME NEW q, StoreFailed("Status", q, "ECHANGED", "changed", strings), pending' = Idle
        PROVE  BudgetInv'
    <2>1. Stored
      BY <1>1, <1>4, StoreFailedBudget DEF Errors
    <2> QED
      BY <1>2, <1>4, <2>1, StoredKeeps
  <1>5. CASE UNCHANGED <<obs, strings>>
    BY <1>1, <1>5, RestBudget
  <1>6. CASE StatusResolve
    <2>1. \/ UNCHANGED <<obs, strings>>
          \/ pending' = Idle /\ Store("Status", pending.path, Failed(target[pending.path]), strings, 0)
      BY <1>6 DEF StatusResolve
    <2> QED
      BY <1>3, <1>5, <2>1
  <1>7. CASE StatusRecheck
    <2> DEFINE a == Answer("ok", pending.status, pending.phys, None)
    <2>1. /\ pending' = Idle
          /\ \/ Store("Status", pending.path, a, strings, 1)
             \/ StoreFailed("Status", pending.path, "ECHANGED", "changed", strings)
      BY <1>7 DEF StatusRecheck
    <2> HIDE DEF a
    <2> QED
      BY <1>3, <1>4, <2>1
  <1> QED
    BY <1>6, <1>7

(* A query stores its answer, or the failure it ended in.                        *)
LEMMA QueryStores ==
    ASSUME TypeOK, BudgetInv, NEW k, NEW p, Admits(k, p), NEW a, NEW charge \in Nat,
           Fair(k, a), Store(k, p, a, strings + NameCharge, charge), UNCHANGED pending,
           captured' <= MaxTotalBytes, entries' <= MaxEntries
    PROVE  BudgetInv'
  <1>1. Stored
    BY FreshRoom, StoreBudget
  <1>2. pending' = Idle
    BY DEF Admits, Asks
  <1> QED
    BY <1>1, <1>2, StoredKeeps

LEMMA QueryFails ==
    ASSUME TypeOK, BudgetInv, NEW k, NEW p, Admits(k, p), NEW e \in Errors \ {"ok"}, NEW r,
           NEW used, used <= MaxStringBytes, StoreFailed(k, p, e, r, used), UNCHANGED pending,
           captured' <= MaxTotalBytes, entries' <= MaxEntries
    PROVE  BudgetInv'
  <1>1. Stored
    BY FreshRoom, StoreFailedBudget
  <1>2. pending' = Idle
    BY DEF Admits, Asks
  <1> QED
    BY <1>1, <1>2, StoredKeeps

LEMMA SpentBudget ==
    ASSUME BudgetInv, UNCHANGED <<captured, entries>>
    PROVE  captured' <= MaxTotalBytes /\ entries' <= MaxEntries
  BY DEF BudgetInv, BudgetsHold

LEMMA OpenBudget ==
    ASSUME TypeOK, BudgetInv, NEW p \in Paths,
           OpenReplay(p) \/ OpenError(p) \/ OpenRaced(p) \/ OpenRefused(p)
    PROVE  BudgetInv'
  <1> DEFINE used == strings + NameCharge
  <1>1. /\ Admits("Open", p) /\ UNCHANGED pending
        /\ captured' <= MaxTotalBytes /\ entries' <= MaxEntries
    BY SpentBudget DEF OpenReplay, OpenError, OpenRaced, OpenRefused, Opening, Fresh
  <1>2. used \in Nat /\ used <= MaxStringBytes
    BY <1>1, FreshRoom
  <1>3. CASE OpenReplay(p)
    <2>1. obs[<<"Status", p>>].err # "ok"
          /\ Store("Open", p, Failed(obs[<<"Status", p>>].err), strings + NameCharge, 0)
      BY <1>3 DEF OpenReplay
    <2> QED
      BY <1>1, <2>1, FairOther, FailedNotOk, QueryStores
  <1>4. CASE OpenError(p)
    <2>1. \/ ~Resolves(p) /\ Store("Open", p, Failed(target[p]), strings + NameCharge, 0)
          \/ Store("Open", p, Failed("EISDIR"), strings + NameCharge, 0)
          \/ StoreFailed("Open", p, "EACCES", "denied", used)
      BY <1>4 DEF OpenError
    <2>2. ~Resolves(p) => Failed(target[p]).err # "ok"
      BY ErrorType, FailedNotOk DEF Lost
    <2>3. Failed("EISDIR").err # "ok"
      BY FailedNotOk
    <2> HIDE DEF used
    <2>4. CASE StoreFailed("Open", p, "EACCES", "denied", used)
      BY <1>1, <1>2, <2>4, QueryFails DEF Errors
    <2> QED
      BY <1>1, <2>1, <2>2, <2>3, <2>4, FairOther, QueryStores
  <1>5. CASE OpenRaced(p)
    <2>1. StoreFailed("Open", p, "ECHANGED", "changed", used)
      BY <1>5 DEF OpenRaced
    <2> HIDE DEF used
    <2> QED
      BY <1>1, <1>2, <2>1, QueryFails DEF Errors
  <1>6. CASE OpenRefused(p)
    <2>1. \/ \E e \in {"EFBIG", "ECHANGED"}, r \in Reasons : StoreFailed("Open", p, e, r, used)
          \/ Charges(used, 2) /\ StoreFailed("Open", p, "ECHANGED", "changed", used + 2)
      BY <1>6 DEF OpenRefused, Reasons
    <2>2. Charges(used, 2) => used + 2 <= MaxStringBytes
      BY <1>2, Room DEF Charges
    <2> HIDE DEF used
    <2>3. CASE \E e \in {"EFBIG", "ECHANGED"}, r \in Reasons : StoreFailed("Open", p, e, r, used)
      BY <1>1, <1>2, <2>3, QueryFails DEF Errors
    <2>4. CASE Charges(used, 2) /\ StoreFailed("Open", p, "ECHANGED", "changed", used + 2)
      BY <1>1, <2>2, <2>4, QueryFails DEF Errors
    <2> QED
      BY <2>1, <2>3, <2>4
  <1> QED
    BY <1>3, <1>4, <1>5, <1>6

LEMMA OpenReadBudget ==
    ASSUME TypeOK, BudgetInv, NEW p \in Paths, OpenRead(p)
    PROVE  BudgetInv'
  <1> DEFINE s == StatusAt(p)
             bytes == data[NodeAt(p)]
             used == strings + NameCharge
             a == Answer("ok", s, target[p], bytes)
  <1>1. /\ Admits("Open", p) /\ UNCHANGED <<pending, entries>> /\ s.size <= ReadLimit
        /\ captured' = captured + s.size /\ Charges(used, 2) /\ Resolves(p)
    BY DEF OpenRead, Opening, Fresh, Readable
  <1>2. used \in Nat /\ used <= MaxStringBytes
    BY <1>1, FreshRoom
  <1>3. s.size = Size[bytes] /\ s.size \in Nat
    BY <1>1, StatusType DEF StatusAt, StatusSet
  <1>4. captured' <= MaxTotalBytes /\ s.size <= MaxFileBytes
    BY <1>1, <1>3, ReadRoom
  <1>5. entries' <= MaxEntries
    BY <1>1 DEF BudgetInv, BudgetsHold
  <1>6. Fair("Open", a)
    BY <1>3, <1>4 DEF Fair, Answer
  <1>7. used + 2 <= MaxStringBytes
    BY <1>1, <1>2, Room DEF Charges
  <1>8. \/ StoreFailed("Open", p, "ECHANGED", "changed", used + 2)
        \/ Store("Open", p, a, strings + NameCharge, 2)
    BY DEF OpenRead
  <1> HIDE DEF s, bytes, used, a
  <1>9. CASE StoreFailed("Open", p, "ECHANGED", "changed", used + 2)
    BY <1>1, <1>4, <1>5, <1>7, <1>9, QueryFails DEF Errors
  <1>10. CASE Store("Open", p, a, strings + NameCharge, 2)
    BY <1>1, <1>4, <1>5, <1>6, <1>10, QueryStores
  <1> QED
    BY <1>8, <1>9, <1>10

LEMMA PathBudget ==
    ASSUME TypeOK, BudgetInv, NEW p \in Paths, RealPath(p) \/ Locality(p)
    PROVE  BudgetInv'
  <1>1. ASSUME NEW k \in {"RealPath", "Locality"}, NEW a, NEW charge \in Nat, Admits(k, p),
               Store(k, p, a, strings + NameCharge, charge), UNCHANGED <<captured, entries, pending>>
        PROVE  BudgetInv'
    BY <1>1, SpentBudget, FairOther, QueryStores
  <1>2. CASE RealPath(p)
    <2>1. Admits("RealPath", p) /\ UNCHANGED <<captured, entries, pending>>
      BY <1>2 DEF RealPath, Fresh
    <2>2. CASE \E q : Store("RealPath", p, Answer("ok", NoStatus, q, None), strings + NameCharge, 1)
      BY <1>1, <2>1, <2>2
    <2>3. CASE Store("RealPath", p, Failed(target[p]), strings + NameCharge, 0)
      BY <1>1, <2>1, <2>3
    <2> QED
      BY <1>2, <2>2, <2>3 DEF RealPath
  <1>3. CASE Locality(p)
    <2> DEFINE a == IF Resolves(p) THEN Answer("ok", NoStatus, None, None) ELSE Failed(target[p])
    <2>1. /\ Admits("Locality", p) /\ UNCHANGED <<captured, entries, pending>>
          /\ Store("Locality", p, a, strings + NameCharge, 0)
      BY <1>3 DEF Locality, Fresh
    <2> HIDE DEF a
    <2> QED
      BY <1>1, <2>1
  <1> QED
    BY <1>2, <1>3

LEMMA DirectoryBudget ==
    ASSUME TypeOK, BudgetInv, NEW p \in Paths,
           DirectoryError(p) \/ DirectoryRaced(p) \/ DirectoryInconsistent(p)
    PROVE  BudgetInv'
  <1> DEFINE used == strings + NameCharge
  <1>1. /\ Admits("Directory", p) /\ UNCHANGED pending
        /\ captured' <= MaxTotalBytes /\ entries' <= MaxEntries
    BY SpentBudget DEF DirectoryError, DirectoryRaced, DirectoryInconsistent, Fresh
  <1>2. used \in Nat /\ used <= MaxStringBytes
    BY <1>1, FreshRoom
  <1>3. \/ \E e : Store("Directory", p, Failed(e), strings + NameCharge, 0)
        \/ \E e \in {"EACCES", "ECHANGED"} : \E r : StoreFailed("Directory", p, e, r, used)
    BY DEF DirectoryError, DirectoryRaced, DirectoryInconsistent
  <1> HIDE DEF used
  <1>4. CASE \E e : Store("Directory", p, Failed(e), strings + NameCharge, 0)
    BY <1>1, <1>4, FairOther, QueryStores
  <1>5. CASE \E e \in {"EACCES", "ECHANGED"} : \E r : StoreFailed("Directory", p, e, r, used)
    BY <1>1, <1>2, <1>5, QueryFails DEF Errors
  <1> QED
    BY <1>3, <1>4, <1>5

LEMMA DirectoryListBudget ==
    ASSUME TypeOK, BudgetInv, NEW p \in Paths, DirectoryList(p)
    PROVE  BudgetInv'
  <1> DEFINE s == StatusAt(p)
             used == strings + NameCharge
             a == Answer("ok", s, target[p], data[NodeAt(p)])
  <1>1. /\ Admits("Directory", p) /\ UNCHANGED <<pending, captured>>
        /\ s.size <= Remaining(MaxEntries, entries) /\ Resolves(p)
    BY DEF DirectoryList, Listable, Fresh
  <1>2. /\ used \in Nat /\ used <= MaxStringBytes /\ Cardinality(DOMAIN obs) < MaxQueries
        /\ pending = Idle
    BY <1>1, FreshRoom DEF Admits, Asks
  <1>3. s.size \in Nat /\ entries \in Nat /\ entries <= MaxEntries /\ captured' <= MaxTotalBytes
    BY <1>1, StatusType DEF StatusSet, TypeOK, RestOK, BudgetInv, BudgetsHold
  <1>4. entries + s.size <= MaxEntries
    BY <1>1, <1>3, Room
  <1>5. CASE Charges(used, 1 + s.size)
    <2>1. /\ entries' = entries + s.size
          /\ \/ Store("Directory", p, a, used, 1 + s.size)
             \/ obs' = Remember(obs, <<"Directory", p>>, a) /\ strings' = used + 1 + s.size
      BY <1>5 DEF DirectoryList
    <2>2. used + 1 + s.size <= MaxStringBytes /\ 1 + s.size \in Nat
      BY <1>2, <1>3, <1>5, Room DEF Charges
    <2> HIDE DEF a, s, used
    <2>3. Stored
      <3>1. CASE Store("Directory", p, a, used, 1 + s.size)
        BY <1>2, <2>2, <3>1, FairOther, StoreBudget
      <3>2. CASE obs' = Remember(obs, <<"Directory", p>>, a) /\ strings' = used + 1 + s.size
        BY <1>2, <2>2, <3>2, FairOther, RememberBudget DEF Stored
      <3> QED
        BY <2>1, <3>1, <3>2
    <2> QED
      BY <1>1, <1>2, <1>3, <1>4, <2>1, <2>3, StoredKeeps
  <1>6. CASE ~Charges(used, 1 + s.size)
    <2>1. UNCHANGED entries /\ StoreFailed("Directory", p, "EFBIG", "limit", used)
      BY <1>6 DEF DirectoryList
    <2> HIDE DEF used, s
    <2> QED
      BY <1>1, <1>2, <1>3, <2>1, QueryFails DEF Errors
  <1> QED
    BY <1>5, <1>6

LEMMA ReplayBudget ==
    ASSUME TypeOK, BudgetInv, NEW k \in Kinds, NEW p \in Paths, ReplayNegative(k, p)
    PROVE  BudgetInv'
  <1>1. /\ Admits(k, p) /\ pending = Idle /\ UNCHANGED <<captured, entries, pending>>
        /\ strings' = strings + NameCharge
    BY DEF ReplayNegative, Admits, Asks
  <1>2. PICK e \in PriorNegatives(p) : obs' = Remember(obs, <<k, p>>, Failed(e))
    BY DEF ReplayNegative
  <1>3. e # "ok"
    BY <1>2 DEF PriorNegatives, Negative
  <1>4. Stored
    BY <1>1, <1>2, <1>3, FreshRoom, FairOther, FailedNotOk, RememberBudget DEF Stored
  <1> QED
    BY <1>1, <1>4, SpentBudget, StoredKeeps

(* No path through record(), a failing one included, overdraws a budget: bytes   *)
(* of content, retained strings, directory entries and observations, for every   *)
(* value of the limits.                                                          *)
THEOREM Budgets == Spec => []BudgetsHold
  <1>1. Init => BudgetInv
    <2> SUFFICES ASSUME Init PROVE BudgetInv
      OBVIOUS
    <2>1. DOMAIN obs = {} /\ IsFiniteSet(DOMAIN obs) /\ Cardinality(DOMAIN obs) = 0
      BY FS_EmptySet DEF Init, EmptyMap
    <2> QED
      BY <2>1 DEF Init, BudgetInv, BudgetsHold
  <1>2. TypeOK /\ BudgetInv /\ [Next]_vars => BudgetInv'
    <2> SUFFICES ASSUME TypeOK, BudgetInv, [Next]_vars PROVE BudgetInv'
      OBVIOUS
    <2>1. CASE UNCHANGED vars
      BY <2>1, RestBudget DEF vars, BudgetInv
    <2>2. ASSUME NEW p \in Paths, Query(p) PROVE BudgetInv'
      <3>1. CASE \E k \in Kinds : RefuseSealed(k, p) \/ RefuseLimit(k, p)
        BY <3>1, RestBudget DEF RefuseSealed, RefuseLimit, record, BudgetInv
      <3> QED
        BY <2>2, <3>1, ReplayBudget, StatusBudget, OpenBudget, OpenReadBudget, PathBudget,
           DirectoryBudget, DirectoryListBudget
        DEF Query
    <2>3. CASE StatusResolve \/ StatusRecheck
      BY <2>3, PendingBudget
    <2>4. CASE RefuseArgument \/ seal \/ DiskMoves
      BY <2>4, RestBudget DEF RefuseArgument, seal, DiskMoves, record, BudgetInv
    <2> QED
      BY <2>1, <2>2, <2>3, <2>4 DEF Next
  <1>3. BudgetInv => BudgetsHold
    BY DEF BudgetInv
  <1> QED
    BY <1>1, <1>2, <1>3, TypeCorrect, PTL DEF Spec

--------------------------------------------------------------------------------
(* Opened aliases: whatever was opened is what identities_ keeps of its file, so *)
(* two spellings of one file were given the same bytes and the same status.      *)
AliasInv ==
    complete => \A p \in Paths :
        Recorded("Open", p) /\ obs[<<"Open", p>>].err = "ok" =>
            /\ obs[<<"Open", p>>].status.node \in DOMAIN identities
            /\ identities[obs[<<"Open", p>>].status.node] =
                  [status |-> obs[<<"Open", p>>].status, bytes |-> obs[<<"Open", p>>].data]

(* Nothing is opened by the step. *)
OpensNothing ==
    \/ UNCHANGED obs
    \/ \E k, p, b : (k # "Open" \/ b.err # "ok") /\ obs' = Remember(obs, <<k, p>>, b)

LEMMA StoreOpensNothing ==
    ASSUME NEW k, NEW p, NEW a, NEW used, NEW charge, k # "Open" \/ a.err # "ok",
           Store(k, p, a, used, charge)
    PROVE  OpensNothing
  <1>1. Failed("ECHANGED").err # "ok" /\ Failed("EFBIG").err # "ok"
    BY FailedNotOk
  <1>2. obs' \in {Remember(obs, <<k, p>>, a), Remember(obs, <<k, p>>, Failed("ECHANGED")),
                  Remember(obs, <<k, p>>, Failed("EFBIG"))}
    BY DEF Store
  <1> QED
    BY <1>1, <1>2 DEF OpensNothing

LEMMA StoreFailedOpensNothing ==
    ASSUME NEW k, NEW p, NEW e, NEW r, NEW used, e # "ok", StoreFailed(k, p, e, r, used)
    PROVE  OpensNothing
  BY FailedNotOk DEF StoreFailed, OpensNothing

LEMMA NothingOpenedKeeps ==
    ASSUME AliasInv, OpensNothing, UNCHANGED identities, complete' => complete
    PROVE  AliasInv'
  <1> SUFFICES ASSUME complete, NEW p \in Paths, Recorded("Open", p)', obs'[<<"Open", p>>].err = "ok"
               PROVE  Recorded("Open", p) /\ obs'[<<"Open", p>>] = obs[<<"Open", p>>]
    BY DEF AliasInv
  <1>1. CASE UNCHANGED obs
    BY <1>1 DEF Recorded
  <1>2. CASE ~UNCHANGED obs
    <2>1. PICK k, q, b : (k # "Open" \/ b.err # "ok") /\ obs' = Remember(obs, <<k, q>>, b)
      BY <1>2 DEF OpensNothing
    <2>2. CASE Recorded("Open", p)
      BY <2>1, <2>2 DEF Recorded, Remember
    <2>3. CASE ~Recorded("Open", p)
      <3>1. <<"Open", p>> = <<k, q>> /\ obs'[<<"Open", p>>] = b
        BY <2>1, <2>3 DEF Recorded, Remember
      <3> QED
        BY <2>1, <3>1
    <2> QED
      BY <2>2, <2>3
  <1> QED
    BY <1>1, <1>2

LEMMA OpenReadAlias ==
    ASSUME TypeOK, AliasInv, NEW p \in Paths, OpenRead(p)
    PROVE  AliasInv'
  <1> DEFINE s == StatusAt(p)
             bytes == data[NodeAt(p)]
             used == strings + NameCharge
             a == Answer("ok", s, target[p], bytes)
  <1>1. complete /\ ~Recorded("Open", p) /\ consistent(p, s)
        /\ identities' = Remember(identities, s.node, [status |-> s, bytes |-> bytes])
    BY DEF OpenRead, Opening, Fresh, Admits, Asks
  <1>2. \/ StoreFailed("Open", p, "ECHANGED", "changed", used + 2)
        \/ /\ Store("Open", p, a, used, 2)
           /\ s.node \in DOMAIN identities => identities[s.node].bytes = bytes
    BY DEF OpenRead
  <1>3. a.status = s /\ a.data = bytes
    BY DEF Answer
  <1>4. IdentitiesOK
    BY DEF TypeOK
  <1> HIDE DEF s, bytes, used, a
  <1>5. CASE failure' # "none"
    BY <1>5 DEF AliasInv, complete
  <1>6. CASE failure' = "none"
    <2>1. obs' = Remember(obs, <<"Open", p>>, a) /\ Store("Open", p, a, used, 2)
      BY <1>1, <1>2, <1>6 DEF StoreFailed, Store, Fail, complete
    <2>2. /\ s.node \in DOMAIN identities'
          /\ identities'[s.node] = [status |-> s, bytes |-> bytes]
      <3>1. CASE s.node \in DOMAIN identities
        <4>1. identities'[s.node] = identities[s.node]
          BY <1>1, <3>1 DEF Remember
        <4>2. identities[s.node].status = s
          BY <1>1, <3>1 DEF consistent
        <4>3. identities[s.node].bytes = bytes
          BY <1>2, <1>6, <1>1, <3>1 DEF StoreFailed, Fail, complete
        <4>4. identities[s.node] \in [status : StatusSet, bytes : Contents]
          BY <1>4, <3>1 DEF IdentitiesOK
        <4> QED
          BY <1>1, <3>1, <4>1, <4>2, <4>3, <4>4 DEF Remember
      <3>2. CASE s.node \notin DOMAIN identities
        BY <1>1, <3>2 DEF Remember
      <3> QED
        BY <3>1, <3>2
    <2>3. \A n \in DOMAIN identities : n \in DOMAIN identities' /\ identities'[n] = identities[n]
      BY <1>1 DEF Remember
    <2>4. ASSUME NEW q \in Paths, Recorded("Open", q)', obs'[<<"Open", q>>].err = "ok"
          PROVE  /\ obs'[<<"Open", q>>].status.node \in DOMAIN identities'
                 /\ identities'[obs'[<<"Open", q>>].status.node] =
                       [status |-> obs'[<<"Open", q>>].status, bytes |-> obs'[<<"Open", q>>].data]
      <3>1. CASE q = p
        <4>1. obs'[<<"Open", q>>] = a
          BY <1>1, <2>1, <3>1 DEF Recorded, Remember
        <4> QED
          BY <1>3, <2>2, <4>1
      <3>2. CASE q # p
        <4>1. Recorded("Open", q) /\ obs'[<<"Open", q>>] = obs[<<"Open", q>>]
          BY <2>1, <2>4, <3>2 DEF Recorded, Remember
        <4> QED
          BY <1>1, <2>3, <2>4, <4>1 DEF AliasInv
      <3> QED
        BY <3>1, <3>2
    <2> QED
      BY <2>4 DEF AliasInv
  <1> QED
    BY <1>5, <1>6

LEMMA QueryOpensNothing ==
    ASSUME TypeOK, NEW p \in Paths, Query(p), ~OpenRead(p)
    PROVE  OpensNothing /\ UNCHANGED identities
  <1>1. ASSUME NEW k \in Kinds, RefuseSealed(k, p) \/ RefuseLimit(k, p) \/ ReplayNegative(k, p)
        PROVE  OpensNothing /\ UNCHANGED identities
    <2>1. CASE RefuseSealed(k, p) \/ RefuseLimit(k, p)
      BY <2>1 DEF RefuseSealed, RefuseLimit, record, OpensNothing
    <2>2. CASE ReplayNegative(k, p)
      <3>1. PICK e \in PriorNegatives(p) : obs' = Remember(obs, <<k, p>>, Failed(e))
        BY <2>2 DEF ReplayNegative
      <3>2. e # "ok"
        BY <3>1 DEF PriorNegatives, Negative
      <3> QED
        BY <2>2, <3>1, <3>2, FailedNotOk DEF ReplayNegative, OpensNothing
    <2> QED
      BY <1>1, <2>1, <2>2
  <1>2. CASE StatusReplay(p) \/ StatusBegin(p)
    BY <1>2, StoreOpensNothing, StoreFailedOpensNothing DEF StatusReplay, StatusBegin, OpensNothing
  <1>3. CASE OpenReplay(p)
    BY <1>3, FailedNotOk, StoreOpensNothing DEF OpenReplay
  <1>4. CASE OpenError(p)
    <2>1. ~Resolves(p) => Failed(target[p]).err # "ok"
      BY ErrorType, FailedNotOk DEF Lost
    <2> QED
      BY <1>4, <2>1, FailedNotOk, StoreOpensNothing, StoreFailedOpensNothing DEF OpenError
  <1>5. CASE OpenRaced(p) \/ OpenRefused(p)
    BY <1>5, StoreFailedOpensNothing DEF OpenRaced, OpenRefused
  <1>6. CASE RealPath(p)
    BY <1>6, StoreOpensNothing DEF RealPath
  <1>7. CASE DirectoryError(p) \/ DirectoryRaced(p) \/ DirectoryInconsistent(p)
    BY <1>7, StoreOpensNothing, StoreFailedOpensNothing
    DEF DirectoryError, DirectoryRaced, DirectoryInconsistent
  <1>8. CASE DirectoryList(p)
    BY <1>8, StoreOpensNothing, StoreFailedOpensNothing DEF DirectoryList, OpensNothing
  <1>9. CASE Locality(p)
    BY <1>9, StoreOpensNothing DEF Locality
  <1> QED
    BY <1>1, <1>2, <1>3, <1>4, <1>5, <1>6, <1>7, <1>8, <1>9 DEF Query

LEMMA FailureLasts ==
    ASSUME [Next]_vars, complete' PROVE complete
  <1>1. \A r \in Reasons : Fail(r) => failure' # "none"
    BY DEF Fail, Reasons
  <1>2. ASSUME NEW p \in Paths, Query(p) PROVE complete
    <2>1. CASE \E k \in Kinds : RefuseSealed(k, p) \/ RefuseLimit(k, p) \/ ReplayNegative(k, p)
      BY <2>1 DEF RefuseSealed, RefuseLimit, ReplayNegative, Admits, Asks
    <2>2. CASE StatusReplay(p) \/ StatusBegin(p)
      BY <2>2 DEF StatusReplay, StatusBegin, Fresh, Admits, Asks
    <2>3. CASE OpenReplay(p) \/ OpenError(p) \/ OpenRaced(p) \/ OpenRefused(p) \/ OpenRead(p)
      BY <2>3 DEF OpenReplay, OpenError, OpenRaced, OpenRefused, OpenRead, Opening, Fresh, Admits, Asks
    <2>4. CASE RealPath(p) \/ Locality(p)
      BY <2>4 DEF RealPath, Locality, Fresh, Admits, Asks
    <2>5. CASE DirectoryError(p) \/ DirectoryRaced(p) \/ DirectoryInconsistent(p) \/ DirectoryList(p)
      BY <2>5 DEF DirectoryError, DirectoryRaced, DirectoryInconsistent, DirectoryList, Fresh, Admits, Asks
    <2> QED
      BY <1>2, <2>1, <2>2, <2>3, <2>4, <2>5 DEF Query
  <1>3. CASE StatusResolve \/ StatusRecheck
    <2>1. \A k, p, a, used, charge : Store(k, p, a, used, charge) /\ failure # "none" => failure' = failure
      BY DEF Store, Fail
    <2>2. \A k, p, e, r, used : StoreFailed(k, p, e, r, used) /\ failure # "none" => failure' = failure
      BY DEF StoreFailed, Fail
    <2> QED
      BY <1>3, <2>1, <2>2 DEF StatusResolve, StatusRecheck, complete
  <1>4. CASE RefuseArgument \/ seal \/ DiskMoves \/ UNCHANGED vars
    BY <1>4 DEF RefuseArgument, seal, DiskMoves, vars, complete
  <1> QED
    BY <1>2, <1>3, <1>4 DEF Next

(* Two spellings opened to the same file were given the same bytes and the same  *)
(* metadata, even if the file was rewritten in between and its timestamps        *)
(* restored.                                                                     *)
THEOREM OpenedAliases == Spec => []OpenedAliasesAgree
  <1>1. Init => AliasInv
    BY DEF Init, EmptyMap, AliasInv, Recorded
  <1>2. TypeOK /\ AliasInv /\ [Next]_vars => AliasInv'
    <2> SUFFICES ASSUME TypeOK, AliasInv, [Next]_vars PROVE AliasInv'
      OBVIOUS
    <2>1. ASSUME NEW p \in Paths, Query(p) PROVE AliasInv'
      BY <2>1, QueryOpensNothing, OpenReadAlias, NothingOpenedKeeps, FailureLasts
    <2>2. CASE StatusResolve \/ StatusRecheck
      <3>1. OpensNothing /\ UNCHANGED identities
        BY <2>2, StoreOpensNothing, StoreFailedOpensNothing DEF StatusResolve, StatusRecheck, OpensNothing
      <3> QED
        BY <3>1, NothingOpenedKeeps, FailureLasts
    <2>3. CASE RefuseArgument \/ seal \/ DiskMoves \/ UNCHANGED vars
      <3>1. OpensNothing /\ UNCHANGED identities
        BY <2>3 DEF RefuseArgument, seal, DiskMoves, vars, record, OpensNothing
      <3> QED
        BY <3>1, NothingOpenedKeeps, FailureLasts
    <2> QED
      BY <2>1, <2>2, <2>3 DEF Next
  <1>3. AliasInv => OpenedAliasesAgree
    <2> SUFFICES ASSUME AliasInv, complete,
                        NEW p \in Paths, Recorded("Open", p), obs[<<"Open", p>>].err = "ok",
                        NEW q \in Paths, Recorded("Open", q), obs[<<"Open", q>>].err = "ok",
                        obs[<<"Open", p>>].status.node = obs[<<"Open", q>>].status.node
                 PROVE  /\ obs[<<"Open", p>>].status = obs[<<"Open", q>>].status
                        /\ obs[<<"Open", p>>].data = obs[<<"Open", q>>].data
      BY DEF OpenedAliasesAgree
    <2> DEFINE Kept(a) == identities[a.status.node]
    <2>1. ASSUME NEW r \in Paths, Recorded("Open", r), obs[<<"Open", r>>].err = "ok"
          PROVE  /\ Kept(obs[<<"Open", r>>]).status = obs[<<"Open", r>>].status
                 /\ Kept(obs[<<"Open", r>>]).bytes = obs[<<"Open", r>>].data
      <3>1. Kept(obs[<<"Open", r>>]) = [status |-> obs[<<"Open", r>>].status, bytes |-> obs[<<"Open", r>>].data]
        BY <2>1 DEF AliasInv
      <3> HIDE DEF Kept
      <3> QED
        BY <3>1
    <2>2. Kept(obs[<<"Open", p>>]) = Kept(obs[<<"Open", q>>])
      OBVIOUS
    <2> HIDE DEF Kept
    <2> QED
      BY <2>1, <2>2
  <1> QED
    BY <1>1, <1>2, <1>3, TypeCorrect, PTL DEF Spec

--------------------------------------------------------------------------------
(* No false alarm.  While no other process has touched the disk, everything      *)
(* recorded is what the disk says now, so no comparison can fail.                *)
StatusesNow == \A p \in DOMAIN statuses : Resolves(p) /\ statuses[p] = StatusAt(p)
IdentitiesNow == \A n \in DOMAIN identities :
    /\ identities[n].status = [node |-> n, stamp |-> stamp[n], size |-> Size[data[n]]]
    /\ identities[n].bytes = data[n]
SaysNow(k, p, a) ==
    /\ a.err = "ok" /\ a.phys # None => target[p] = a.phys
    /\ Negative(k, a) => ~Resolves(p)
AnswersNow == \A k \in Kinds, p \in Paths : Recorded(k, p) => SaysNow(k, p, obs[<<k, p>>])
RealPathsNow == complete => \A p \in Paths :
    Recorded("RealPath", p) /\ Resolves(p) => obs[<<"RealPath", p>>].phys = target[p]
PendingNow == pending # Idle =>
    /\ Resolves(pending.path) /\ pending.status = StatusAt(pending.path)
    /\ pending.phys # None => pending.phys = target[pending.path]

QuietFacts ==
    /\ failure # "changed"
    /\ StatusesNow /\ IdentitiesNow /\ AnswersNow /\ RealPathsNow /\ PendingNow
QuietInv == moves = 0 => QuietFacts

(* What an unmoved disk says, it says again. *)
LEMMA SameDisk ==
    ASSUME UNCHANGED disk
    PROVE  /\ \A p : (Resolves(p)' <=> Resolves(p)) /\ StatusAt(p)' = StatusAt(p)
           /\ \A k, p, a : SaysNow(k, p, a)' <=> SaysNow(k, p, a)
           /\ UNCHANGED statuses => (StatusesNow' <=> StatusesNow)
           /\ UNCHANGED identities => (IdentitiesNow' <=> IdentitiesNow)
           /\ UNCHANGED pending => (PendingNow' <=> PendingNow)
  <1> USE DEF disk
  <1>1. \A p : (Resolves(p)' <=> Resolves(p)) /\ StatusAt(p)' = StatusAt(p)
    BY DEF Resolves, StatusAt, NodeAt
  <1>2. \A k, p, a : SaysNow(k, p, a)' <=> SaysNow(k, p, a)
    BY <1>1 DEF SaysNow
  <1>3. UNCHANGED statuses => (StatusesNow' <=> StatusesNow)
    BY <1>1 DEF StatusesNow
  <1>4. UNCHANGED identities => (IdentitiesNow' <=> IdentitiesNow)
    BY DEF IdentitiesNow
  <1>5. UNCHANGED pending => (PendingNow' <=> PendingNow)
    BY <1>1 DEF PendingNow
  <1> QED
    BY <1>1, <1>2, <1>3, <1>4, <1>5

LEMMA ConsistentNow ==
    ASSUME TypeOK, QuietFacts, NEW p \in Paths, Resolves(p)
    PROVE  consistent(p, StatusAt(p))
  <1>1. p \in DOMAIN statuses => statuses[p] = StatusAt(p)
    BY DEF QuietFacts, StatusesNow
  <1>2. NodeAt(p) \in DOMAIN identities => identities[NodeAt(p)].status = StatusAt(p)
    BY DEF QuietFacts, IdentitiesNow, StatusAt
  <1>3. StatusAt(p).node = NodeAt(p)
    BY DEF StatusAt
  <1> QED
    BY <1>1, <1>2, <1>3 DEF consistent

LEMMA PriorNow ==
    ASSUME TypeOK, QuietFacts, NEW p \in Paths
    PROVE  /\ PriorPhysicals(p) \subseteq {target[p]}
           /\ PriorPhysicals(p) # {} => Resolves(p)
           /\ PriorNegatives(p) # {} => ~Resolves(p)
  <1>1. ASSUME NEW q \in PriorPhysicals(p) PROVE q = target[p] /\ Resolves(p)
    <2>1. PICK k \in Answered(p) : obs[<<k, p>>].err = "ok" /\ q = obs[<<k, p>>].phys /\ q # None
      BY <1>1 DEF PriorPhysicals
    <2>2. k \in Kinds /\ Recorded(k, p) /\ obs[<<k, p>>] \in Answers
      BY <2>1 DEF Answered, Recorded, TypeOK, ObsOK
    <2>3. q \in Physicals
      BY <2>1, <2>2 DEF Answers
    <2> QED
      BY <2>1, <2>2, <2>3 DEF QuietFacts, AnswersNow, SaysNow, Resolves
  <1>2. ASSUME NEW e \in PriorNegatives(p) PROVE ~Resolves(p)
    BY <1>2 DEF PriorNegatives, Answered, QuietFacts, AnswersNow, SaysNow
  <1> QED
    BY <1>1, <1>2

(* An answer that says what the disk says is stored without alarm.               *)
LEMMA StoreQuiet ==
    ASSUME TypeOK, QuietFacts, UNCHANGED disk, StatusesNow',
           NEW k \in Kinds, NEW p \in Paths, NEW a, NEW used, NEW charge,
           Store(k, p, a, used, charge), SaysNow(k, p, a),
           k = "Directory" /\ a.err = "ENOTDIR" /\ Resolves(p) => NodeAt(p) \in Files,
           k = "RealPath" /\ Resolves(p) => a.phys = target[p]
    PROVE  failure' # "changed" /\ AnswersNow' /\ RealPathsNow'
  <1>1. ~Retargeted(p, a)
    BY PriorNow DEF Retargeted, SaysNow
  <1>2. ~Disappeared(k, p, a, statuses')
    <2>1. p \in DOMAIN statuses' => Resolves(p) /\ statuses'[p] = StatusAt(p)
      BY SameDisk DEF StatusesNow
    <2>2. PriorPhysicals(p) # {} \/ p \in DOMAIN statuses' => Resolves(p)
      BY <2>1, PriorNow
    <2>3. StatusAt(p).node = NodeAt(p)
      BY DEF StatusAt
    <2> QED
      BY <2>1, <2>2, <2>3 DEF Disappeared, SaysNow, Negative
  <1>3. failure' # "changed"
    BY <1>1, <1>2 DEF Store, Fail, QuietFacts
  <1>4. PICK b : /\ obs' = Remember(obs, <<k, p>>, b) /\ SaysNow(k, p, b)
                 /\ complete' => b = a /\ complete
    <2>1. CASE Charges(used, charge)
      BY <1>1, <1>2, <2>1 DEF Store, complete
    <2>2. CASE ~Charges(used, charge)
      <3>1. SaysNow(k, p, Failed("EFBIG"))
        BY FailedNotOk DEF SaysNow, Negative
      <3> QED
        BY <2>2, <3>1 DEF Store, Fail, complete
    <2> QED
      BY <2>1, <2>2
  <1>5. AnswersNow'
    <2> SUFFICES ASSUME NEW j \in Kinds, NEW q \in Paths, Recorded(j, q)'
                 PROVE  SaysNow(j, q, obs'[<<j, q>>])
      BY SameDisk DEF AnswersNow
    <2>1. CASE Recorded(j, q)
      BY <1>4, <2>1 DEF Recorded, Remember, QuietFacts, AnswersNow
    <2>2. CASE ~Recorded(j, q)
      <3>1. j = k /\ q = p /\ obs'[<<j, q>>] = b
        BY <1>4, <2>2 DEF Recorded, Remember
      <3> QED
        BY <1>4, <3>1
    <2> QED
      BY <2>1, <2>2
  <1>6. RealPathsNow'
    <2> SUFFICES ASSUME complete', NEW q \in Paths, Recorded("RealPath", q)', Resolves(q)
                 PROVE  obs'[<<"RealPath", q>>].phys = target'[q]
      BY SameDisk DEF RealPathsNow
    <2>1. CASE Recorded("RealPath", q)
      BY <1>4, <2>1 DEF Recorded, Remember, QuietFacts, RealPathsNow, disk
    <2>2. CASE ~Recorded("RealPath", q)
      <3>1. k = "RealPath" /\ q = p /\ obs'[<<"RealPath", q>>] = b
        BY <1>4, <2>2 DEF Recorded, Remember
      <3> QED
        BY <1>4, <3>1 DEF disk
    <2> QED
      BY <2>1, <2>2
  <1> QED
    BY <1>3, <1>5, <1>6

(* A failure of another kind than "changed" raises no alarm either. *)
LEMMA StoreFailedQuiet ==
    ASSUME QuietFacts, UNCHANGED disk,
           NEW k \in Kinds, NEW p \in Paths, NEW e, NEW r \in Reasons \ {"changed"}, NEW used,
           e \notin Lost \cup {"ok"}, StoreFailed(k, p, e, r, used)
    PROVE  failure' # "changed" /\ AnswersNow' /\ RealPathsNow'
  <1>1. failure' # "changed" /\ ~complete'
    BY DEF StoreFailed, Fail, QuietFacts, complete, Reasons
  <1>2. SaysNow(k, p, Failed(e)) /\ obs' = Remember(obs, <<k, p>>, Failed(e))
    BY FailedNotOk DEF SaysNow, Negative, Lost, StoreFailed
  <1>3. AnswersNow'
    <2> SUFFICES ASSUME NEW j \in Kinds, NEW q \in Paths, Recorded(j, q)'
                 PROVE  SaysNow(j, q, obs'[<<j, q>>])
      BY SameDisk DEF AnswersNow
    <2>1. CASE Recorded(j, q)
      BY <1>2, <2>1 DEF Recorded, Remember, QuietFacts, AnswersNow
    <2>2. CASE ~Recorded(j, q)
      <3>1. j = k /\ q = p /\ obs'[<<j, q>>] = Failed(e)
        BY <1>2, <2>2 DEF Recorded, Remember
      <3> QED
        BY <1>2, <3>1
    <2> QED
      BY <2>1, <2>2
  <1> QED
    BY <1>1, <1>3 DEF RealPathsNow

LEMMA QuietKeeps ==
    ASSUME QuietFacts, UNCHANGED disk, UNCHANGED <<statuses, identities, pending>>,
           failure' # "changed", AnswersNow', RealPathsNow'
    PROVE  QuietFacts'
  BY SameDisk DEF QuietFacts

LEMMA StoreQuietKeeps ==
    ASSUME TypeOK, QuietFacts, UNCHANGED disk, UNCHANGED <<statuses, identities, pending>>,
           NEW k \in Kinds, NEW p \in Paths, NEW a, NEW used, NEW charge,
           Store(k, p, a, used, charge), SaysNow(k, p, a),
           k = "Directory" /\ a.err = "ENOTDIR" /\ Resolves(p) => NodeAt(p) \in Files,
           k = "RealPath" /\ Resolves(p) => a.phys = target[p]
    PROVE  QuietFacts'
  <1>1. StatusesNow'
    BY SameDisk DEF QuietFacts
  <1> QED
    BY <1>1, StoreQuiet, QuietKeeps

LEMMA StoreFailedQuietKeeps ==
    ASSUME QuietFacts, UNCHANGED disk, UNCHANGED <<statuses, identities, pending>>,
           NEW k \in Kinds, NEW p \in Paths, NEW e, NEW r \in Reasons \ {"changed"}, NEW used,
           e \notin Lost \cup {"ok"}, StoreFailed(k, p, e, r, used)
    PROVE  QuietFacts'
  BY StoreFailedQuiet, QuietKeeps

LEMMA FailedSays ==
    ASSUME TypeOK, NEW k, NEW p \in Paths, NEW e, e # "ok", e \in Lost => ~Resolves(p)
    PROVE  SaysNow(k, p, Failed(e))
  BY FailedNotOk DEF SaysNow, Negative, Lost

LEMMA TargetSays ==
    ASSUME TypeOK, NEW k, NEW p \in Paths, ~Resolves(p)
    PROVE  SaysNow(k, p, Failed(target[p]))
  <1>1. target[p] # "ok"
    BY ErrorType DEF Lost
  <1> QED
    BY <1>1, FailedSays

LEMMA OkSays ==
    ASSUME NEW k, NEW p \in Paths, NEW s, NEW q \in {None, target[p]}, NEW d
    PROVE  SaysNow(k, p, Answer("ok", s, q, d))
  BY DEF SaysNow, Negative, Answer

LEMMA StatusQuiet ==
    ASSUME TypeOK, QuietFacts, UNCHANGED disk, NEW p \in Paths, StatusReplay(p) \/ StatusBegin(p)
    PROVE  QuietFacts'
  <1>1. CASE StatusReplay(p)
    <2> DEFINE a == Answer("ok", statuses[p], None, None)
    <2>1. Store("Status", p, a, strings + NameCharge, 0) /\ UNCHANGED <<statuses, identities, pending>>
      BY <1>1 DEF StatusReplay
    <2>2. SaysNow("Status", p, a)
      BY OkSays
    <2> HIDE DEF a
    <2> QED
      BY <2>1, <2>2, StoreQuietKeeps DEF Kinds
  <1>2. CASE StatusBegin(p) /\ ~Resolves(p)
    <2>1. Store("Status", p, Failed(target[p]), strings + NameCharge, 0)
          /\ UNCHANGED <<statuses, identities, pending>>
      BY <1>2 DEF StatusBegin
    <2> QED
      BY <1>2, <2>1, TargetSays, StoreQuietKeeps DEF Kinds
  <1>3. CASE StatusBegin(p) /\ Resolves(p)
    <2>1. /\ statuses' = Remember(statuses, p, StatusAt(p))
          /\ pending' = [path |-> p, status |-> StatusAt(p), phys |-> None]
          /\ UNCHANGED <<obs, failure, identities>>
      BY <1>3, ConsistentNow DEF StatusBegin
    <2>2. StatusesNow'
      <3>1. \A q \in DOMAIN statuses' : Resolves(q) /\ statuses'[q] = StatusAt(q)
        BY <1>3, <2>1 DEF QuietFacts, StatusesNow, Remember
      <3> QED
        BY <3>1, SameDisk DEF StatusesNow
    <2>3. PendingNow'
      BY <1>3, <2>1, SameDisk DEF PendingNow
    <2>4. AnswersNow' /\ RealPathsNow'
      BY <2>1, SameDisk DEF QuietFacts, AnswersNow, RealPathsNow, Recorded, complete, disk
    <2> QED
      BY <2>1, <2>2, <2>3, <2>4, SameDisk DEF QuietFacts
  <1> QED
    BY <1>1, <1>2, <1>3

LEMMA PendingQuiet ==
    ASSUME TypeOK, QuietFacts, UNCHANGED disk, StatusResolve \/ StatusRecheck
    PROVE  QuietFacts'
  <1> DEFINE p == pending.path
             a == Answer("ok", pending.status, pending.phys, None)
  <1>1. /\ pending # Idle /\ pending \in Pendings /\ p \in Paths
        /\ Resolves(p) /\ pending.status = StatusAt(p)
        /\ pending.phys # None => pending.phys = target[p]
    BY DEF StatusResolve, StatusRecheck, TypeOK, RestOK, Pendings, QuietFacts, PendingNow
  <1>2. StatusesNow' /\ IdentitiesNow' /\ UNCHANGED statuses
    BY SameDisk DEF QuietFacts, StatusResolve, StatusRecheck
  <1>3. CASE StatusResolve
    <2>1. pending' = [pending EXCEPT !.phys = target[p]] /\ UNCHANGED <<obs, failure>>
      BY <1>1, <1>3 DEF StatusResolve
    <2>2. pending'.path = p /\ pending'.status = pending.status /\ pending'.phys = target[p]
      BY <1>1, <2>1 DEF Pendings
    <2>3. PendingNow'
      BY <1>1, <2>2, SameDisk DEF PendingNow, disk
    <2>4. AnswersNow' /\ RealPathsNow'
      BY <2>1, SameDisk DEF QuietFacts, AnswersNow, RealPathsNow, Recorded, complete, disk
    <2> QED
      BY <1>2, <2>1, <2>3, <2>4 DEF QuietFacts
  <1>4. CASE StatusRecheck
    <2>1. pending' = Idle /\ Store("Status", p, a, strings, 1)
      BY <1>1, <1>4 DEF StatusRecheck
    <2>2. SaysNow("Status", p, a)
      BY <1>1, OkSays
    <2> HIDE DEF p, a
    <2>3. failure' # "changed" /\ AnswersNow' /\ RealPathsNow'
      BY <1>1, <1>2, <2>1, <2>2, StoreQuiet DEF Kinds
    <2> QED
      BY <1>2, <2>1, <2>3 DEF QuietFacts, PendingNow
  <1> QED
    BY <1>3, <1>4

LEMMA OpenQuiet ==
    ASSUME TypeOK, QuietFacts, UNCHANGED disk, NEW p \in Paths,
           OpenReplay(p) \/ OpenError(p) \/ OpenRaced(p) \/ OpenRefused(p)
    PROVE  QuietFacts'
  <1> DEFINE used == strings + NameCharge
  <1>1. complete /\ UNCHANGED <<statuses, identities, pending>>
    BY DEF OpenReplay, OpenError, OpenRaced, OpenRefused, Opening, Fresh, Admits, Asks
  <1>2. CASE OpenReplay(p)
    <2>1. /\ Recorded("Status", p) /\ obs[<<"Status", p>>].err # "ok"
          /\ Store("Open", p, Failed(obs[<<"Status", p>>].err), strings + NameCharge, 0)
      BY <1>2 DEF OpenReplay
    <2>2. obs[<<"Status", p>>].err \in Lost => ~Resolves(p)
      BY <2>1 DEF QuietFacts, AnswersNow, SaysNow, Negative, Lost, Kinds
    <2> QED
      BY <1>1, <2>1, <2>2, FailedSays, StoreQuietKeeps DEF Kinds
  <1>3. CASE OpenError(p)
    <2>1. \/ ~Resolves(p) /\ Store("Open", p, Failed(target[p]), strings + NameCharge, 0)
          \/ Store("Open", p, Failed("EISDIR"), strings + NameCharge, 0)
          \/ StoreFailed("Open", p, "EACCES", "denied", strings + NameCharge)
      BY <1>3 DEF OpenError
    <2>2. SaysNow("Open", p, Failed("EISDIR"))
      BY FailedSays DEF Lost
    <2>3. CASE ~Resolves(p) /\ Store("Open", p, Failed(target[p]), strings + NameCharge, 0)
      BY <1>1, <2>3, TargetSays, StoreQuietKeeps DEF Kinds
    <2>4. CASE Store("Open", p, Failed("EISDIR"), strings + NameCharge, 0)
      BY <1>1, <2>2, <2>4, StoreQuietKeeps DEF Kinds
    <2>5. CASE StoreFailed("Open", p, "EACCES", "denied", strings + NameCharge)
      BY <1>1, <2>5, StoreFailedQuietKeeps DEF Kinds, Reasons, Lost
    <2> QED
      BY <2>1, <2>3, <2>4, <2>5
  <1>4. CASE OpenRaced(p)
    BY <1>4 DEF OpenRaced, Move
  <1>5. CASE OpenRefused(p)
    <2>1. Resolves(p) /\ consistent(p, StatusAt(p))
      BY <1>5, ConsistentNow DEF OpenRefused, Readable
    <2>2. ~(Recorded("RealPath", p) /\ obs[<<"RealPath", p>>].phys # target[p])
      BY <1>1, <2>1 DEF QuietFacts, RealPathsNow
    <2>3. \E e \in {"EFBIG", "ECHANGED"} : StoreFailed("Open", p, e, "limit", strings + NameCharge)
      BY <1>5, <2>1, <2>2 DEF OpenRefused
    <2> QED
      BY <1>1, <2>3, StoreFailedQuietKeeps DEF Kinds, Reasons, Lost
  <1> QED
    BY <1>2, <1>3, <1>4, <1>5

LEMMA OpenReadQuiet ==
    ASSUME TypeOK, QuietFacts, UNCHANGED disk, NEW p \in Paths, OpenRead(p)
    PROVE  QuietFacts'
  <1> DEFINE s == StatusAt(p)
             bytes == data[NodeAt(p)]
             a == Answer("ok", s, target[p], bytes)
             used == strings + NameCharge
  <1>1. /\ Resolves(p) /\ UNCHANGED pending /\ statuses' = Remember(statuses, p, s)
        /\ identities' = Remember(identities, s.node, [status |-> s, bytes |-> bytes])
        /\ s.node = NodeAt(p)
    BY StatusType DEF OpenRead, Readable
  <1>2. StatusesNow'
    <2>1. \A q \in DOMAIN statuses' : Resolves(q) /\ statuses'[q] = StatusAt(q)
      BY <1>1 DEF QuietFacts, StatusesNow, Remember
    <2> QED
      BY <2>1, SameDisk DEF StatusesNow
  <1>3. IdentitiesNow'
    <2>1. ASSUME NEW n \in DOMAIN identities'
          PROVE  /\ identities'[n].status = [node |-> n, stamp |-> stamp[n], size |-> Size[data[n]]]
                 /\ identities'[n].bytes = data[n]
      <3>1. CASE n \in DOMAIN identities
        BY <1>1, <3>1 DEF QuietFacts, IdentitiesNow, Remember
      <3>2. CASE n \notin DOMAIN identities
        <4>1. n = NodeAt(p) /\ identities'[n] = [status |-> s, bytes |-> bytes]
          BY <1>1, <3>2 DEF Remember
        <4> QED
          BY <4>1 DEF StatusAt
      <3> QED
        BY <3>1, <3>2
    <2> QED
      BY <2>1 DEF IdentitiesNow, disk
  <1>4. Store("Open", p, a, used, 2)
    <2>1. s.node \in DOMAIN identities => identities[s.node].bytes = bytes
      BY <1>1 DEF QuietFacts, IdentitiesNow
    <2> QED
      BY <2>1 DEF OpenRead
  <1>5. SaysNow("Open", p, a)
    BY OkSays
  <1> HIDE DEF s, bytes, a, used
  <1>6. failure' # "changed" /\ AnswersNow' /\ RealPathsNow'
    BY <1>2, <1>4, <1>5, StoreQuiet DEF Kinds
  <1> QED
    BY <1>1, <1>2, <1>3, <1>6, SameDisk DEF QuietFacts

LEMMA PathQuiet ==
    ASSUME TypeOK, QuietFacts, UNCHANGED disk, NEW p \in Paths, RealPath(p) \/ Locality(p)
    PROVE  QuietFacts'
  <1>1. UNCHANGED <<statuses, identities, pending>>
    BY DEF RealPath, Locality
  <1>2. CASE RealPath(p)
    <2>1. ASSUME NEW q \in {target[p]},
                 Store("RealPath", p, Answer("ok", NoStatus, q, None), strings + NameCharge, 1)
          PROVE  QuietFacts'
      <3> DEFINE a == Answer("ok", NoStatus, q, None)
      <3>1. SaysNow("RealPath", p, a) /\ a.phys = target[p] /\ a.err = "ok"
        <4>1. q \in {None, target[p]} /\ q = target[p]
          OBVIOUS
        <4>2. SaysNow("RealPath", p, a)
          BY <4>1, OkSays
        <4>3. a.phys = q /\ a.err = "ok"
          BY DEF Answer
        <4> QED
          BY <4>1, <4>2, <4>3
      <3>2. Store("RealPath", p, a, strings + NameCharge, 1)
        BY <2>1
      <3> HIDE DEF a
      <3> QED
        BY <1>1, <3>1, <3>2, StoreQuietKeeps DEF Kinds
    <2>2. ASSUME ~Resolves(p), Store("RealPath", p, Failed(target[p]), strings + NameCharge, 0)
          PROVE  QuietFacts'
      BY <1>1, <2>2, TargetSays, StoreQuietKeeps DEF Kinds
    <2> QED
      BY <1>2, <2>1, <2>2, PriorNow DEF RealPath
  <1>3. CASE Locality(p)
    <2> DEFINE a == IF Resolves(p) THEN Answer("ok", NoStatus, None, None) ELSE Failed(target[p])
    <2>1. Store("Locality", p, a, strings + NameCharge, 0)
      BY <1>3 DEF Locality
    <2>2. SaysNow("Locality", p, a)
      BY OkSays, TargetSays
    <2> HIDE DEF a
    <2> QED
      BY <1>1, <2>1, <2>2, StoreQuietKeeps DEF Kinds
  <1> QED
    BY <1>2, <1>3

LEMMA DirectoryQuiet ==
    ASSUME TypeOK, QuietFacts, UNCHANGED disk, NEW p \in Paths,
           DirectoryError(p) \/ DirectoryRaced(p) \/ DirectoryInconsistent(p)
    PROVE  QuietFacts'
  <1>1. UNCHANGED <<statuses, identities, pending>>
    BY DEF DirectoryError, DirectoryRaced, DirectoryInconsistent
  <1>2. CASE DirectoryError(p)
    <2>1. CASE target[p] \in Lost /\ Store("Directory", p, Failed(target[p]), strings + NameCharge, 0)
      <3>1. ~Resolves(p)
        BY <2>1, ErrorAssumption DEF Resolves
      <3> QED
        BY <1>1, <2>1, <3>1, TargetSays, StoreQuietKeeps DEF Kinds
    <2>2. CASE Resolves(p) /\ NodeAt(p) \in Files
               /\ Store("Directory", p, Failed("ENOTDIR"), strings + NameCharge, 0)
      <3>1. SaysNow("Directory", p, Failed("ENOTDIR"))
        BY FailedNotOk DEF SaysNow, Negative
      <3> QED
        BY <1>1, <2>2, <3>1, StoreQuietKeeps DEF Kinds
    <2>3. CASE StoreFailed("Directory", p, "EACCES", "directory", strings + NameCharge)
      BY <1>1, <2>3, StoreFailedQuietKeeps DEF Kinds, Reasons, Lost
    <2> QED
      BY <1>2, <2>1, <2>2, <2>3 DEF DirectoryError
  <1>3. CASE DirectoryRaced(p)
    BY <1>3 DEF DirectoryRaced, Move
  <1>4. CASE DirectoryInconsistent(p)
    BY <1>4, ConsistentNow DEF DirectoryInconsistent, Listable
  <1> QED
    BY <1>2, <1>3, <1>4

LEMMA DirectoryListQuiet ==
    ASSUME TypeOK, QuietFacts, UNCHANGED disk, NEW p \in Paths, DirectoryList(p)
    PROVE  QuietFacts'
  <1> DEFINE s == StatusAt(p)
             used == strings + NameCharge
             a == Answer("ok", s, target[p], data[NodeAt(p)])
  <1>1. /\ Resolves(p) /\ UNCHANGED <<pending, identities>> /\ complete
        /\ statuses' = Remember(statuses, p, s)
    BY DEF DirectoryList, Listable, Fresh, Admits, Asks
  <1>2. StatusesNow'
    <2>1. \A q \in DOMAIN statuses' : Resolves(q) /\ statuses'[q] = StatusAt(q)
      BY <1>1 DEF QuietFacts, StatusesNow, Remember
    <2> QED
      BY <2>1, SameDisk DEF StatusesNow
  <1>3. SaysNow("Directory", p, a) /\ a.err = "ok"
    <2>1. SaysNow("Directory", p, a)
      BY OkSays
    <2>2. a.err = "ok"
      BY DEF Answer
    <2> QED
      BY <2>1, <2>2
  <1>4. \/ Store("Directory", p, a, used, 1 + s.size)
        \/ obs' = Remember(obs, <<"Directory", p>>, a) /\ Fail("directory")
        \/ StoreFailed("Directory", p, "EFBIG", "limit", used)
    BY DEF DirectoryList
  <1> HIDE DEF s, used, a
  <1>5. failure' # "changed" /\ AnswersNow' /\ RealPathsNow'
    <2>1. CASE Store("Directory", p, a, used, 1 + s.size)
      BY <1>2, <1>3, <2>1, StoreQuiet DEF Kinds
    <2>2. CASE StoreFailed("Directory", p, "EFBIG", "limit", used)
      BY <2>2, StoreFailedQuiet DEF Kinds, Reasons, Lost
    <2>3. CASE obs' = Remember(obs, <<"Directory", p>>, a) /\ Fail("directory")
      <3>1. failure' = "directory" /\ RealPathsNow'
        BY <1>1, <2>3 DEF Fail, complete, RealPathsNow
      <3>2. AnswersNow'
        <4> SUFFICES ASSUME NEW j \in Kinds, NEW q \in Paths, Recorded(j, q)'
                     PROVE  SaysNow(j, q, obs'[<<j, q>>])
          BY SameDisk DEF AnswersNow
        <4>1. CASE Recorded(j, q)
          BY <2>3, <4>1 DEF Recorded, Remember, QuietFacts, AnswersNow
        <4>2. CASE ~Recorded(j, q)
          <5>1. j = "Directory" /\ q = p /\ obs'[<<j, q>>] = a
            BY <2>3, <4>2 DEF Recorded, Remember
          <5> QED
            BY <1>3, <5>1
        <4> QED
          BY <4>1, <4>2
      <3> QED
        BY <3>1, <3>2
    <2> QED
      BY <1>4, <2>1, <2>2, <2>3
  <1> QED
    BY <1>1, <1>2, <1>5, SameDisk DEF QuietFacts

LEMMA ReplayQuiet ==
    ASSUME TypeOK, QuietFacts, UNCHANGED disk, NEW k \in Kinds, NEW p \in Paths, ReplayNegative(k, p)
    PROVE  QuietFacts'
  <1>1. PICK e \in PriorNegatives(p) : obs' = Remember(obs, <<k, p>>, Failed(e))
    BY DEF ReplayNegative
  <1>2. ~Resolves(p) /\ e # "ok" /\ SaysNow(k, p, Failed(e))
    BY <1>1, PriorNow, FailedSays DEF PriorNegatives, Negative
  <1>3. UNCHANGED <<statuses, identities, pending, failure>>
    BY DEF ReplayNegative
  <1>4. AnswersNow'
    <2> SUFFICES ASSUME NEW j \in Kinds, NEW q \in Paths, Recorded(j, q)'
                 PROVE  SaysNow(j, q, obs'[<<j, q>>])
      BY SameDisk DEF AnswersNow
    <2>1. CASE Recorded(j, q)
      BY <1>1, <2>1 DEF Recorded, Remember, QuietFacts, AnswersNow
    <2>2. CASE ~Recorded(j, q)
      <3>1. j = k /\ q = p /\ obs'[<<j, q>>] = Failed(e)
        BY <1>1, <2>2 DEF Recorded, Remember
      <3> QED
        BY <1>2, <3>1
    <2> QED
      BY <2>1, <2>2
  <1>5. RealPathsNow'
    <2> SUFFICES ASSUME complete, NEW q \in Paths, Recorded("RealPath", q)', Resolves(q)
                 PROVE  obs'[<<"RealPath", q>>].phys = target[q]
      BY <1>3, SameDisk DEF RealPathsNow, disk, complete
    <2>1. Recorded("RealPath", q) /\ obs'[<<"RealPath", q>>] = obs[<<"RealPath", q>>]
      BY <1>1, <1>2 DEF Recorded, Remember
    <2> QED
      BY <2>1 DEF QuietFacts, RealPathsNow
  <1> QED
    BY <1>3, <1>4, <1>5, QuietKeeps DEF QuietFacts

LEMMA RestQuiet ==
    ASSUME QuietFacts, UNCHANGED disk, UNCHANGED <<obs, statuses, identities, pending>>,
           \/ UNCHANGED failure
           \/ \E r \in Reasons \ {"changed"} : Fail(r)
    PROVE  QuietFacts'
  <1>1. failure' # "changed" /\ (complete' => complete)
    BY DEF Fail, QuietFacts, complete, Reasons
  <1>2. AnswersNow' /\ RealPathsNow'
    BY <1>1, SameDisk DEF QuietFacts, AnswersNow, RealPathsNow, Recorded, disk
  <1> QED
    BY <1>1, <1>2, QuietKeeps

LEMMA QueryQuiet ==
    ASSUME TypeOK, QuietFacts, UNCHANGED disk, NEW p \in Paths, Query(p)
    PROVE  QuietFacts'
  <1>1. CASE \E k \in Kinds : RefuseSealed(k, p) \/ RefuseLimit(k, p)
    BY <1>1, RestQuiet DEF RefuseSealed, RefuseLimit, record, Reasons
  <1>2. CASE ~ \E k \in Kinds : RefuseSealed(k, p) \/ RefuseLimit(k, p)
    BY <1>2, ReplayQuiet, StatusQuiet, OpenQuiet, OpenReadQuiet, PathQuiet, DirectoryQuiet,
       DirectoryListQuiet
    DEF Query
  <1> QED
    BY <1>1, <1>2

(* A step that leaves the count of moves at zero leaves the disk alone. *)
LEMMA StillDisk ==
    ASSUME TypeOK, [Next]_vars, moves' = 0
    PROVE  moves = 0 /\ UNCHANGED disk
  <1>1. moves \in Nat
    BY DEF TypeOK
  <1>2. ~Move
    BY <1>1 DEF Move
  <1>3. UNCHANGED <<disk, moves>>
    <2>1. CASE \E p \in Paths : Query(p)
      BY <1>2, <2>1 DEF Query, RefuseSealed, RefuseLimit, ReplayNegative, StatusReplay, StatusBegin,
         OpenReplay, OpenError, OpenRaced, OpenRefused, OpenRead, RealPath, DirectoryError,
         DirectoryRaced, DirectoryInconsistent, DirectoryList, Locality, Quiet
    <2>2. CASE StatusResolve \/ StatusRecheck \/ RefuseArgument \/ seal \/ DiskMoves \/ UNCHANGED vars
      BY <1>2, <2>2 DEF StatusResolve, StatusRecheck, RefuseArgument, seal, DiskMoves, Quiet, vars, disk
    <2> QED
      BY <2>1, <2>2 DEF Next
  <1> QED
    BY <1>3

(* While no other process touches the disk, no order of the queries makes the    *)
(* recorder report that an input changed.                                        *)
THEOREM NoFalseAlarm == Spec => []QuietDiskNeverFails
  <1>1. Init => QuietInv
    BY DEF Init, EmptyMap, QuietInv, QuietFacts, StatusesNow, IdentitiesNow, AnswersNow,
       RealPathsNow, PendingNow, Recorded
  <1>2. TypeOK /\ QuietInv /\ [Next]_vars => QuietInv'
    <2> SUFFICES ASSUME TypeOK, QuietFacts, UNCHANGED disk, [Next]_vars PROVE QuietFacts'
      BY StillDisk DEF QuietInv
    <2>1. CASE UNCHANGED vars
      BY <2>1, RestQuiet DEF vars
    <2>2. CASE \E p \in Paths : Query(p)
      BY <2>2, QueryQuiet
    <2>3. CASE StatusResolve \/ StatusRecheck
      BY <2>3, PendingQuiet
    <2>4. CASE RefuseArgument \/ seal \/ DiskMoves
      BY <2>4, RestQuiet DEF RefuseArgument, seal, DiskMoves, record, Reasons
    <2> QED
      BY <2>1, <2>2, <2>3, <2>4 DEF Next
  <1>3. QuietInv => QuietDiskNeverFails
    BY DEF QuietInv, QuietFacts, QuietDiskNeverFails
  <1> QED
    BY <1>1, <1>2, <1>3, TypeCorrect, PTL DEF Spec
================================================================================
